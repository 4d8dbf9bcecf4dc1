--------------------------- MODULE CollateralProofs ---------------------------
(***************************************************************************)
(* Proofs about the collateral of a client: for all deposits, orders,      *)
(* amounts, routes and fees, and any number of notices, as long as the     *)
(* payment of an order is confirmed once.                                  *)
(***************************************************************************)
EXTENDS Collateral, CollectionTheorems

-----------------------------------------------------------------------------
(* The inductive invariant.                                                *)

\* A lot has authorised and spent what its payments say.
LotSound(lot) ==
    /\ lot.preauth = Total([p \in PaymentIds |-> lot.spends[p].preauth])
    /\ lot.spent = Total([p \in PaymentIds |-> lot.spends[p].spent])

\* No deposit is in two lots.
Apart(s) ==
    /\ \A i, j \in DOMAIN s.open_lots :
          s.open_lots[i].seq_num = s.open_lots[j].seq_num => i = j
    /\ \A i, j \in DOMAIN s.closed_lots :
          s.closed_lots[i].seq_num = s.closed_lots[j].seq_num => i = j
    /\ \A i \in DOMAIN s.open_lots, j \in DOMAIN s.closed_lots :
          s.open_lots[i].seq_num # s.closed_lots[j].seq_num

\* The open lots add up to the balances; closed lots only hold what was spent.
SideSound(s) ==
    /\ s \in CollateralSide
    /\ s.unconfirmed = Total(Unconfirmed(s.open_lots))
    /\ s.ready = Total(Ready(s.open_lots))
    /\ s.preauth = Total(Preauth(s.open_lots))
    /\ s.spent = Total(SpentIn(s.open_lots)) + Total(SpentIn(s.closed_lots))
    /\ \A i \in DOMAIN s.open_lots : LotSound(s.open_lots[i])
    /\ \A i \in DOMAIN s.closed_lots : LotSound(s.closed_lots[i]) /\ Over(s.closed_lots[i])
    /\ Apart(s)

\* What is authorised for a payment in all lots.
AuthorisedFor(s, p) == Total(Authorised(s.open_lots, p))

SeqNumsOf(lots) == {lots[i].seq_num : i \in DOMAIN lots}

Deposited(s) == SeqNumsOf(s.open_lots) \cup SeqNumsOf(s.closed_lots)

\* All that was deposited.
Balance(s) == s.unconfirmed + s.ready + s.preauth + s.spent

\* The deposits that were reported are there once.
DepositsBooked ==
    /\ Deposited(side_cr) = {d \in Deposits : notices[d] > 0}
    /\ Balance(side_cr) = SumFunctionOnSet(DepositAmount, Deposited(side_cr))

\* An order has authorised what was routed for it, until its payment is confirmed.
AuthorisedOnce ==
    \A p \in PaymentIds :
        AuthorisedFor(side_cr, p) = IF p \in Orders /\ confirms[p] = 0 THEN order[p].routed ELSE 0

Event ==
    [type : {"CollateralReady"}, order : Orders, status : {"Ready", "NotReady", "CheckLater"},
     amount : Nat]
    \cup [type : {"PreAuthResponse"}, order : Orders, status : {"Approved", "NotEnoughFunds"}]
    \cup [type : {"ConfirmResponse"}, order : Orders, status : {"Authorized", "NotEnoughFunds"},
          seq_nums : Seq(Deposits)]

Promise(e) == IF e.type = "CollateralReady" /\ e.status = "Ready" THEN e.amount ELSE 0

\* What the events announce as ready, and that it is there.
Promised(evs) == Total([i \in DOMAIN evs |-> Promise(evs[i])])

PromisesKept == Promised(events) <= side_cr.ready

\* Orders whose collateral is announced, one way or the other, or answered for later.
RoutedIn(evs) == {evs[i].order : i \in {j \in DOMAIN evs : evs[j].type = "CollateralReady"}}
AnsweredIn(evs) == {evs[i].order : i \in {j \in DOMAIN evs : evs[j].type # "CollateralReady"}}
AckedIn(q) == {q[i] : i \in DOMAIN q}

\* No announcement is made twice.
Once(evs) ==
    \A i, j \in DOMAIN evs :
        evs[i].type = "CollateralReady" /\ evs[j].type = "CollateralReady" /\ evs[i].order = evs[j].order
            => i = j

OnTheWay(ts) == {t.order : t \in ts}

EnRoute == requests \cup OnTheWay(transfers) \cup RoutedIn(events)

Answered == AnsweredIn(events) \cup AckedIn(acks)

\* The collateral of an order is in one place of its route.
OneRoute ==
    /\ \A t, u \in transfers : t.order = u.order => t = u
    /\ requests \cap OnTheWay(transfers) = {}
    /\ (requests \cup OnTheWay(transfers)) \cap RoutedIn(events) = {}
    /\ Once(events)

\* It is on its route before anything is authorised, and only once.
Unrouted(o) == order[o].routed = 0 /\ confirms[o] = 0 /\ o \notin Answered

RoutedOnce ==
    /\ \A o \in EnRoute : order[o].status \in {"ManageCollateral", "Cancelled"} /\ Unrouted(o)
    /\ \A o \in Orders : order[o].status \in {"New", "Open"} => Unrouted(o)

\* The fees of the hops that are left are covered.
Covered(t) == \E f \in Fees : OrderAmount[t.order] <= t.amount + (t.hop - 1) * f

FeesCovered == \A t \in transfers : Covered(t)

Types == TypeOK /\ events \in Seq(Event)

Accounts == SideSound(side_cr) /\ DepositsBooked /\ AuthorisedOnce

Routes == OneRoute /\ RoutedOnce /\ FeesCovered

Inv == Types /\ Accounts /\ PromisesKept /\ Routes

-----------------------------------------------------------------------------
(* Picked.                                                                 *)

\* The elements of u are those of s at the places of I, each once.
PickedRight(u, s, I) ==
    \E at \in [1 .. Len(u) -> I] :
        /\ \A j, k \in 1 .. Len(u) : at[j] = at[k] => j = k
        /\ \A i \in I : \E k \in 1 .. Len(u) : at[k] = i
        /\ \A k \in 1 .. Len(u) : u[k] = s[at[k]]

\* One turn of the recursion.
LEMMA PickedTurn ==
    ASSUME NEW X, NEW u \in Seq(X), NEW s, NEW k \in Nat, NEW I, I \subseteq 1 .. k,
           s[k + 1] \in X, PickedRight(u, s, I)
    PROVE  PickedRight(Append(u, s[k + 1]), s, I \cup {k + 1})
<1> DEFINE v == Append(u, s[k + 1])
           n == Len(u)
<1>1. /\ n \in Nat /\ Len(v) = n + 1 /\ v[n + 1] = s[k + 1]
      /\ \A j \in 1 .. n : v[j] = u[j]
  BY LenProperties, AppendProperties
<1>2. PICK at \in [1 .. n -> I] :
        /\ \A j, l \in 1 .. n : at[j] = at[l] => j = l
        /\ \A i \in I : \E l \in 1 .. n : at[l] = i
        /\ \A l \in 1 .. n : u[l] = s[at[l]]
  BY DEF PickedRight
<1> DEFINE to == [j \in 1 .. n + 1 |-> IF j = n + 1 THEN k + 1 ELSE at[j]]
<1>3. to \in [1 .. n + 1 -> I \cup {k + 1}]
  BY <1>1, <1>2
<1>4. to[n + 1] = k + 1 /\ \A j \in 1 .. n : to[j] = at[j] /\ at[j] \in I /\ at[j] # k + 1
  BY <1>1, <1>2
<1> HIDE DEF to, n, v
<1>5. \A j, l \in 1 .. n + 1 : to[j] = to[l] => j = l
  <2> SUFFICES ASSUME NEW j \in 1 .. n + 1, NEW l \in 1 .. n + 1, to[j] = to[l] PROVE j = l
    OBVIOUS
  <2>1. (j \in 1 .. n \/ j = n + 1) /\ (l \in 1 .. n \/ l = n + 1)
    BY <1>1
  <2>2. CASE j \in 1 .. n /\ l \in 1 .. n
    <3>1. at[j] = at[l]
      BY <1>4, <2>2
    <3> QED  BY <1>2, <2>2, <3>1
  <2>3. CASE j \in 1 .. n /\ l = n + 1
    BY <1>4, <2>3
  <2>4. CASE j = n + 1 /\ l \in 1 .. n
    BY <1>4, <2>4
  <2>5. CASE j = n + 1 /\ l = n + 1
    BY <2>5
  <2> QED  BY <2>1, <2>2, <2>3, <2>4, <2>5
<1>6. \A i \in I \cup {k + 1} : \E l \in 1 .. n + 1 : to[l] = i
  <2> SUFFICES ASSUME NEW i \in I \cup {k + 1} PROVE \E l \in 1 .. n + 1 : to[l] = i
    OBVIOUS
  <2>1. CASE i = k + 1
    BY <1>1, <1>4, <2>1
  <2>2. CASE i \in I
    <3>1. PICK l \in 1 .. n : at[l] = i
      BY <1>2, <2>2
    <3>2. l \in 1 .. n + 1 /\ to[l] = i
      BY <1>1, <1>4, <3>1
    <3> QED  BY <3>2
  <2> QED  BY <2>1, <2>2
<1>7. \A l \in 1 .. n + 1 : v[l] = s[to[l]]
  <2> SUFFICES ASSUME NEW l \in 1 .. n + 1 PROVE v[l] = s[to[l]]
    OBVIOUS
  <2>1. l \in 1 .. n \/ l = n + 1
    BY <1>1
  <2>2. CASE l \in 1 .. n
    BY <1>1, <1>2, <1>4, <2>2
  <2>3. CASE l = n + 1
    BY <1>1, <1>4, <2>3
  <2> QED  BY <2>1, <2>2, <2>3
<1>8. /\ to \in [1 .. Len(v) -> I \cup {k + 1}]
      /\ \A j, l \in 1 .. Len(v) : to[j] = to[l] => j = l
      /\ \A i \in I \cup {k + 1} : \E l \in 1 .. Len(v) : to[l] = i
      /\ \A l \in 1 .. Len(v) : v[l] = s[to[l]]
  BY <1>1, <1>3, <1>5, <1>6, <1>7
<1>9. PickedRight(v, s, I \cup {k + 1})
  BY <1>8 DEF PickedRight
<1> QED  BY <1>9 DEF v

\* Picked is its recursion, and has what it should.
LEMMA PickedFacts ==
    ASSUME NEW X, NEW s \in Seq(X), NEW places, places \subseteq DOMAIN s
    PROVE  Picked(s, places) \in Seq(X) /\ PickedRight(Picked(s, places), s, places)
<1> DEFINE L == Len(s)
           Rec(g, k) == g = [i \in 0 .. k |-> IF i = 0 THEN <<>>
                                              ELSE IF i \in places THEN Append(g[i - 1], s[i]) ELSE g[i - 1]]
<1>1. L \in Nat /\ DOMAIN s = 1 .. L /\ \A i \in 1 .. L : s[i] \in X
  BY LenProperties, ElementOfSeq
<1>2. \E g : Rec(g, L)
  <2> DEFINE T == {k \in Nat : \E g : Rec(g, k)}
  <2>1. 0 \in T
    <3>1. Rec([i \in 0 .. 0 |-> <<>>], 0)
      OBVIOUS
    <3> QED  BY <3>1
  <2>2. ASSUME NEW k \in T PROVE k + 1 \in T
    <3>1. PICK g : Rec(g, k)
      OBVIOUS
    <3> DEFINE last == IF k + 1 \in places THEN Append(g[k], s[k + 1]) ELSE g[k]
               h == [i \in 0 .. k + 1 |-> IF i = k + 1 THEN last ELSE g[i]]
    <3>2. \A i \in 0 .. k : g[i] = IF i = 0 THEN <<>>
                                   ELSE IF i \in places THEN Append(g[i - 1], s[i]) ELSE g[i - 1]
      BY <3>1
    <3>3. \A i \in 0 .. k + 1 : h[i] = IF i = 0 THEN <<>>
                                       ELSE IF i \in places THEN Append(h[i - 1], s[i]) ELSE h[i - 1]
      <4> SUFFICES ASSUME NEW i \in 0 .. k + 1
                   PROVE  h[i] = IF i = 0 THEN <<>>
                                 ELSE IF i \in places THEN Append(h[i - 1], s[i]) ELSE h[i - 1]
        OBVIOUS
      <4>1. CASE i = k + 1
        <5>1. h[i - 1] = g[k] /\ h[i] = last /\ i # 0
          BY <4>1
        <5> QED  BY <4>1, <5>1
      <4>2. CASE i # k + 1
        <5>1. i \in 0 .. k /\ h[i] = g[i] /\ (i # 0 => i - 1 \in 0 .. k + 1 /\ h[i - 1] = g[i - 1])
          BY <4>2
        <5> QED  BY <3>2, <5>1
      <4> QED  BY <4>1, <4>2
    <3>4. h = [i \in 0 .. k + 1 |-> h[i]]
      OBVIOUS
    <3> HIDE DEF h
    <3>5. Rec(h, k + 1)
      BY <3>3, <3>4
    <3>6. k + 1 \in Nat
      OBVIOUS
    <3> HIDE DEF Rec
    <3>7. \E f : Rec(f, k + 1)
      BY <3>5
    <3> QED  BY <3>6, <3>7
  <2> HIDE DEF T
  <2>3. T \subseteq Nat
    BY DEF T
  <2>4. T = Nat
    <3>1. \A k \in T : k + 1 \in T
      BY <2>2
    <3> QED  BY <2>1, <2>3, <3>1, NatSetInduction
  <2> QED  BY <1>1, <2>4 DEF T
<1>3. PICK g : Rec(g, L) /\ Picked(s, places) = g[L]
  <2> DEFINE upTo == CHOOSE g : Rec(g, L)
  <2>1. Rec(upTo, L)
    BY <1>2
  <2>2. Picked(s, places) = upTo[L]
    BY DEF Picked
  <2> QED  BY <2>1, <2>2
<1>4. \A i \in 0 .. L : g[i] = IF i = 0 THEN <<>>
                               ELSE IF i \in places THEN Append(g[i - 1], s[i]) ELSE g[i - 1]
  BY <1>3
<1> DEFINE Good == {k \in Nat : k <= L => /\ g[k] \in Seq(X)
                                          /\ PickedRight(g[k], s, places \cap (1 .. k))}
<1>5. 0 \in Good
  <2>1. g[0] = <<>>
    BY <1>1, <1>4
  <2>2. <<>> \in Seq(X) /\ Len(<<>>) = 0 /\ 1 .. 0 = {}
    BY EmptySeq
  <2>3. PickedRight(<<>>, s, {})
    <3>1. [i \in {} |-> 0] \in [{} -> {}]
      OBVIOUS
    <3> QED  BY <2>2, <3>1 DEF PickedRight
  <2>4. places \cap (1 .. 0) = {}
    BY <2>2
  <2> QED  BY <2>1, <2>2, <2>3, <2>4
<1>6. ASSUME NEW k \in Good PROVE k + 1 \in Good
  <2> SUFFICES ASSUME k + 1 <= L
               PROVE  g[k + 1] \in Seq(X) /\ PickedRight(g[k + 1], s, places \cap (1 .. k + 1))
    OBVIOUS
  <2>1. k \in Nat /\ g[k] \in Seq(X) /\ PickedRight(g[k], s, places \cap (1 .. k))
    BY <1>1
  <2>2. g[k + 1] = IF k + 1 \in places THEN Append(g[k], s[k + 1]) ELSE g[k]
    BY <1>1, <1>4, <2>1
  <2>3. s[k + 1] \in X
    BY <1>1, <2>1
  <2>4. CASE k + 1 \in places
    <3>1. places \cap (1 .. k + 1) = (places \cap (1 .. k)) \cup {k + 1}
      BY <2>1, <2>4
    <3>2. g[k + 1] \in Seq(X)
      BY <2>1, <2>2, <2>3, <2>4, AppendProperties
    <3>3. PickedRight(Append(g[k], s[k + 1]), s, (places \cap (1 .. k)) \cup {k + 1})
      <4> DEFINE I == places \cap (1 .. k)
      <4>1. I \subseteq 1 .. k
        OBVIOUS
      <4> HIDE DEF I
      <4> QED  BY <2>1, <2>3, <4>1, PickedTurn DEF I
    <3> QED  BY <2>2, <2>4, <3>1, <3>2, <3>3
  <2>5. CASE k + 1 \notin places
    <3>1. places \cap (1 .. k + 1) = places \cap (1 .. k)
      BY <2>1, <2>5
    <3> QED  BY <2>1, <2>2, <2>5, <3>1
  <2> QED  BY <2>4, <2>5
<1> HIDE DEF Good
<1>7. Good \subseteq Nat
  BY DEF Good
<1>8. Good = Nat
  BY <1>5, <1>6, <1>7, NatSetInduction
<1>9. L \in Good /\ places \cap (1 .. L) = places
  BY <1>1, <1>8
<1> QED  BY <1>1, <1>3, <1>9 DEF Good

-----------------------------------------------------------------------------
(* Totals.                                                                 *)

\* A total of numbers, place by place.
LEMMA TotalFacts ==
    ASSUME NEW n \in Nat, NEW f, DOMAIN f = 1 .. n, \A i \in 1 .. n : f[i] \in Int
    PROVE  /\ Total(f) = SumFunctionOnSet(f, 1 .. n) /\ Total(f) \in Int
           /\ (\A i \in 1 .. n : f[i] \in Nat) =>
                 /\ Total(f) \in Nat
                 /\ \A i \in 1 .. n : f[i] <= Total(f)
           /\ (\A i \in 1 .. n : f[i] = 0) => Total(f) = 0
<1>1. IsFiniteSet(1 .. n)
  BY FS_Interval
<1>2. Total(f) = SumFunctionOnSet(f, 1 .. n)
  BY DEF Total
<1>3. SumFunctionOnSet(f, 1 .. n) \in Int
  <2> DEFINE D == 1 .. n
  <2> HIDE DEF D
  <2>1. IsFiniteSet(D) /\ \A i \in D : f[i] \in Int
    BY <1>1 DEF D
  <2>2. SumFunctionOnSet(f, D) \in Int
    BY <2>1, SumType
  <2> QED  BY <2>2 DEF D
<1>4. ASSUME \A i \in 1 .. n : f[i] \in Nat
      PROVE  Total(f) \in Nat /\ \A i \in 1 .. n : f[i] <= Total(f)
  <2> DEFINE D == 1 .. n
  <2>1. IsFiniteSet(D) /\ \A i \in D : f[i] \in Nat
    BY <1>1, <1>4
  <2>2. Total(f) = SumFunctionOnSet(f, D)
    BY <1>2
  <2> HIDE DEF D
  <2>3. SumFunctionOnSet(f, D) \in Nat
    BY <2>1, SumNatural
  <2>4. \A i \in D : f[i] <= SumFunctionOnSet(f, D)
    BY <2>1, SumMember
  <2> QED  BY <2>2, <2>3, <2>4 DEF D
<1>5. ASSUME \A i \in 1 .. n : f[i] = 0 PROVE Total(f) = 0
  <2> DEFINE D == 1 .. n
  <2>1. IsFiniteSet(D) /\ \A i \in D : f[i] = 0
    BY <1>1, <1>5
  <2>2. Total(f) = SumFunctionOnSet(f, D)
    BY <1>2
  <2> HIDE DEF D
  <2> QED  BY <2>1, <2>2, SumZero
<1> QED  BY <1>2, <1>3, <1>4, <1>5

\* What is added place by place is added to the total.
LEMMA TotalAdds ==
    ASSUME NEW n \in Nat, NEW f, NEW g, NEW t,
           DOMAIN f = 1 .. n, DOMAIN g = 1 .. n, DOMAIN t = 1 .. n,
           \A i \in 1 .. n : f[i] \in Int /\ t[i] \in Int /\ g[i] = f[i] + t[i]
    PROVE  Total(g) = Total(f) + Total(t)
<1> DEFINE D == 1 .. n
<1>1. IsFiniteSet(D) /\ \A i \in D : f[i] \in Int /\ t[i] \in Int /\ g[i] = f[i] + t[i]
  BY FS_Interval
<1>2. Total(f) = SumFunctionOnSet(f, D) /\ Total(g) = SumFunctionOnSet(g, D)
      /\ Total(t) = SumFunctionOnSet(t, D)
  BY DEF Total
<1> HIDE DEF D
<1> QED  BY <1>1, <1>2, SumAdds

\* Equal places have an equal total.
LEMMA TotalSame ==
    ASSUME NEW n \in Nat, NEW f, NEW g, DOMAIN f = 1 .. n, DOMAIN g = 1 .. n,
           \A i \in 1 .. n : f[i] = g[i] /\ f[i] \in Int
    PROVE  Total(f) = Total(g)
<1> DEFINE D == 1 .. n
<1>1. /\ Total(f) = SumFunctionOnSet(f, D) /\ Total(g) = SumFunctionOnSet(g, D)
      /\ IsFiniteSet(D) /\ \A i \in D : f[i] = g[i] /\ f[i] \in Int
  BY FS_Interval DEF Total
<1> HIDE DEF D
<1> QED  BY <1>1, SumAgrees

\* h has what f has, and what g has behind it.
Joined(f, g, h, m, n) ==
    /\ m \in Nat /\ n \in Nat
    /\ DOMAIN f = 1 .. m /\ DOMAIN g = 1 .. n /\ DOMAIN h = 1 .. m + n
    /\ \A i \in 1 .. m : f[i] \in Int /\ h[i] = f[i]
    /\ \A i \in 1 .. n : g[i] \in Int /\ h[m + i] = g[i]

\* Places put behind others add up.
LEMMA TotalBehind ==
    ASSUME NEW m, NEW n, NEW f, NEW g, NEW h, Joined(f, g, h, m, n)
    PROVE  Total(h) = Total(f) + Total(g)
<1>1. /\ m \in Nat /\ n \in Nat
      /\ DOMAIN f = 1 .. m /\ DOMAIN g = 1 .. n /\ DOMAIN h = 1 .. m + n
      /\ \A i \in 1 .. m : f[i] \in Int /\ h[i] = f[i]
      /\ \A i \in 1 .. n : g[i] \in Int /\ h[m + i] = g[i]
  BY DEF Joined
<1>2. SumFunctionOnSet(h, 1 .. m + n)
      = SumFunctionOnSet(f, 1 .. m) + SumFunctionOnSet(g, 1 .. n)
  BY <1>1, SumBehind
<1> QED  BY <1>1, <1>2 DEF Total

\* f says of s what g says of u.
SameView(u, s, I, f, g) ==
    /\ DOMAIN g = 1 .. Len(u)
    /\ \A i \in I : f[i] \in Int
    /\ \A k \in 1 .. Len(u), i \in I : u[k] = s[i] => g[k] = f[i]

\* The total of what was picked is the sum over its places.
LEMMA TotalPicked ==
    ASSUME NEW u, NEW s, NEW I, PickedRight(u, s, I), Len(u) \in Nat,
           NEW f, NEW g, SameView(u, s, I, f, g)
    PROVE  IsFiniteSet(I) /\ Total(g) = SumFunctionOnSet(f, I)
<1> DEFINE D == 1 .. Len(u)
<1>1. PICK at \in [D -> I] :
        /\ \A j, k \in D : at[j] = at[k] => j = k
        /\ \A i \in I : \E k \in D : at[k] = i
        /\ \A k \in D : u[k] = s[at[k]]
  BY DEF PickedRight
<1>2. \A k \in D : g[k] \in Int /\ f[at[k]] = g[k]
  <2> SUFFICES ASSUME NEW k \in D PROVE g[k] \in Int /\ f[at[k]] = g[k]
    OBVIOUS
  <2>1. at[k] \in I /\ u[k] = s[at[k]]
    BY <1>1
  <2> QED  BY <2>1 DEF SameView
<1>3. IsFiniteSet(D) /\ Total(g) = SumFunctionOnSet(g, D)
  BY FS_Interval DEF Total, SameView
<1>4. (\A k \in D : at[k] \in I) /\ \A i \in I : \E k \in D : i = at[k]
  BY <1>1
<1>5. Names(at, D, I)
  BY <1>1, <1>4 DEF Names
<1> HIDE DEF D
<1>6. IsFiniteSet(I) /\ SumFunctionOnSet(f, I) = SumFunctionOnSet(g, D)
  BY <1>2, <1>3, <1>5, SumRenamed
<1> QED  BY <1>3, <1>6

\* An amount is taken in full from those that hold as much, and from each as much as it has.
LEMMA TakenFacts ==
    ASSUME NEW n \in Nat, NEW held \in [1 .. n -> Nat], NEW amount \in Nat
    PROVE  LET t == Taken(held, amount)
           IN  /\ t \in [1 .. n -> Nat] /\ DOMAIN t = 1 .. n
               /\ \A i \in 1 .. n : t[i] <= held[i]
               /\ amount <= Total(held) => Total(t) = amount
               /\ amount = Total(held) => \A i \in 1 .. n : t[i] = held[i]
<1> DEFINE t == Taken(held, amount)
           Sum(f, k) == SumFunctionOnSet(f, 1 .. k)
           left(i) == amount - Sum(held, i - 1)
<1>1. \A k \in 0 .. n : Sum(held, k) \in Nat
  <2> SUFFICES ASSUME NEW k \in 0 .. n PROVE SumFunctionOnSet(held, 1 .. k) \in Nat
    OBVIOUS
  <2> DEFINE D == 1 .. k
  <2>1. IsFiniteSet(D)
    BY FS_Interval
  <2>2. \A i \in D : held[i] \in Nat
    OBVIOUS
  <2> HIDE DEF D
  <2>3. SumFunctionOnSet(held, D) \in Nat
    BY <2>1, <2>2, SumNatural
  <2> QED  BY <2>3 DEF D
<1>2. /\ DOMAIN t = 1 .. n
      /\ \A i \in 1 .. n : t[i] = IF left(i) <= 0 THEN 0
                                  ELSE IF held[i] <= left(i) THEN held[i] ELSE left(i)
      /\ t = [i \in 1 .. n |-> t[i]]
  BY DEF Taken
<1>3. \A k \in 0 .. n - 1 : Sum(held, k + 1) = Sum(held, k) + held[k + 1]
  <2> SUFFICES ASSUME NEW k \in 0 .. n - 1
               PROVE  SumFunctionOnSet(held, 1 .. k + 1) = SumFunctionOnSet(held, 1 .. k) + held[k + 1]
    OBVIOUS
  <2>1. k \in Nat /\ \A i \in 1 .. k + 1 : held[i] \in Int
    OBVIOUS
  <2> QED  BY <2>1, SumLast
<1> HIDE DEF t
<1>4. Total(held) = Sum(held, n) /\ Total(t) = Sum(t, n)
  BY <1>2 DEF Total
<1> HIDE DEF Sum
<1>5. \A i \in 1 .. n : left(i) \in Int /\ held[i] \in Nat
  BY <1>1
<1> HIDE DEF left
<1>6. \A i \in 1 .. n : t[i] \in Nat /\ t[i] <= held[i]
  BY <1>2, <1>5
<1>7. \A k \in 0 .. n - 1 : Sum(t, k + 1) = Sum(t, k) + t[k + 1]
  <2> SUFFICES ASSUME NEW k \in 0 .. n - 1
               PROVE  SumFunctionOnSet(t, 1 .. k + 1) = SumFunctionOnSet(t, 1 .. k) + t[k + 1]
    BY DEF Sum
  <2>1. k \in Nat /\ \A i \in 1 .. k + 1 : t[i] \in Int
    BY <1>6
  <2> QED  BY <2>1, SumLast
<1> DEFINE Good == {k \in Nat : k <= n => Sum(t, k) = IF Sum(held, k) <= amount THEN Sum(held, k) ELSE amount}
<1>8. 0 \in Good
  <2>1. 1 .. 0 = {}
    OBVIOUS
  <2>2. Sum(t, 0) = 0 /\ Sum(held, 0) = 0
    BY <2>1, SumEmpty DEF Sum
  <2> QED  BY <2>2
<1>9. ASSUME NEW k \in Good PROVE k + 1 \in Good
  <2> SUFFICES ASSUME k + 1 <= n
               PROVE  Sum(t, k + 1) = IF Sum(held, k + 1) <= amount THEN Sum(held, k + 1) ELSE amount
    OBVIOUS
  <2>1. Sum(t, k) = IF Sum(held, k) <= amount THEN Sum(held, k) ELSE amount
    OBVIOUS
  <2>2. k \in 0 .. n - 1 /\ k + 1 \in 1 .. n /\ k \in 0 .. n
    OBVIOUS
  <2>3. left(k + 1) = amount - Sum(held, k)
    BY <2>2 DEF left
  <2>4. Sum(held, k) \in Nat /\ held[k + 1] \in Nat /\ t[k + 1] \in Nat
    BY <1>1, <1>5, <1>6, <2>2
  <2>5. Sum(t, k + 1) = Sum(t, k) + t[k + 1] /\ Sum(held, k + 1) = Sum(held, k) + held[k + 1]
    BY <1>3, <1>7, <2>2
  <2>6. t[k + 1] = IF left(k + 1) <= 0 THEN 0
                   ELSE IF held[k + 1] <= left(k + 1) THEN held[k + 1] ELSE left(k + 1)
    BY <1>2, <2>2
  <2> QED  BY <2>1, <2>3, <2>4, <2>5, <2>6
<1> HIDE DEF Good
<1>10. Good \subseteq Nat
  BY DEF Good
<1>11. Good = Nat
  BY <1>8, <1>9, <1>10, NatSetInduction
<1>12. amount <= Total(held) => Total(t) = amount
  <2>1. n \in Good /\ Sum(held, n) \in Nat
    BY <1>1, <1>11
  <2> QED  BY <1>4, <2>1 DEF Good
<1>13. ASSUME amount = Total(held), NEW i \in 1 .. n PROVE t[i] = held[i]
  <2>1. /\ \A j \in 1 .. n : t[j] \in Int /\ held[j] \in Int /\ t[j] <= held[j]
        /\ DOMAIN held = 1 .. n /\ DOMAIN t = 1 .. n
    BY <1>2, <1>6
  <2> DEFINE d == [j \in 1 .. n |-> held[j] - t[j]]
  <2>2. DOMAIN d = 1 .. n /\ \A j \in 1 .. n : d[j] \in Nat /\ d[j] \in Int /\ d[j] = held[j] - t[j]
        /\ held[j] = t[j] + d[j]
    BY <2>1
  <2> HIDE DEF d
  <2>3. Total(held) = Total(t) + Total(d)
    BY <2>1, <2>2, TotalAdds
  <2>4. Total(t) = amount
    BY <1>4, <1>12, <1>13, <1>1
  <2>5. Total(d) \in Nat /\ d[i] <= Total(d)
    BY <2>2, TotalFacts
  <2>6. d[i] = 0
    BY <1>13, <2>2, <2>3, <2>4, <2>5
  <2> QED  BY <2>1, <2>2, <2>6
<1> QED  BY <1>2, <1>6, <1>12, <1>13 DEF t

-----------------------------------------------------------------------------
(* Lots and sides.                                                         *)

\* The fields of a CollateralLot.
LEMMA LotFields ==
    ASSUME NEW lot \in CollateralLot
    PROVE  /\ lot.seq_num \in Deposits
           /\ lot.unconfirmed \in Nat /\ lot.ready \in Nat /\ lot.preauth \in Nat /\ lot.spent \in Nat
           /\ lot.spends \in [PaymentIds -> [preauth: Nat, spent: Nat]]
           /\ \A p \in PaymentIds : /\ lot.spends[p] \in [preauth: Nat, spent: Nat]
                                    /\ lot.spends[p].preauth \in Nat /\ lot.spends[p].spent \in Nat
  BY DEF CollateralLot

\* The fields of a CollateralSide.
LEMMA SideFields ==
    ASSUME NEW s \in CollateralSide
    PROVE  /\ s.open_lots \in Seq(CollateralLot) /\ s.closed_lots \in Seq(CollateralLot)
           /\ s.unconfirmed \in Nat /\ s.ready \in Nat /\ s.preauth \in Nat /\ s.spent \in Nat
  BY DEF CollateralSide

\* Lots by their places.
LEMMA LotsFacts ==
    ASSUME NEW lots \in Seq(CollateralLot)
    PROVE  /\ Len(lots) \in Nat /\ DOMAIN lots = 1 .. Len(lots)
           /\ \A i \in 1 .. Len(lots) : lots[i] \in CollateralLot
  BY LenProperties, ElementOfSeq

\* What lots hold, place by place.
LEMMA HeldFacts ==
    ASSUME NEW lots \in Seq(CollateralLot)
    PROVE  /\ DOMAIN Unconfirmed(lots) = 1 .. Len(lots) /\ Unconfirmed(lots) \in [1 .. Len(lots) -> Nat]
           /\ DOMAIN Ready(lots) = 1 .. Len(lots) /\ Ready(lots) \in [1 .. Len(lots) -> Nat]
           /\ DOMAIN Preauth(lots) = 1 .. Len(lots) /\ Preauth(lots) \in [1 .. Len(lots) -> Nat]
           /\ DOMAIN SpentIn(lots) = 1 .. Len(lots) /\ SpentIn(lots) \in [1 .. Len(lots) -> Nat]
           /\ \A i \in 1 .. Len(lots) :
                 /\ Unconfirmed(lots)[i] = lots[i].unconfirmed /\ Ready(lots)[i] = lots[i].ready
                 /\ Preauth(lots)[i] = lots[i].preauth /\ SpentIn(lots)[i] = lots[i].spent
<1>1. /\ DOMAIN lots = 1 .. Len(lots)
      /\ \A i \in 1 .. Len(lots) :
            /\ lots[i].unconfirmed \in Nat /\ lots[i].ready \in Nat
            /\ lots[i].preauth \in Nat /\ lots[i].spent \in Nat
  BY LotsFacts, LotFields
<1>2. DOMAIN Unconfirmed(lots) = 1 .. Len(lots) /\ Unconfirmed(lots) \in [1 .. Len(lots) -> Nat]
      /\ \A i \in 1 .. Len(lots) : Unconfirmed(lots)[i] = lots[i].unconfirmed
  BY <1>1 DEF Unconfirmed
<1>3. DOMAIN Ready(lots) = 1 .. Len(lots) /\ Ready(lots) \in [1 .. Len(lots) -> Nat]
      /\ \A i \in 1 .. Len(lots) : Ready(lots)[i] = lots[i].ready
  BY <1>1 DEF Ready
<1>4. DOMAIN Preauth(lots) = 1 .. Len(lots) /\ Preauth(lots) \in [1 .. Len(lots) -> Nat]
      /\ \A i \in 1 .. Len(lots) : Preauth(lots)[i] = lots[i].preauth
  BY <1>1 DEF Preauth
<1>5. DOMAIN SpentIn(lots) = 1 .. Len(lots) /\ SpentIn(lots) \in [1 .. Len(lots) -> Nat]
      /\ \A i \in 1 .. Len(lots) : SpentIn(lots)[i] = lots[i].spent
  BY <1>1 DEF SpentIn
<1> QED  BY <1>2, <1>3, <1>4, <1>5

\* What each lot has authorised for a payment (CollateralSpend).
LEMMA AuthorisedFacts ==
    ASSUME NEW lots \in Seq(CollateralLot), NEW p \in PaymentIds
    PROVE  /\ DOMAIN Authorised(lots, p) = 1 .. Len(lots)
           /\ Authorised(lots, p) \in [1 .. Len(lots) -> Nat]
           /\ \A i \in 1 .. Len(lots) : Authorised(lots, p)[i] = lots[i].spends[p].preauth
<1>1. DOMAIN lots = 1 .. Len(lots) /\ \A i \in 1 .. Len(lots) : lots[i].spends[p].preauth \in Nat
  BY LotsFacts, LotFields
<1> QED  BY <1>1 DEF Authorised

\* There are finitely many payments.
LEMMA PaymentsFinite ==
    /\ IsFiniteSet(PaymentIds) /\ IsFiniteSet(Orders) /\ Orders \subseteq PaymentIds
    /\ "Charges" \in PaymentIds \ Orders /\ "System" \in PaymentIds \ Orders
<1>1. OrderIds \in Seq(Orders)
  BY ConstantsAssumption
<1>2. Len(OrderIds) \in Nat /\ DOMAIN OrderIds = 1 .. Len(OrderIds)
  BY <1>1, LenProperties
<1> DEFINE D == 1 .. Len(OrderIds)
<1>3. IsFiniteSet(D)
  BY <1>2, FS_Interval
<1>4. Orders = {OrderIds[i] : i \in D}
  BY <1>2 DEF Orders, ToSet
<1>5. IsFiniteSet(Orders)
  <2>1. OrderIds \in Surjection(D, Orders)
    BY <1>1, <1>2, <1>4, LenProperties, ElementOfSeq DEF Surjection
  <2> QED  BY <1>3, <2>1, FS_Surjection
<1>6. IsFiniteSet(Orders \cup {"Charges"})
  BY <1>5, FS_AddElement
<1>7. IsFiniteSet((Orders \cup {"Charges"}) \cup {"System"})
  BY <1>6, FS_AddElement
<1>8. PaymentIds = (Orders \cup {"Charges"}) \cup {"System"}
  BY DEF PaymentIds
<1> QED  BY <1>5, <1>7, <1>8, ConstantsAssumption

\* One of the terms changes.
LEMMA TotalChanges ==
    ASSUME NEW S, IsFiniteSet(S), NEW f \in [S -> Nat], NEW g \in [S -> Nat], NEW z \in S,
           \A x \in S : x # z => g[x] = f[x]
    PROVE  Total(g) = Total(f) - f[z] + g[z]
<1>1. (\A x \in S : f[x] \in Int /\ g[x] \in Int) /\ \A x \in S \ {z} : g[x] = f[x]
  OBVIOUS
<1>2. SumFunctionOnSet(g, S) = SumFunctionOnSet(f, S) - f[z] + g[z]
  BY <1>1, SumChange
<1> QED  BY <1>2 DEF Total

\* What the payments of a lot add up to when one of them changes.
LEMMA SpendChanges ==
    ASSUME NEW old \in [PaymentIds -> [preauth: Nat, spent: Nat]],
           NEW new \in [PaymentIds -> [preauth: Nat, spent: Nat]], NEW p \in PaymentIds,
           \A q \in PaymentIds : q # p => new[q] = old[q]
    PROVE  /\ Total([q \in PaymentIds |-> new[q].preauth])
              = Total([q \in PaymentIds |-> old[q].preauth]) - old[p].preauth + new[p].preauth
           /\ Total([q \in PaymentIds |-> new[q].spent])
              = Total([q \in PaymentIds |-> old[q].spent]) - old[p].spent + new[p].spent
<1> DEFINE f == [q \in PaymentIds |-> old[q].preauth]
           g == [q \in PaymentIds |-> new[q].preauth]
           h == [q \in PaymentIds |-> old[q].spent]
           k == [q \in PaymentIds |-> new[q].spent]
<1>1. IsFiniteSet(PaymentIds)
  BY PaymentsFinite
<1>2. /\ f \in [PaymentIds -> Nat] /\ g \in [PaymentIds -> Nat]
      /\ \A q \in PaymentIds : q # p => g[q] = f[q]
      /\ f[p] = old[p].preauth /\ g[p] = new[p].preauth
  OBVIOUS
<1>3. /\ h \in [PaymentIds -> Nat] /\ k \in [PaymentIds -> Nat]
      /\ \A q \in PaymentIds : q # p => k[q] = h[q]
      /\ h[p] = old[p].spent /\ k[p] = new[p].spent
  OBVIOUS
<1> HIDE DEF f, g, h, k
<1>4. Total(g) = Total(f) - f[p] + g[p]
  BY <1>1, <1>2, TotalChanges
<1>5. Total(k) = Total(h) - h[p] + k[p]
  BY <1>1, <1>3, TotalChanges
<1>6. Total(g) = Total(f) - old[p].preauth + new[p].preauth
  BY <1>2, <1>4
<1>7. Total(k) = Total(h) - old[p].spent + new[p].spent
  BY <1>3, <1>5
<1> QED  BY <1>6, <1>7 DEF f, g, h, k

\* No payment has authorised more in a lot than the lot has.
LEMMA SpendWithin ==
    ASSUME NEW lot \in CollateralLot, LotSound(lot), NEW p \in PaymentIds
    PROVE  lot.spends[p].preauth <= lot.preauth
<1> DEFINE f == [q \in PaymentIds |-> lot.spends[q].preauth]
<1>1. IsFiniteSet(PaymentIds)
  BY PaymentsFinite
<1>2. (\A q \in PaymentIds : f[q] \in Nat) /\ f[p] = lot.spends[p].preauth /\ DOMAIN f = PaymentIds
  BY LotFields
<1>3. lot.preauth = Total(f)
  BY DEF LotSound
<1> HIDE DEF f
<1>4. f[p] <= SumFunctionOnSet(f, PaymentIds)
  BY <1>1, <1>2, SumMember
<1> QED  BY <1>2, <1>3, <1>4 DEF Total

-----------------------------------------------------------------------------
(* Sides whose lots are remade.                                            *)

LotsOf(s) == {s.open_lots[i] : i \in DOMAIN s.open_lots}
             \cup {s.closed_lots[i] : i \in DOMAIN s.closed_lots}

\* Each lot of r is one of s, in which the payments P are as they were.
Follows(r, s, P) ==
    \A lot \in LotsOf(r) : \E old \in LotsOf(s) :
        lot.seq_num = old.seq_num /\ \A p \in P : lot.spends[p] = old.spends[p]

\* A lot has spent no more than it had authorised, for each order.
SpentOwn(old, new) ==
    \A o \in Orders : new.spends[o].spent <= old.spends[o].spent + old.spends[o].preauth

FollowsOwn(r, s) ==
    \A new \in LotsOf(r), old \in LotsOf(s) : new.seq_num = old.seq_num => SpentOwn(old, new)

\* A lot that follows one that follows another follows it.
LEMMA FollowsChain ==
    ASSUME NEW a, NEW b, NEW c, NEW P, Follows(b, a, P), Follows(c, b, P)
    PROVE  Follows(c, a, P)
<1> SUFFICES ASSUME NEW lot \in LotsOf(c)
             PROVE  \E old \in LotsOf(a) :
                        lot.seq_num = old.seq_num /\ \A p \in P : lot.spends[p] = old.spends[p]
  BY DEF Follows
<1>1. PICK mid \in LotsOf(b) :
        lot.seq_num = mid.seq_num /\ \A p \in P : lot.spends[p] = mid.spends[p]
  BY DEF Follows
<1>2. PICK old \in LotsOf(a) :
        mid.seq_num = old.seq_num /\ \A p \in P : mid.spends[p] = old.spends[p]
  BY DEF Follows
<1> QED  BY <1>1, <1>2

\* What is kept for some payments is kept for fewer.
LEMMA FollowsLess ==
    ASSUME NEW r, NEW s, NEW P, NEW Q, Q \subseteq P, Follows(r, s, P)
    PROVE  Follows(r, s, Q)
  BY DEF Follows

\* One sequence behind another, place by place.
LEMMA ConcatPlaces ==
    ASSUME NEW X, NEW u \in Seq(X), NEW v \in Seq(X)
    PROVE  LET m == Len(u)
               n == Len(v)
               w == u \o v
           IN  /\ m \in Nat /\ n \in Nat /\ w \in Seq(X) /\ Len(w) = m + n /\ DOMAIN w = 1 .. m + n
               /\ \A i \in 1 .. m : w[i] = u[i] /\ i \in 1 .. m + n
               /\ \A i \in 1 .. n : w[m + i] = v[i] /\ m + i \in 1 .. m + n
               /\ \A i \in 1 .. m + n : i \in 1 .. m \/ (i - m \in 1 .. n /\ i = m + (i - m))
<1> DEFINE m == Len(u)
           n == Len(v)
           w == u \o v
<1>1. m \in Nat /\ n \in Nat
  BY LenProperties
<1>2. w \in Seq(X) /\ Len(w) = m + n /\ \A i \in 1 .. m + n : w[i] = IF i <= m THEN u[i] ELSE v[i - m]
  BY ConcatProperties
<1>3. DOMAIN w = 1 .. m + n
  BY <1>2, LenProperties
<1> HIDE DEF m, n, w
<1>4. ASSUME NEW i \in 1 .. m PROVE w[i] = u[i] /\ i \in 1 .. m + n
  BY <1>1, <1>2
<1>5. ASSUME NEW i \in 1 .. n PROVE w[m + i] = v[i] /\ m + i \in 1 .. m + n
  <2>1. m + i \in 1 .. m + n /\ ~(m + i <= m) /\ (m + i) - m = i
    BY <1>1
  <2> QED  BY <1>2, <2>1
<1>6. \A i \in 1 .. m + n : i \in 1 .. m \/ (i - m \in 1 .. n /\ i = m + (i - m))
  BY <1>1
<1> QED  BY <1>1, <1>2, <1>3, <1>4, <1>5, <1>6 DEF m, n, w

\* The lots of a side, and that no two of them have the same deposit.
LEMMA LotsOfFacts ==
    ASSUME NEW s \in CollateralSide
    PROVE  /\ LotsOf(s) \subseteq CollateralLot
           /\ LotsOf(s) = ToSet(s.open_lots \o s.closed_lots)
           /\ Apart(s) => \A x, y \in LotsOf(s) : x.seq_num = y.seq_num => x = y
<1> DEFINE u == s.open_lots
           v == s.closed_lots
<1>1. /\ u \in Seq(CollateralLot) /\ v \in Seq(CollateralLot)
      /\ Len(u) \in Nat /\ Len(v) \in Nat
      /\ DOMAIN u = 1 .. Len(u) /\ DOMAIN v = 1 .. Len(v)
      /\ \A i \in 1 .. Len(u) : u[i] \in CollateralLot
      /\ \A i \in 1 .. Len(v) : v[i] \in CollateralLot
  BY SideFields, LotsFacts
<1>2. LotsOf(s) = {u[i] : i \in 1 .. Len(u)} \cup {v[i] : i \in 1 .. Len(v)}
  BY <1>1 DEF LotsOf
<1>3. LotsOf(s) \subseteq CollateralLot
  BY <1>1, <1>2
<1>4. LotsOf(s) = ToSet(u \o v)
  <2> DEFINE w == u \o v
             m == Len(u)
             n == Len(v)
  <2>1. /\ m \in Nat /\ n \in Nat /\ DOMAIN w = 1 .. m + n
        /\ \A i \in 1 .. m : w[i] = u[i] /\ i \in 1 .. m + n
        /\ \A i \in 1 .. n : w[m + i] = v[i] /\ m + i \in 1 .. m + n
        /\ \A i \in 1 .. m + n : i \in 1 .. m \/ (i - m \in 1 .. n /\ i = m + (i - m))
    BY <1>1, ConcatPlaces
  <2> HIDE DEF m, n, w
  <2>5. {w[i] : i \in 1 .. m + n} = {u[i] : i \in 1 .. m} \cup {v[i] : i \in 1 .. n}
    <3>1. ASSUME NEW i \in 1 .. m + n PROVE w[i] \in {u[j] : j \in 1 .. m} \cup {v[j] : j \in 1 .. n}
      <4>1. CASE i \in 1 .. m
        BY <2>1, <4>1
      <4>2. CASE i - m \in 1 .. n /\ i = m + (i - m)
        <5>1. w[m + (i - m)] = v[i - m]
          BY <2>1, <4>2
        <5>2. w[i] = v[i - m]
          BY <4>2, <5>1
        <5> QED  BY <4>2, <5>2
      <4> QED  BY <2>1, <4>1, <4>2
    <3>2. ASSUME NEW i \in 1 .. m PROVE u[i] \in {w[j] : j \in 1 .. m + n}
      BY <2>1
    <3>3. ASSUME NEW i \in 1 .. n PROVE v[i] \in {w[j] : j \in 1 .. m + n}
      BY <2>1
    <3> QED  BY <3>1, <3>2, <3>3
  <2> QED  BY <1>2, <2>1, <2>5 DEF ToSet, w, m, n
<1>5. ASSUME Apart(s), NEW x \in LotsOf(s), NEW y \in LotsOf(s), x.seq_num = y.seq_num
      PROVE  x = y
  <2>1. /\ (\E i \in DOMAIN u : x = u[i]) \/ (\E i \in DOMAIN v : x = v[i])
        /\ (\E i \in DOMAIN u : y = u[i]) \/ (\E i \in DOMAIN v : y = v[i])
    BY DEF LotsOf
  <2>2. /\ \A i, j \in DOMAIN u : u[i].seq_num = u[j].seq_num => i = j
        /\ \A i, j \in DOMAIN v : v[i].seq_num = v[j].seq_num => i = j
        /\ \A i \in DOMAIN u, j \in DOMAIN v : u[i].seq_num # v[j].seq_num
    BY <1>5 DEF Apart
  <2> QED  BY <1>5, <2>1, <2>2
<1> QED  BY <1>3, <1>4, <1>5

\* Lots that keep the payments of all orders take nothing from any (confirm_payment).
LEMMA FollowsOwned ==
    ASSUME NEW s, SideSound(s), NEW r, SideSound(r), Follows(r, s, Orders)
    PROVE  FollowsOwn(r, s)
<1> SUFFICES ASSUME NEW new \in LotsOf(r), NEW old \in LotsOf(s), new.seq_num = old.seq_num,
                    NEW o \in Orders
             PROVE  new.spends[o].spent <= old.spends[o].spent + old.spends[o].preauth
  BY DEF FollowsOwn, SpentOwn
<1>1. PICK x \in LotsOf(s) : new.seq_num = x.seq_num /\ \A p \in Orders : new.spends[p] = x.spends[p]
  BY DEF Follows
<1>2. x = old
  BY <1>1, LotsOfFacts DEF SideSound
<1>3. old.spends[o].spent \in Nat /\ old.spends[o].preauth \in Nat
  <2>1. old \in CollateralLot /\ o \in PaymentIds
    BY LotsOfFacts, PaymentsFinite DEF SideSound
  <2> QED  BY <2>1, LotFields
<1> QED  BY <1>1, <1>2, <1>3

\* g has at each place what f has, and what t has.
Gives(f, g, t, n) ==
    /\ DOMAIN f = 1 .. n /\ DOMAIN g = 1 .. n /\ DOMAIN t = 1 .. n
    /\ \A i \in 1 .. n : f[i] \in Int /\ t[i] \in Int /\ g[i] = f[i] + t[i]

\* Totals of a place-by-place sum.
LEMMA GivesTotal ==
    ASSUME NEW n \in Nat, NEW f, NEW g, NEW t, Gives(f, g, t, n)
    PROVE  Total(f) \in Int /\ Total(t) \in Int /\ Total(g) = Total(f) + Total(t)
<1>1. /\ DOMAIN f = 1 .. n /\ DOMAIN g = 1 .. n /\ DOMAIN t = 1 .. n
      /\ \A i \in 1 .. n : f[i] \in Int /\ t[i] \in Int /\ g[i] = f[i] + t[i]
  BY DEF Gives
<1>2. Total(g) = Total(f) + Total(t)
  BY <1>1, TotalAdds
<1>3. Total(f) \in Int
  BY <1>1, TotalFacts
<1>4. Total(t) \in Int
  BY <1>1, TotalFacts
<1> QED  BY <1>2, <1>3, <1>4

Alike(f, g, n) ==
    DOMAIN f = 1 .. n /\ DOMAIN g = 1 .. n /\ \A i \in 1 .. n : f[i] = g[i] /\ f[i] \in Int

\* Totals of what is the same place by place.
LEMMA AlikeTotal ==
    ASSUME NEW n \in Nat, NEW f, NEW g, Alike(f, g, n)
    PROVE  Total(g) = Total(f)
<1>1. DOMAIN f = 1 .. n /\ DOMAIN g = 1 .. n /\ \A i \in 1 .. n : f[i] = g[i] /\ f[i] \in Int
  BY DEF Alike
<1> QED  BY <1>1, TotalSame

\* r is s with other lots of the same deposits, the payments P as they were, and
\* the balances of its lots.
Remade(s, r, P) ==
    /\ r \in CollateralSide /\ r.closed_lots = s.closed_lots
    /\ Len(r.open_lots) = Len(s.open_lots)
    /\ \A i \in 1 .. Len(s.open_lots) :
          /\ r.open_lots[i].seq_num = s.open_lots[i].seq_num
          /\ \A p \in P : r.open_lots[i].spends[p] = s.open_lots[i].spends[p]
          /\ LotSound(r.open_lots[i])
    /\ r.unconfirmed = Total(Unconfirmed(r.open_lots))
    /\ r.ready = Total(Ready(r.open_lots))
    /\ r.preauth = Total(Preauth(r.open_lots))
    /\ r.spent = Total(SpentIn(r.open_lots)) + Total(SpentIn(r.closed_lots))

\* A side whose lots are remade one by one is sound, if each is and the balances follow.
LEMMA RemadeSound ==
    ASSUME NEW s, SideSound(s), NEW r, NEW P, P \subseteq PaymentIds, Remade(s, r, P)
    PROVE  /\ SideSound(r) /\ Deposited(r) = Deposited(s) /\ Follows(r, s, P)
           /\ \A p \in P : AuthorisedFor(r, p) = AuthorisedFor(s, p)
<1> DEFINE n == Len(s.open_lots)
<1>1. /\ s.open_lots \in Seq(CollateralLot) /\ r.open_lots \in Seq(CollateralLot)
      /\ r.closed_lots = s.closed_lots /\ Len(r.open_lots) = n
  BY SideFields DEF SideSound, Remade
<1>2. /\ n \in Nat /\ DOMAIN s.open_lots = 1 .. n /\ DOMAIN r.open_lots = 1 .. n
      /\ \A i \in 1 .. n : s.open_lots[i] \in CollateralLot /\ r.open_lots[i] \in CollateralLot
  BY <1>1, LotsFacts
<1>3. \A i \in 1 .. n :
        /\ r.open_lots[i].seq_num = s.open_lots[i].seq_num
        /\ \A p \in P : r.open_lots[i].spends[p] = s.open_lots[i].spends[p]
        /\ LotSound(r.open_lots[i])
  BY DEF Remade
<1> HIDE DEF n
<1>4. Apart(r)
  <2>1. Apart(s)
    BY DEF SideSound
  <2> QED  BY <1>1, <1>2, <1>3, <2>1 DEF Apart
<1>5. Deposited(r) = Deposited(s)
  <2>1. SeqNumsOf(r.open_lots) = SeqNumsOf(s.open_lots)
    BY <1>2, <1>3 DEF SeqNumsOf
  <2> QED  BY <1>1, <2>1 DEF Deposited
<1>6. Follows(r, s, P)
  <2> SUFFICES ASSUME NEW lot \in LotsOf(r)
               PROVE  \E old \in LotsOf(s) :
                          lot.seq_num = old.seq_num /\ \A p \in P : lot.spends[p] = old.spends[p]
    BY DEF Follows
  <2>1. CASE \E i \in DOMAIN r.open_lots : lot = r.open_lots[i]
    <3>1. PICK i \in 1 .. n : lot = r.open_lots[i]
      BY <1>2, <2>1
    <3>2. s.open_lots[i] \in LotsOf(s)
      BY <1>2 DEF LotsOf
    <3> QED  BY <1>3, <3>1, <3>2
  <2>2. CASE lot \in LotsOf(s)
    BY <2>2
  <2> QED  BY <1>1, <2>1, <2>2 DEF LotsOf
<1>7. ASSUME NEW p \in P PROVE AuthorisedFor(r, p) = AuthorisedFor(s, p)
  <2> DEFINE f == Authorised(s.open_lots, p)
             g == Authorised(r.open_lots, p)
  <2>1. \A i \in 1 .. n : s.open_lots[i].spends[p].preauth \in Nat
    BY <1>2, LotFields
  <2>2. Alike(f, g, n)
    BY <1>2, <1>3, <2>1 DEF Alike, Authorised
  <2> HIDE DEF f, g
  <2>3. Total(g) = Total(f)
    BY <1>2, <2>2, AlikeTotal
  <2> QED  BY <2>3 DEF f, g, AuthorisedFor
<1>8. SideSound(r)
  <2>1. /\ r \in CollateralSide
        /\ r.unconfirmed = Total(Unconfirmed(r.open_lots)) /\ r.ready = Total(Ready(r.open_lots))
        /\ r.preauth = Total(Preauth(r.open_lots))
        /\ r.spent = Total(SpentIn(r.open_lots)) + Total(SpentIn(r.closed_lots))
    BY DEF Remade
  <2>2. \A i \in DOMAIN r.open_lots : LotSound(r.open_lots[i])
    BY <1>2, <1>3
  <2>3. \A i \in DOMAIN r.closed_lots : LotSound(r.closed_lots[i]) /\ Over(r.closed_lots[i])
    BY <1>1 DEF SideSound
  <2> QED  BY <1>4, <2>1, <2>2, <2>3 DEF SideSound
<1> QED  BY <1>5, <1>6, <1>7, <1>8

\* What SideSound says of the open lots.
LEMMA OpenLots ==
    ASSUME NEW s, SideSound(s)
    PROVE  /\ s \in CollateralSide /\ s.open_lots \in Seq(CollateralLot)
           /\ Len(s.open_lots) \in Nat /\ DOMAIN s.open_lots = 1 .. Len(s.open_lots)
           /\ \A i \in 1 .. Len(s.open_lots) :
                 s.open_lots[i] \in CollateralLot /\ LotSound(s.open_lots[i])
<1>1. s \in CollateralSide /\ s.open_lots \in Seq(CollateralLot)
  BY SideFields DEF SideSound
<1>2. /\ Len(s.open_lots) \in Nat /\ DOMAIN s.open_lots = 1 .. Len(s.open_lots)
      /\ \A i \in 1 .. Len(s.open_lots) : s.open_lots[i] \in CollateralLot
  BY <1>1, LotsFacts
<1> QED  BY <1>1, <1>2 DEF SideSound

-----------------------------------------------------------------------------
(* Lots that gain or lose an amount each, and the totals of what they hold. *)

\* What is held before and after, and the amounts that are moved.
Held(f, g, t, n) == n \in Nat /\ f \in [1 .. n -> Nat] /\ g \in [1 .. n -> Nat] /\ t \in [1 .. n -> Nat]

\* What the lots hold and what is moved, in total.
LEMMA HeldMoved ==
    ASSUME NEW f, NEW g, NEW t, NEW n, Held(f, g, t, n)
    PROVE  /\ Total(f) \in Nat /\ Total(g) \in Nat /\ Total(t) \in Nat
           /\ (\A i \in 1 .. n : g[i] = f[i]) => Total(g) = Total(f)
           /\ (\A i \in 1 .. n : g[i] = f[i] + t[i]) => Total(g) = Total(f) + Total(t)
           /\ (\A i \in 1 .. n : g[i] = f[i] - t[i]) => Total(g) = Total(f) - Total(t)
<1>1. /\ n \in Nat /\ DOMAIN f = 1 .. n /\ DOMAIN g = 1 .. n /\ DOMAIN t = 1 .. n
      /\ \A i \in 1 .. n : f[i] \in Nat /\ g[i] \in Nat /\ t[i] \in Nat
  BY DEF Held
<1>2. Total(f) \in Nat
  BY <1>1, TotalFacts
<1>3. Total(g) \in Nat
  BY <1>1, TotalFacts
<1>4. Total(t) \in Nat
  BY <1>1, TotalFacts
<1>5. ASSUME \A i \in 1 .. n : g[i] = f[i] PROVE Total(g) = Total(f)
  <2>1. Alike(f, g, n)
    BY <1>1, <1>5 DEF Alike
  <2> QED  BY <1>1, <2>1, AlikeTotal
<1>6. ASSUME \A i \in 1 .. n : g[i] = f[i] + t[i] PROVE Total(g) = Total(f) + Total(t)
  <2>1. Gives(f, g, t, n)
    BY <1>1, <1>6 DEF Gives
  <2> QED  BY <1>1, <2>1, GivesTotal
<1>7. ASSUME \A i \in 1 .. n : g[i] = f[i] - t[i] PROVE Total(g) = Total(f) - Total(t)
  <2>1. ASSUME NEW i \in 1 .. n PROVE f[i] = g[i] + t[i] /\ g[i] \in Int /\ t[i] \in Int
    <3>1. f[i] \in Nat /\ g[i] \in Nat /\ t[i] \in Nat /\ g[i] = f[i] - t[i]
      BY <1>1, <1>7
    <3> QED  BY <3>1
  <2>2. Gives(g, f, t, n)
    BY <1>1, <2>1 DEF Gives
  <2>3. Total(f) = Total(g) + Total(t)
    BY <1>1, <2>2, GivesTotal
  <2> QED  BY <1>2, <1>3, <1>4, <2>3
<1> QED  BY <1>2, <1>3, <1>4, <1>5, <1>6, <1>7

\* The lots before and after, and the amounts t that are moved in them.
Moved(lots, new, t, n) ==
    /\ n \in Nat /\ lots \in Seq(CollateralLot) /\ new \in Seq(CollateralLot)
    /\ Len(lots) = n /\ Len(new) = n /\ t \in [1 .. n -> Nat]

\* The total of what is unconfirmed, when some of it is moved.
LEMMA UnconfirmedMoved ==
    ASSUME NEW lots, NEW new, NEW t, NEW n, Moved(lots, new, t, n)
    PROVE  /\ (\A i \in 1 .. n : new[i].unconfirmed = lots[i].unconfirmed)
                 => Total(Unconfirmed(new)) = Total(Unconfirmed(lots))
           /\ (\A i \in 1 .. n : new[i].unconfirmed = lots[i].unconfirmed + t[i])
                 => Total(Unconfirmed(new)) = Total(Unconfirmed(lots)) + Total(t)
           /\ (\A i \in 1 .. n : new[i].unconfirmed = lots[i].unconfirmed - t[i])
                 => Total(Unconfirmed(new)) = Total(Unconfirmed(lots)) - Total(t)
<1> DEFINE f == Unconfirmed(lots)
           g == Unconfirmed(new)
<1>1. f \in [1 .. n -> Nat] /\ \A i \in 1 .. n : f[i] = lots[i].unconfirmed
  BY HeldFacts DEF Moved
<1>2. g \in [1 .. n -> Nat] /\ \A i \in 1 .. n : g[i] = new[i].unconfirmed
  BY HeldFacts DEF Moved
<1> HIDE DEF f, g
<1>3. Held(f, g, t, n)
  BY <1>1, <1>2 DEF Held, Moved
<1>4. /\ (\A i \in 1 .. n : g[i] = f[i]) => Total(g) = Total(f)
      /\ (\A i \in 1 .. n : g[i] = f[i] + t[i]) => Total(g) = Total(f) + Total(t)
      /\ (\A i \in 1 .. n : g[i] = f[i] - t[i]) => Total(g) = Total(f) - Total(t)
  BY <1>3, HeldMoved
<1> QED  BY <1>1, <1>2, <1>4 DEF f, g

\* The total of what is ready, when some of it is moved.
LEMMA ReadyMoved ==
    ASSUME NEW lots, NEW new, NEW t, NEW n, Moved(lots, new, t, n)
    PROVE  /\ (\A i \in 1 .. n : new[i].ready = lots[i].ready)
                 => Total(Ready(new)) = Total(Ready(lots))
           /\ (\A i \in 1 .. n : new[i].ready = lots[i].ready + t[i])
                 => Total(Ready(new)) = Total(Ready(lots)) + Total(t)
           /\ (\A i \in 1 .. n : new[i].ready = lots[i].ready - t[i])
                 => Total(Ready(new)) = Total(Ready(lots)) - Total(t)
<1> DEFINE f == Ready(lots)
           g == Ready(new)
<1>1. f \in [1 .. n -> Nat] /\ \A i \in 1 .. n : f[i] = lots[i].ready
  BY HeldFacts DEF Moved
<1>2. g \in [1 .. n -> Nat] /\ \A i \in 1 .. n : g[i] = new[i].ready
  BY HeldFacts DEF Moved
<1> HIDE DEF f, g
<1>3. Held(f, g, t, n)
  BY <1>1, <1>2 DEF Held, Moved
<1>4. /\ (\A i \in 1 .. n : g[i] = f[i]) => Total(g) = Total(f)
      /\ (\A i \in 1 .. n : g[i] = f[i] + t[i]) => Total(g) = Total(f) + Total(t)
      /\ (\A i \in 1 .. n : g[i] = f[i] - t[i]) => Total(g) = Total(f) - Total(t)
  BY <1>3, HeldMoved
<1> QED  BY <1>1, <1>2, <1>4 DEF f, g

\* The total of what is set aside, when some of it is moved.
LEMMA PreauthMoved ==
    ASSUME NEW lots, NEW new, NEW t, NEW n, Moved(lots, new, t, n)
    PROVE  /\ (\A i \in 1 .. n : new[i].preauth = lots[i].preauth)
                 => Total(Preauth(new)) = Total(Preauth(lots))
           /\ (\A i \in 1 .. n : new[i].preauth = lots[i].preauth + t[i])
                 => Total(Preauth(new)) = Total(Preauth(lots)) + Total(t)
           /\ (\A i \in 1 .. n : new[i].preauth = lots[i].preauth - t[i])
                 => Total(Preauth(new)) = Total(Preauth(lots)) - Total(t)
<1> DEFINE f == Preauth(lots)
           g == Preauth(new)
<1>1. f \in [1 .. n -> Nat] /\ \A i \in 1 .. n : f[i] = lots[i].preauth
  BY HeldFacts DEF Moved
<1>2. g \in [1 .. n -> Nat] /\ \A i \in 1 .. n : g[i] = new[i].preauth
  BY HeldFacts DEF Moved
<1> HIDE DEF f, g
<1>3. Held(f, g, t, n)
  BY <1>1, <1>2 DEF Held, Moved
<1>4. /\ (\A i \in 1 .. n : g[i] = f[i]) => Total(g) = Total(f)
      /\ (\A i \in 1 .. n : g[i] = f[i] + t[i]) => Total(g) = Total(f) + Total(t)
      /\ (\A i \in 1 .. n : g[i] = f[i] - t[i]) => Total(g) = Total(f) - Total(t)
  BY <1>3, HeldMoved
<1> QED  BY <1>1, <1>2, <1>4 DEF f, g

\* The total of what is spent, when some is added.
LEMMA SpentInMoved ==
    ASSUME NEW lots, NEW new, NEW t, NEW n, Moved(lots, new, t, n)
    PROVE  /\ (\A i \in 1 .. n : new[i].spent = lots[i].spent)
                 => Total(SpentIn(new)) = Total(SpentIn(lots))
           /\ (\A i \in 1 .. n : new[i].spent = lots[i].spent + t[i])
                 => Total(SpentIn(new)) = Total(SpentIn(lots)) + Total(t)
           /\ (\A i \in 1 .. n : new[i].spent = lots[i].spent - t[i])
                 => Total(SpentIn(new)) = Total(SpentIn(lots)) - Total(t)
<1> DEFINE f == SpentIn(lots)
           g == SpentIn(new)
<1>1. f \in [1 .. n -> Nat] /\ \A i \in 1 .. n : f[i] = lots[i].spent
  BY HeldFacts DEF Moved
<1>2. g \in [1 .. n -> Nat] /\ \A i \in 1 .. n : g[i] = new[i].spent
  BY HeldFacts DEF Moved
<1> HIDE DEF f, g
<1>3. Held(f, g, t, n)
  BY <1>1, <1>2 DEF Held, Moved
<1>4. /\ (\A i \in 1 .. n : g[i] = f[i]) => Total(g) = Total(f)
      /\ (\A i \in 1 .. n : g[i] = f[i] + t[i]) => Total(g) = Total(f) + Total(t)
      /\ (\A i \in 1 .. n : g[i] = f[i] - t[i]) => Total(g) = Total(f) - Total(t)
  BY <1>3, HeldMoved
<1> QED  BY <1>1, <1>2, <1>4 DEF f, g

\* The total of what a payment has authorised, when some is added.
LEMMA AuthorisedMoved ==
    ASSUME NEW lots, NEW new, NEW t, NEW n, Moved(lots, new, t, n), NEW p \in PaymentIds
    PROVE  (\A i \in 1 .. n : new[i].spends[p].preauth = lots[i].spends[p].preauth + t[i])
                 => Total(Authorised(new, p)) = Total(Authorised(lots, p)) + Total(t)
<1> DEFINE f == Authorised(lots, p)
           g == Authorised(new, p)
<1>1. f \in [1 .. n -> Nat] /\ \A i \in 1 .. n : f[i] = lots[i].spends[p].preauth
  BY AuthorisedFacts DEF Moved
<1>2. g \in [1 .. n -> Nat] /\ \A i \in 1 .. n : g[i] = new[i].spends[p].preauth
  BY AuthorisedFacts DEF Moved
<1> HIDE DEF f, g
<1>3. Held(f, g, t, n)
  BY <1>1, <1>2 DEF Held, Moved
<1>4. (\A i \in 1 .. n : g[i] = f[i] + t[i]) => Total(g) = Total(f) + Total(t)
  BY <1>3, HeldMoved
<1> QED  BY <1>1, <1>2, <1>4 DEF f, g

\* What is taken from the open lots, and the lots it makes.
LEMMA TakenMoved ==
    ASSUME NEW s, SideSound(s), NEW held \in [1 .. Len(s.open_lots) -> Nat], NEW amount \in Nat,
           amount <= Total(held),
           NEW new, DOMAIN new = 1 .. Len(s.open_lots),
           \A i \in 1 .. Len(s.open_lots) : new[i] \in CollateralLot,
           new = [i \in 1 .. Len(s.open_lots) |-> new[i]]
    PROVE  /\ Moved(s.open_lots, new, Taken(held, amount), Len(s.open_lots))
           /\ Total(Taken(held, amount)) = amount
<1> DEFINE n == Len(s.open_lots)
           t == Taken(held, amount)
<1>1. n \in Nat /\ s.open_lots \in Seq(CollateralLot)
  BY OpenLots
<1> HIDE DEF n
<1>2. t \in [1 .. n -> Nat] /\ Total(t) = amount
  BY <1>1, TakenFacts DEF n
<1> HIDE DEF t
<1>3. new \in Seq(CollateralLot) /\ Len(new) = n
  <2>1. new \in [1 .. n -> CollateralLot]
    BY DEF n
  <2>2. new \in Seq(CollateralLot)
    BY <1>1, <2>1, SeqDef
  <2> QED  BY <1>1, <2>1, <2>2, LenProperties
<1>4. Moved(s.open_lots, new, t, n)
  BY <1>1, <1>2, <1>3 DEF Moved, n
<1> QED  BY <1>2, <1>4 DEF n, t

-----------------------------------------------------------------------------
(* The operations of a side.                                               *)

\* One lot, when a part of it is confirmed (add_ready).
LEMMA ReadiedLot ==
    ASSUME NEW lot \in CollateralLot, NEW x \in Nat, x <= lot.unconfirmed
    PROVE  LET r == Readied(lot, x)
           IN  /\ r \in CollateralLot
               /\ r.unconfirmed = lot.unconfirmed - x /\ r.ready = lot.ready + x
               /\ r.preauth = lot.preauth /\ r.spent = lot.spent
               /\ r.spends = lot.spends /\ r.seq_num = lot.seq_num
<1>1. lot.unconfirmed - x \in Nat /\ lot.ready + x \in Nat
  BY LotFields
<1>2. Readied(lot, x) \in CollateralLot
  BY <1>1 DEF Readied, CollateralLot
<1> QED  BY <1>2 DEF Readied, CollateralLot

\* One lot, when a part of it is set aside (preauth_payment).
LEMMA PreauthedLot ==
    ASSUME NEW lot \in CollateralLot, LotSound(lot), NEW p \in PaymentIds,
           NEW x \in Nat, x <= lot.ready
    PROVE  LET r == Preauthed(lot, p, x)
           IN  /\ r \in CollateralLot /\ LotSound(r)
               /\ r.unconfirmed = lot.unconfirmed /\ r.ready = lot.ready - x
               /\ r.preauth = lot.preauth + x /\ r.spent = lot.spent /\ r.seq_num = lot.seq_num
               /\ r.spends[p].preauth = lot.spends[p].preauth + x
               /\ r.spends[p].spent = lot.spends[p].spent
               /\ \A q \in PaymentIds \ {p} : r.spends[q] = lot.spends[q]
<1> DEFINE r == Preauthed(lot, p, x)
           spends == [lot.spends EXCEPT ![p].preauth = @ + x]
<1>1. /\ lot.ready - x \in Nat /\ lot.preauth + x \in Nat /\ lot.spends[p].preauth + x \in Nat
      /\ lot.spends \in [PaymentIds -> [preauth: Nat, spent: Nat]]
  BY LotFields
<1>2. /\ spends \in [PaymentIds -> [preauth: Nat, spent: Nat]]
      /\ spends[p].preauth = lot.spends[p].preauth + x /\ spends[p].spent = lot.spends[p].spent
      /\ \A q \in PaymentIds \ {p} : spends[q] = lot.spends[q]
  BY <1>1
<1>3. r = [lot EXCEPT !.ready = lot.ready - x, !.preauth = lot.preauth + x, !.spends = spends]
  BY DEF Preauthed, CollateralLot
<1> HIDE DEF spends, r
<1>4. r \in CollateralLot
  BY <1>1, <1>2, <1>3 DEF CollateralLot
<1>5. /\ r.unconfirmed = lot.unconfirmed /\ r.ready = lot.ready - x
      /\ r.preauth = lot.preauth + x /\ r.spent = lot.spent /\ r.seq_num = lot.seq_num
      /\ r.spends = spends
  BY <1>3 DEF CollateralLot
<1>6. LotSound(r)
  <2>1. /\ Total([q \in PaymentIds |-> spends[q].preauth])
           = Total([q \in PaymentIds |-> lot.spends[q].preauth]) - lot.spends[p].preauth + spends[p].preauth
        /\ Total([q \in PaymentIds |-> spends[q].spent])
           = Total([q \in PaymentIds |-> lot.spends[q].spent]) - lot.spends[p].spent + spends[p].spent
    BY <1>1, <1>2, SpendChanges
  <2>2. /\ lot.preauth = Total([q \in PaymentIds |-> lot.spends[q].preauth])
        /\ lot.spent = Total([q \in PaymentIds |-> lot.spends[q].spent])
    BY DEF LotSound
  <2>3. /\ Total([q \in PaymentIds |-> spends[q].preauth]) = lot.preauth + x
        /\ Total([q \in PaymentIds |-> spends[q].spent]) = lot.spent
    <3>1. lot.preauth \in Nat /\ lot.spent \in Nat
          /\ lot.spends[p].preauth \in Nat /\ lot.spends[p].spent \in Nat
      BY LotFields
    <3> QED  BY <1>2, <2>1, <2>2, <3>1
  <2> QED  BY <1>5, <2>3 DEF LotSound
<1> QED  BY <1>2, <1>4, <1>5, <1>6 DEF r

\* One lot, when all that a payment had authorised in it is spent (confirm_payment).
LEMMA SpentLot ==
    ASSUME NEW lot \in CollateralLot, LotSound(lot), NEW p \in PaymentIds,
           NEW x, x = lot.spends[p].preauth
    PROVE  LET r == Spent(lot, p, x)
           IN  /\ r \in CollateralLot /\ LotSound(r)
               /\ r.unconfirmed = lot.unconfirmed /\ r.ready = lot.ready
               /\ r.preauth = lot.preauth - x /\ r.spent = lot.spent + x /\ r.seq_num = lot.seq_num
               /\ r.spends[p].preauth = 0 /\ r.spends[p].spent = lot.spends[p].spent + x
               /\ \A q \in PaymentIds \ {p} : r.spends[q] = lot.spends[q]
<1> DEFINE r == Spent(lot, p, x)
           spends == [lot.spends EXCEPT ![p] = [preauth |-> 0, spent |-> lot.spends[p].spent + x]]
<1>0. /\ lot.preauth \in Nat /\ lot.spent \in Nat
      /\ lot.spends[p].preauth \in Nat /\ lot.spends[p].spent \in Nat
      /\ lot.spends \in [PaymentIds -> [preauth: Nat, spent: Nat]]
      /\ lot.spends[p] \in [preauth: Nat, spent: Nat]
  BY LotFields
<1>1. x \in Nat /\ lot.preauth - x \in Nat /\ lot.spent + x \in Nat /\ lot.spends[p].spent + x \in Nat
  BY <1>0, SpendWithin
<1>2. /\ spends \in [PaymentIds -> [preauth: Nat, spent: Nat]]
      /\ spends[p] = [preauth |-> 0, spent |-> lot.spends[p].spent + x]
      /\ \A q \in PaymentIds \ {p} : spends[q] = lot.spends[q]
  BY <1>0, <1>1
<1>3. r = [lot EXCEPT !.preauth = lot.preauth - x, !.spent = lot.spent + x, !.spends = spends]
  <2>1. CASE x = 0
    <3>1. r = lot
      BY <2>1 DEF Spent
    <3>2. [preauth |-> 0, spent |-> lot.spends[p].spent + x] = lot.spends[p]
      <4> DEFINE y == lot.spends[p]
      <4>1. y \in [preauth: Nat, spent: Nat] /\ y.preauth = 0 /\ x = 0
        BY <1>0, <2>1
      <4> HIDE DEF y
      <4>2. [preauth |-> 0, spent |-> y.spent + x] = y
        BY <4>1
      <4> QED  BY <4>2 DEF y
    <3>3. spends = lot.spends
      BY <1>0, <3>2
    <3>4. lot.preauth - x = lot.preauth /\ lot.spent + x = lot.spent
      BY <1>0, <2>1
    <3> HIDE DEF spends, r
    <3> QED  BY <3>1, <3>3, <3>4 DEF CollateralLot
  <2>2. CASE x # 0
    BY <2>2 DEF Spent, CollateralLot
  <2> QED  BY <2>1, <2>2
<1> HIDE DEF spends, r
<1>4. r \in CollateralLot
  BY <1>1, <1>2, <1>3 DEF CollateralLot
<1>5. /\ r.unconfirmed = lot.unconfirmed /\ r.ready = lot.ready
      /\ r.preauth = lot.preauth - x /\ r.spent = lot.spent + x /\ r.seq_num = lot.seq_num
      /\ r.spends = spends
  BY <1>3 DEF CollateralLot
<1>6. LotSound(r)
  <2>1. /\ Total([q \in PaymentIds |-> spends[q].preauth])
           = Total([q \in PaymentIds |-> lot.spends[q].preauth]) - lot.spends[p].preauth + spends[p].preauth
        /\ Total([q \in PaymentIds |-> spends[q].spent])
           = Total([q \in PaymentIds |-> lot.spends[q].spent]) - lot.spends[p].spent + spends[p].spent
    BY <1>0, <1>2, SpendChanges
  <2>2. /\ lot.preauth = Total([q \in PaymentIds |-> lot.spends[q].preauth])
        /\ lot.spent = Total([q \in PaymentIds |-> lot.spends[q].spent])
    BY DEF LotSound
  <2>3. /\ Total([q \in PaymentIds |-> spends[q].preauth]) = lot.preauth - x
        /\ Total([q \in PaymentIds |-> spends[q].spent]) = lot.spent + x
    <3>1. spends[p].preauth = 0 /\ spends[p].spent = lot.spends[p].spent + x
      BY <1>2
    <3> QED  BY <1>0, <1>1, <2>1, <2>2, <3>1
  <2> QED  BY <1>5, <2>3 DEF LotSound
<1> QED  BY <1>2, <1>4, <1>5, <1>6 DEF r

\* Each lot has spent no more than it had authorised, lot by lot.
LEMMA PlacesOwned ==
    ASSUME NEW s, SideSound(s), NEW r, SideSound(r), r.closed_lots = s.closed_lots,
           Len(r.open_lots) = Len(s.open_lots),
           \A i \in 1 .. Len(s.open_lots) : r.open_lots[i].seq_num = s.open_lots[i].seq_num,
           NEW p \in PaymentIds,
           \A i \in 1 .. Len(s.open_lots) :
              /\ r.open_lots[i].spends[p].spent
                    <= s.open_lots[i].spends[p].spent + s.open_lots[i].spends[p].preauth
              /\ \A q \in PaymentIds \ {p} : r.open_lots[i].spends[q] = s.open_lots[i].spends[q]
    PROVE  FollowsOwn(r, s)
<1> DEFINE n == Len(s.open_lots)
<1>1. /\ n \in Nat /\ DOMAIN s.open_lots = 1 .. n /\ DOMAIN r.open_lots = 1 .. n
      /\ s \in CollateralSide
  BY OpenLots
<1>2. LotsOf(s) \subseteq CollateralLot /\ \A x, y \in LotsOf(s) : x.seq_num = y.seq_num => x = y
  BY <1>1, LotsOfFacts DEF SideSound
<1> SUFFICES ASSUME NEW new \in LotsOf(r), NEW old \in LotsOf(s), new.seq_num = old.seq_num,
                    NEW o \in Orders
             PROVE  new.spends[o].spent <= old.spends[o].spent + old.spends[o].preauth
  BY DEF FollowsOwn, SpentOwn
<1>3. o \in PaymentIds /\ old.spends[o].spent \in Nat /\ old.spends[o].preauth \in Nat
  BY <1>2, LotFields, PaymentsFinite
<1>4. CASE \E i \in 1 .. n : new = r.open_lots[i]
  <2>1. PICK i \in 1 .. n : new = r.open_lots[i]
    BY <1>4
  <2>2. s.open_lots[i] \in LotsOf(s) /\ s.open_lots[i].seq_num = old.seq_num
    BY <1>1, <2>1 DEF LotsOf
  <2>3. old = s.open_lots[i]
    BY <1>2, <2>2
  <2>4. CASE o = p
    BY <2>1, <2>3, <2>4
  <2>5. CASE o # p
    <3>1. new.spends[o] = old.spends[o]
      BY <1>3, <2>1, <2>3, <2>5
    <3> QED  BY <1>3, <3>1
  <2> QED  BY <2>4, <2>5
<1>5. CASE new \in LotsOf(s)
  <2>1. new = old
    BY <1>2, <1>5
  <2> QED  BY <1>3, <2>1
<1>6. new \in LotsOf(s) \/ \E i \in 1 .. n : new = r.open_lots[i]
  BY <1>1 DEF LotsOf
<1> QED  BY <1>4, <1>5, <1>6

\* What is confirmed is ready, lot by lot.
LEMMA AddReadySound ==
    ASSUME NEW s, SideSound(s), NEW amount \in Nat, amount <= s.unconfirmed
    PROVE  LET r == AddReady(s, amount)
           IN  /\ SideSound(r) /\ Deposited(r) = Deposited(s) /\ Follows(r, s, PaymentIds)
               /\ r.unconfirmed = s.unconfirmed - amount /\ r.ready = s.ready + amount
               /\ r.preauth = s.preauth /\ r.spent = s.spent
               /\ \A p \in PaymentIds : AuthorisedFor(r, p) = AuthorisedFor(s, p)
<1> DEFINE lots == s.open_lots
           n == Len(lots)
           held == Unconfirmed(lots)
           t == Taken(held, amount)
           new == [i \in 1 .. n |-> Readied(lots[i], t[i])]
           r == AddReady(s, amount)
<1>1. /\ s \in CollateralSide /\ lots \in Seq(CollateralLot) /\ n \in Nat
      /\ \A i \in 1 .. n : lots[i] \in CollateralLot /\ LotSound(lots[i])
  BY OpenLots
<1>2. /\ s.unconfirmed = Total(held) /\ s.ready = Total(Ready(lots))
      /\ s.preauth = Total(Preauth(lots))
      /\ s.spent = Total(SpentIn(lots)) + Total(SpentIn(s.closed_lots))
  BY DEF SideSound
<1>3. held \in [1 .. n -> Nat] /\ \A i \in 1 .. n : held[i] = lots[i].unconfirmed
  BY <1>1, HeldFacts
<1> HIDE DEF held
<1>4. t \in [1 .. n -> Nat] /\ DOMAIN t = 1 .. n /\ (\A i \in 1 .. n : t[i] <= held[i])
  BY <1>1, <1>3, TakenFacts
<1>5. r = [s EXCEPT !.unconfirmed = s.unconfirmed - amount, !.ready = s.ready + amount, !.open_lots = new]
  BY <1>1, <1>4 DEF AddReady, CollateralSide, held
<1> HIDE DEF t, r
<1>6. \A i \in 1 .. n : new[i] = Readied(lots[i], t[i])
  OBVIOUS
<1>7. DOMAIN new = 1 .. n /\ new = [i \in 1 .. n |-> new[i]]
  OBVIOUS
<1> HIDE DEF new
<1>8. \A i \in 1 .. n :
        /\ new[i] \in CollateralLot
        /\ new[i].unconfirmed = lots[i].unconfirmed - t[i] /\ new[i].ready = lots[i].ready + t[i]
        /\ new[i].preauth = lots[i].preauth /\ new[i].spent = lots[i].spent
        /\ new[i].spends = lots[i].spends /\ new[i].seq_num = lots[i].seq_num
  <2> SUFFICES ASSUME NEW i \in 1 .. n
               PROVE  /\ new[i] \in CollateralLot
                      /\ new[i].unconfirmed = lots[i].unconfirmed - t[i]
                      /\ new[i].ready = lots[i].ready + t[i]
                      /\ new[i].preauth = lots[i].preauth /\ new[i].spent = lots[i].spent
                      /\ new[i].spends = lots[i].spends /\ new[i].seq_num = lots[i].seq_num
    OBVIOUS
  <2>1. lots[i] \in CollateralLot /\ t[i] \in Nat /\ t[i] <= lots[i].unconfirmed
    BY <1>1, <1>3, <1>4
  <2>2. new[i] = Readied(lots[i], t[i])
    BY <1>6
  <2> HIDE DEF lots, n
  <2> QED  BY <2>1, <2>2, ReadiedLot
<1>9. Moved(lots, new, t, n) /\ Total(t) = amount
  <2>1. \A i \in 1 .. n : new[i] \in CollateralLot
    BY <1>8
  <2>2. amount <= Total(held)
    BY <1>2
  <2> QED  BY <1>3, <1>7, <2>1, <2>2, TakenMoved DEF t
<1>10. /\ Total(Unconfirmed(new)) = s.unconfirmed - amount /\ Total(Ready(new)) = s.ready + amount
       /\ Total(Preauth(new)) = s.preauth /\ Total(SpentIn(new)) = Total(SpentIn(lots))
  <2>1. Total(Unconfirmed(new)) = Total(Unconfirmed(lots)) - Total(t)
    BY <1>8, <1>9, UnconfirmedMoved
  <2>2. Total(Ready(new)) = Total(Ready(lots)) + Total(t)
    BY <1>8, <1>9, ReadyMoved
  <2>3. Total(Preauth(new)) = Total(Preauth(lots))
    BY <1>8, <1>9, PreauthMoved
  <2>4. Total(SpentIn(new)) = Total(SpentIn(lots))
    BY <1>8, <1>9, SpentInMoved
  <2> QED  BY <1>2, <1>9, <2>1, <2>2, <2>3, <2>4 DEF held
<1>11. /\ r.unconfirmed = s.unconfirmed - amount /\ r.ready = s.ready + amount
       /\ r.preauth = s.preauth /\ r.spent = s.spent
       /\ r.open_lots = new /\ r.closed_lots = s.closed_lots
  BY <1>1, <1>5 DEF CollateralSide
<1>12. r \in CollateralSide
  <2>1. s.unconfirmed - amount \in Nat /\ s.ready + amount \in Nat /\ new \in Seq(CollateralLot)
    BY <1>1, <1>9, SideFields DEF Moved
  <2> QED  BY <1>1, <1>5, <2>1 DEF CollateralSide
<1>13. Remade(s, r, PaymentIds)
  <2>1. Len(r.open_lots) = Len(s.open_lots)
    BY <1>9, <1>11 DEF Moved
  <2>2. \A i \in 1 .. Len(s.open_lots) :
          /\ r.open_lots[i].seq_num = s.open_lots[i].seq_num
          /\ \A p \in PaymentIds : r.open_lots[i].spends[p] = s.open_lots[i].spends[p]
          /\ LotSound(r.open_lots[i])
    BY <1>1, <1>8, <1>11 DEF LotSound
  <2> QED  BY <1>2, <1>10, <1>11, <1>12, <2>1, <2>2 DEF Remade
<1>14. /\ SideSound(r) /\ Deposited(r) = Deposited(s) /\ Follows(r, s, PaymentIds)
       /\ \A p \in PaymentIds : AuthorisedFor(r, p) = AuthorisedFor(s, p)
  BY <1>13, RemadeSound
<1> QED  BY <1>11, <1>14 DEF r

\* r is s with an amount set aside for a payment.
PreauthorisedFrom(r, s, p, amount) ==
    /\ SideSound(r) /\ Deposited(r) = Deposited(s) /\ Follows(r, s, PaymentIds \ {p})
    /\ FollowsOwn(r, s)
    /\ r.unconfirmed = s.unconfirmed /\ r.ready = s.ready - amount
    /\ r.preauth = s.preauth + amount /\ r.spent = s.spent
    /\ AuthorisedFor(r, p) = AuthorisedFor(s, p) + amount
    /\ \A q \in PaymentIds \ {p} : AuthorisedFor(r, q) = AuthorisedFor(s, q)

\* r is s with what is set aside for a payment spent.
SpentFrom(r, s, p, amount) ==
    /\ SideSound(r) /\ Deposited(r) = Deposited(s) /\ Follows(r, s, PaymentIds \ {p})
    /\ FollowsOwn(r, s)
    /\ r.unconfirmed = s.unconfirmed /\ r.ready = s.ready
    /\ r.preauth = s.preauth - amount /\ r.spent = s.spent + amount
    /\ AuthorisedFor(r, p) = 0
    /\ \A q \in PaymentIds \ {p} : AuthorisedFor(r, q) = AuthorisedFor(s, q)

\* What is ready is set aside for a payment, lot by lot.
LEMMA PreauthSound ==
    ASSUME NEW s, SideSound(s), NEW p \in PaymentIds, NEW amount \in Nat, amount <= s.ready
    PROVE  PreauthorisedFrom(PreauthPayment(s, p, amount), s, p, amount)
<1> DEFINE lots == s.open_lots
           n == Len(lots)
           held == Ready(lots)
           t == Taken(held, amount)
           new == [i \in 1 .. n |-> Preauthed(lots[i], p, t[i])]
           r == PreauthPayment(s, p, amount)
<1>1. /\ s \in CollateralSide /\ lots \in Seq(CollateralLot) /\ n \in Nat
      /\ \A i \in 1 .. n : lots[i] \in CollateralLot /\ LotSound(lots[i])
  BY OpenLots
<1>2. /\ s.unconfirmed = Total(Unconfirmed(lots)) /\ s.ready = Total(held)
      /\ s.preauth = Total(Preauth(lots))
      /\ s.spent = Total(SpentIn(lots)) + Total(SpentIn(s.closed_lots))
  BY DEF SideSound
<1>3. held \in [1 .. n -> Nat] /\ \A i \in 1 .. n : held[i] = lots[i].ready
  BY <1>1, HeldFacts
<1> HIDE DEF held
<1>4. t \in [1 .. n -> Nat] /\ DOMAIN t = 1 .. n /\ (\A i \in 1 .. n : t[i] <= held[i])
  BY <1>1, <1>3, TakenFacts
<1>5. r = [s EXCEPT !.ready = s.ready - amount, !.preauth = s.preauth + amount, !.open_lots = new]
  BY <1>1, <1>4 DEF PreauthPayment, CollateralSide, held
<1> HIDE DEF t, r
<1>6. \A i \in 1 .. n : new[i] = Preauthed(lots[i], p, t[i])
  OBVIOUS
<1>7. DOMAIN new = 1 .. n /\ new = [i \in 1 .. n |-> new[i]]
  OBVIOUS
<1> HIDE DEF new
<1>8. \A i \in 1 .. n :
        /\ new[i] \in CollateralLot /\ LotSound(new[i])
        /\ new[i].unconfirmed = lots[i].unconfirmed /\ new[i].ready = lots[i].ready - t[i]
        /\ new[i].preauth = lots[i].preauth + t[i] /\ new[i].spent = lots[i].spent
        /\ new[i].seq_num = lots[i].seq_num
        /\ new[i].spends[p].preauth = lots[i].spends[p].preauth + t[i]
        /\ new[i].spends[p].spent = lots[i].spends[p].spent
        /\ \A q \in PaymentIds \ {p} : new[i].spends[q] = lots[i].spends[q]
  <2> SUFFICES ASSUME NEW i \in 1 .. n
               PROVE  /\ new[i] \in CollateralLot /\ LotSound(new[i])
                      /\ new[i].unconfirmed = lots[i].unconfirmed /\ new[i].ready = lots[i].ready - t[i]
                      /\ new[i].preauth = lots[i].preauth + t[i] /\ new[i].spent = lots[i].spent
                      /\ new[i].seq_num = lots[i].seq_num
                      /\ new[i].spends[p].preauth = lots[i].spends[p].preauth + t[i]
                      /\ new[i].spends[p].spent = lots[i].spends[p].spent
                      /\ \A q \in PaymentIds \ {p} : new[i].spends[q] = lots[i].spends[q]
    OBVIOUS
  <2>1. lots[i] \in CollateralLot /\ LotSound(lots[i]) /\ t[i] \in Nat /\ t[i] <= lots[i].ready
    BY <1>1, <1>3, <1>4
  <2>2. new[i] = Preauthed(lots[i], p, t[i])
    BY <1>6
  <2> HIDE DEF lots, n
  <2> QED  BY <2>1, <2>2, PreauthedLot
<1>9. Moved(lots, new, t, n) /\ Total(t) = amount
  <2>1. \A i \in 1 .. n : new[i] \in CollateralLot
    BY <1>8
  <2>2. amount <= Total(held)
    BY <1>2
  <2> QED  BY <1>3, <1>7, <2>1, <2>2, TakenMoved DEF t
<1>10. /\ Total(Unconfirmed(new)) = s.unconfirmed /\ Total(Ready(new)) = s.ready - amount
       /\ Total(Preauth(new)) = s.preauth + amount /\ Total(SpentIn(new)) = Total(SpentIn(lots))
  <2>1. Total(Unconfirmed(new)) = Total(Unconfirmed(lots))
    BY <1>8, <1>9, UnconfirmedMoved
  <2>2. Total(Ready(new)) = Total(Ready(lots)) - Total(t)
    BY <1>8, <1>9, ReadyMoved
  <2>3. Total(Preauth(new)) = Total(Preauth(lots)) + Total(t)
    BY <1>8, <1>9, PreauthMoved
  <2>4. Total(SpentIn(new)) = Total(SpentIn(lots))
    BY <1>8, <1>9, SpentInMoved
  <2> QED  BY <1>2, <1>9, <2>1, <2>2, <2>3, <2>4 DEF held
<1>11. /\ r.unconfirmed = s.unconfirmed /\ r.ready = s.ready - amount
       /\ r.preauth = s.preauth + amount /\ r.spent = s.spent
       /\ r.open_lots = new /\ r.closed_lots = s.closed_lots
  BY <1>1, <1>5 DEF CollateralSide
<1>12. r \in CollateralSide
  <2>1. s.ready - amount \in Nat /\ s.preauth + amount \in Nat /\ new \in Seq(CollateralLot)
    BY <1>1, <1>9, SideFields DEF Moved
  <2> QED  BY <1>1, <1>5, <2>1 DEF CollateralSide
<1>13. Remade(s, r, PaymentIds \ {p})
  <2>1. Len(r.open_lots) = Len(s.open_lots)
    BY <1>9, <1>11 DEF Moved
  <2>2. \A i \in 1 .. Len(s.open_lots) :
          /\ r.open_lots[i].seq_num = s.open_lots[i].seq_num
          /\ \A q \in PaymentIds \ {p} : r.open_lots[i].spends[q] = s.open_lots[i].spends[q]
          /\ LotSound(r.open_lots[i])
    BY <1>1, <1>8, <1>11
  <2> QED  BY <1>2, <1>10, <1>11, <1>12, <2>1, <2>2 DEF Remade
<1>14. /\ SideSound(r) /\ Deposited(r) = Deposited(s) /\ Follows(r, s, PaymentIds \ {p})
       /\ \A q \in PaymentIds \ {p} : AuthorisedFor(r, q) = AuthorisedFor(s, q)
  BY <1>13, RemadeSound
<1>15. AuthorisedFor(r, p) = AuthorisedFor(s, p) + amount
  <2>1. Total(Authorised(new, p)) = Total(Authorised(lots, p)) + Total(t)
    BY <1>8, <1>9, AuthorisedMoved
  <2> QED  BY <1>9, <1>11, <2>1 DEF AuthorisedFor
<1>16. FollowsOwn(r, s)
  <2>1. Len(r.open_lots) = Len(s.open_lots)
    BY <1>9, <1>11 DEF Moved
  <2>2. \A i \in 1 .. Len(s.open_lots) : r.open_lots[i].seq_num = s.open_lots[i].seq_num
    BY <1>8, <1>11
  <2>3. \A i \in 1 .. Len(s.open_lots) :
          /\ r.open_lots[i].spends[p].spent
                <= s.open_lots[i].spends[p].spent + s.open_lots[i].spends[p].preauth
          /\ \A q \in PaymentIds \ {p} : r.open_lots[i].spends[q] = s.open_lots[i].spends[q]
    <3> SUFFICES ASSUME NEW i \in 1 .. n
                 PROVE  /\ new[i].spends[p].spent <= lots[i].spends[p].spent + lots[i].spends[p].preauth
                        /\ \A q \in PaymentIds \ {p} : new[i].spends[q] = lots[i].spends[q]
      BY <1>11
    <3>1. lots[i].spends[p].spent \in Nat /\ lots[i].spends[p].preauth \in Nat
      BY <1>1, LotFields
    <3> QED  BY <1>8, <3>1
  <2> QED  BY <1>11, <1>14, <2>1, <2>2, <2>3, PlacesOwned
<1>17. PreauthorisedFrom(r, s, p, amount)
  BY <1>11, <1>14, <1>15, <1>16 DEF PreauthorisedFrom
<1> QED  BY <1>17 DEF r

\* What lots hold adds up to a natural number.
LEMMA LotsTotals ==
    ASSUME NEW lots \in Seq(CollateralLot)
    PROVE  /\ Total(Unconfirmed(lots)) \in Nat /\ Total(Ready(lots)) \in Nat
           /\ Total(Preauth(lots)) \in Nat /\ Total(SpentIn(lots)) \in Nat
<1> DEFINE n == Len(lots)
           zero == [i \in 1 .. n |-> 0]
<1>1. n \in Nat /\ zero \in [1 .. n -> Nat]
  BY LotsFacts
<1>2. /\ Unconfirmed(lots) \in [1 .. n -> Nat] /\ Ready(lots) \in [1 .. n -> Nat]
      /\ Preauth(lots) \in [1 .. n -> Nat] /\ SpentIn(lots) \in [1 .. n -> Nat]
  BY HeldFacts
<1> HIDE DEF n, zero
<1>3. /\ Held(Unconfirmed(lots), zero, zero, n) /\ Held(Ready(lots), zero, zero, n)
      /\ Held(Preauth(lots), zero, zero, n) /\ Held(SpentIn(lots), zero, zero, n)
  BY <1>1, <1>2 DEF Held
<1> QED  BY <1>3, HeldMoved

\* What is authorised for a payment is spent, lot by lot.
LEMMA SpendSound ==
    ASSUME NEW s, SideSound(s), NEW p \in PaymentIds, NEW amount, amount = AuthorisedFor(s, p)
    PROVE  SpentFrom(Spend(s, p, amount), s, p, amount)
<1> DEFINE lots == s.open_lots
           n == Len(lots)
           held == Authorised(lots, p)
           t == Taken(held, amount)
           new == [i \in 1 .. n |-> Spent(lots[i], p, t[i])]
           r == Spend(s, p, amount)
<1>1. /\ s \in CollateralSide /\ lots \in Seq(CollateralLot) /\ n \in Nat
      /\ \A i \in 1 .. n : lots[i] \in CollateralLot /\ LotSound(lots[i])
  BY OpenLots
<1>2. /\ s.unconfirmed = Total(Unconfirmed(lots)) /\ s.ready = Total(Ready(lots))
      /\ s.preauth = Total(Preauth(lots)) /\ amount = Total(held)
      /\ s.spent = Total(SpentIn(lots)) + Total(SpentIn(s.closed_lots))
  BY DEF SideSound, AuthorisedFor
<1>3. held \in [1 .. n -> Nat] /\ DOMAIN held = 1 .. n /\ \A i \in 1 .. n : held[i] = lots[i].spends[p].preauth
  BY <1>1, AuthorisedFacts
<1> HIDE DEF held
<1>4. amount \in Nat
  <2>1. \A i \in 1 .. n : held[i] \in Nat /\ held[i] \in Int
    BY <1>3
  <2> HIDE DEF n, lots
  <2>2. Total(held) \in Nat
    BY <1>1, <1>3, <2>1, TotalFacts
  <2> QED  BY <1>2, <2>2
<1>5. t \in [1 .. n -> Nat] /\ DOMAIN t = 1 .. n /\ \A i \in 1 .. n : t[i] = lots[i].spends[p].preauth
  <2>1. t \in [1 .. n -> Nat] /\ DOMAIN t = 1 .. n /\ \A i \in 1 .. n : t[i] = held[i]
    BY <1>1, <1>2, <1>3, <1>4, TakenFacts
  <2> QED  BY <1>3, <2>1
<1>6. r = [s EXCEPT !.preauth = s.preauth - amount, !.spent = s.spent + amount, !.open_lots = new]
  BY <1>1, <1>5 DEF Spend, CollateralSide, held
<1> HIDE DEF t, r
<1>7. \A i \in 1 .. n : new[i] = Spent(lots[i], p, t[i])
  OBVIOUS
<1>8. DOMAIN new = 1 .. n /\ new = [i \in 1 .. n |-> new[i]]
  OBVIOUS
<1> HIDE DEF new
<1>9. \A i \in 1 .. n :
        /\ new[i] \in CollateralLot /\ LotSound(new[i])
        /\ new[i].unconfirmed = lots[i].unconfirmed /\ new[i].ready = lots[i].ready
        /\ new[i].preauth = lots[i].preauth - t[i] /\ new[i].spent = lots[i].spent + t[i]
        /\ new[i].seq_num = lots[i].seq_num
        /\ new[i].spends[p].preauth = 0
        /\ new[i].spends[p].spent = lots[i].spends[p].spent + t[i]
        /\ \A q \in PaymentIds \ {p} : new[i].spends[q] = lots[i].spends[q]
  <2> SUFFICES ASSUME NEW i \in 1 .. n
               PROVE  /\ new[i] \in CollateralLot /\ LotSound(new[i])
                      /\ new[i].unconfirmed = lots[i].unconfirmed /\ new[i].ready = lots[i].ready
                      /\ new[i].preauth = lots[i].preauth - t[i] /\ new[i].spent = lots[i].spent + t[i]
                      /\ new[i].seq_num = lots[i].seq_num
                      /\ new[i].spends[p].preauth = 0
                      /\ new[i].spends[p].spent = lots[i].spends[p].spent + t[i]
                      /\ \A q \in PaymentIds \ {p} : new[i].spends[q] = lots[i].spends[q]
    OBVIOUS
  <2>1. lots[i] \in CollateralLot /\ LotSound(lots[i]) /\ t[i] = lots[i].spends[p].preauth
    BY <1>1, <1>5
  <2>2. new[i] = Spent(lots[i], p, t[i])
    BY <1>7
  <2> HIDE DEF lots, n
  <2> QED  BY <2>1, <2>2, SpentLot
<1>10. Moved(lots, new, t, n) /\ Total(t) = amount
  <2>1. amount <= Total(held)
    BY <1>2, <1>4
  <2>2. \A i \in 1 .. n : new[i] \in CollateralLot
    BY <1>9
  <2> QED  BY <1>3, <1>4, <1>8, <2>1, <2>2, TakenMoved DEF t
<1>11. /\ Total(Unconfirmed(new)) = s.unconfirmed /\ Total(Ready(new)) = s.ready
       /\ Total(Preauth(new)) = s.preauth - amount
       /\ Total(SpentIn(new)) = Total(SpentIn(lots)) + amount
  <2>1. Total(Unconfirmed(new)) = Total(Unconfirmed(lots))
    BY <1>9, <1>10, UnconfirmedMoved
  <2>2. Total(Ready(new)) = Total(Ready(lots))
    BY <1>9, <1>10, ReadyMoved
  <2>3. Total(Preauth(new)) = Total(Preauth(lots)) - Total(t)
    BY <1>9, <1>10, PreauthMoved
  <2>4. Total(SpentIn(new)) = Total(SpentIn(lots)) + Total(t)
    BY <1>9, <1>10, SpentInMoved
  <2> QED  BY <1>2, <1>10, <2>1, <2>2, <2>3, <2>4
<1>12. /\ r.unconfirmed = s.unconfirmed /\ r.ready = s.ready
       /\ r.preauth = s.preauth - amount /\ r.spent = s.spent + amount
       /\ r.open_lots = new /\ r.closed_lots = s.closed_lots
  BY <1>1, <1>6 DEF CollateralSide
<1>13. /\ s.preauth - amount \in Nat /\ s.spent + amount \in Nat /\ new \in Seq(CollateralLot)
       /\ s.spent + amount = Total(SpentIn(new)) + Total(SpentIn(s.closed_lots))
  <2>1. new \in Seq(CollateralLot) /\ s.closed_lots \in Seq(CollateralLot) /\ s.spent \in Nat
    BY <1>1, <1>10, SideFields DEF Moved
  <2>2. Total(Preauth(new)) \in Nat
    BY <2>1, LotsTotals
  <2>3. Total(SpentIn(lots)) \in Nat /\ Total(SpentIn(s.closed_lots)) \in Nat
    BY <1>1, <2>1, LotsTotals
  <2> QED  BY <1>2, <1>4, <1>11, <2>1, <2>2, <2>3
<1>14. r \in CollateralSide
  BY <1>1, <1>6, <1>13 DEF CollateralSide
<1>15. Remade(s, r, PaymentIds \ {p})
  <2>1. Len(r.open_lots) = Len(s.open_lots)
    BY <1>10, <1>12 DEF Moved
  <2>2. \A i \in 1 .. Len(s.open_lots) :
          /\ r.open_lots[i].seq_num = s.open_lots[i].seq_num
          /\ \A q \in PaymentIds \ {p} : r.open_lots[i].spends[q] = s.open_lots[i].spends[q]
          /\ LotSound(r.open_lots[i])
    BY <1>1, <1>9, <1>12
  <2> QED  BY <1>11, <1>12, <1>13, <1>14, <2>1, <2>2 DEF Remade
<1>16. /\ SideSound(r) /\ Deposited(r) = Deposited(s) /\ Follows(r, s, PaymentIds \ {p})
       /\ \A q \in PaymentIds \ {p} : AuthorisedFor(r, q) = AuthorisedFor(s, q)
  BY <1>15, RemadeSound
<1>17. AuthorisedFor(r, p) = 0
  <2> DEFINE f == Authorised(new, p)
  <2>1. n \in Nat /\ DOMAIN f = 1 .. n /\ \A i \in 1 .. n : f[i] = new[i].spends[p].preauth
    BY <1>1, <1>10, AuthorisedFacts DEF Moved
  <2>2. \A i \in 1 .. n : f[i] = 0 /\ f[i] \in Int
    BY <1>9, <2>1
  <2> HIDE DEF f, n
  <2>3. Total(f) = 0
    BY <2>1, <2>2, TotalFacts
  <2> QED  BY <1>12, <2>3 DEF f, AuthorisedFor
<1>18. FollowsOwn(r, s)
  <2>1. Len(r.open_lots) = Len(s.open_lots)
    BY <1>10, <1>12 DEF Moved
  <2>2. \A i \in 1 .. Len(s.open_lots) : r.open_lots[i].seq_num = s.open_lots[i].seq_num
    BY <1>9, <1>12
  <2>3. \A i \in 1 .. Len(s.open_lots) :
          /\ r.open_lots[i].spends[p].spent
                <= s.open_lots[i].spends[p].spent + s.open_lots[i].spends[p].preauth
          /\ \A q \in PaymentIds \ {p} : r.open_lots[i].spends[q] = s.open_lots[i].spends[q]
    <3> SUFFICES ASSUME NEW i \in 1 .. n
                 PROVE  /\ new[i].spends[p].spent <= lots[i].spends[p].spent + lots[i].spends[p].preauth
                        /\ \A q \in PaymentIds \ {p} : new[i].spends[q] = lots[i].spends[q]
      BY <1>12
    <3>1. lots[i].spends[p].spent \in Nat /\ lots[i].spends[p].preauth \in Nat
      BY <1>1, LotFields
    <3>2. new[i].spends[p].spent = lots[i].spends[p].spent + lots[i].spends[p].preauth
      BY <1>5, <1>9
    <3> QED  BY <1>9, <3>1, <3>2
  <2> QED  BY <1>12, <1>16, <2>1, <2>2, <2>3, PlacesOwned
<1>19. SpentFrom(r, s, p, amount)
  BY <1>12, <1>16, <1>17, <1>18 DEF SpentFrom
<1> QED  BY <1>19 DEF r

\* What is picked at some places and what is picked at the others.
Parted(lots, over, u, v) ==
    /\ lots \in Seq(CollateralLot) /\ over \subseteq DOMAIN lots
    /\ u \in Seq(CollateralLot) /\ PickedRight(u, lots, DOMAIN lots \ over)
    /\ v \in Seq(CollateralLot) /\ PickedRight(v, lots, over)

\* f, g and h say the same of the lots, of u and of v.
Views(lots, u, v, f, g, h) ==
    /\ DOMAIN f = DOMAIN lots /\ DOMAIN g = 1 .. Len(u) /\ DOMAIN h = 1 .. Len(v)
    /\ \A i \in DOMAIN lots : f[i] \in Int
    /\ \A k \in 1 .. Len(u), i \in DOMAIN lots : u[k] = lots[i] => g[k] = f[i]
    /\ \A k \in 1 .. Len(v), i \in DOMAIN lots : v[k] = lots[i] => h[k] = f[i]

\* Totals of lots that are parted in two.
LEMMA PartedTotals ==
    ASSUME NEW lots, NEW over, NEW u, NEW v, Parted(lots, over, u, v),
           NEW f, NEW g, NEW h, Views(lots, u, v, f, g, h)
    PROVE  /\ Total(f) = Total(g) + Total(h) /\ Total(g) \in Int /\ Total(h) \in Int
           /\ (\A i \in over : f[i] = 0) => Total(h) = 0 /\ Total(g) = Total(f)
<1> DEFINE keep == DOMAIN lots \ over
<1>1. Len(u) \in Nat /\ Len(v) \in Nat /\ over \subseteq DOMAIN lots /\ \A i \in DOMAIN lots : f[i] \in Int
  BY LenProperties DEF Parted, Views
<1>2. IsFiniteSet(keep) /\ Total(g) = SumFunctionOnSet(f, keep)
  <2>1. PickedRight(u, lots, keep)
    BY DEF Parted
  <2>2. SameView(u, lots, keep, f, g)
    BY DEF SameView, Views
  <2> HIDE DEF keep
  <2> QED  BY <1>1, <2>1, <2>2, TotalPicked
<1>3. IsFiniteSet(over) /\ Total(h) = SumFunctionOnSet(f, over)
  <2>1. PickedRight(v, lots, over)
    BY DEF Parted
  <2>2. SameView(v, lots, over, f, h)
    BY <1>1 DEF SameView, Views
  <2> QED  BY <1>1, <2>1, <2>2, TotalPicked
<1>4. keep \cap over = {} /\ DOMAIN lots = keep \cup over /\ DOMAIN f = keep \cup over
  BY <1>1 DEF Views
<1> HIDE DEF keep
<1>5. \A i \in keep \cup over : f[i] \in Int
  BY <1>1, <1>4
<1>6. SumFunctionOnSet(f, keep \cup over) = SumFunctionOnSet(f, keep) + SumFunctionOnSet(f, over)
  BY <1>2, <1>3, <1>4, <1>5, SumSplits
<1>7. SumFunctionOnSet(f, keep) \in Int
  <2>1. \A i \in keep : f[i] \in Int
    BY <1>5
  <2> QED  BY <1>2, <2>1, SumType
<1>8. SumFunctionOnSet(f, over) \in Int
  <2>1. \A i \in over : f[i] \in Int
    BY <1>5
  <2> QED  BY <1>3, <2>1, SumType
<1>9. Total(f) = SumFunctionOnSet(f, keep \cup over)
  BY <1>4 DEF Total
<1>10. ASSUME \A i \in over : f[i] = 0 PROVE SumFunctionOnSet(f, over) = 0
  BY <1>3, <1>10, SumZero
<1> QED  BY <1>2, <1>3, <1>6, <1>7, <1>8, <1>9, <1>10

\* What the open lots hold is in those that are kept, but for what was spent.
LEMMA PartedLots ==
    ASSUME NEW lots, NEW over, NEW u, NEW v, Parted(lots, over, u, v),
           \A i \in over : Over(lots[i]) /\ LotSound(lots[i])
    PROVE  /\ Total(Unconfirmed(u)) = Total(Unconfirmed(lots)) /\ Total(Ready(u)) = Total(Ready(lots))
           /\ Total(Preauth(u)) = Total(Preauth(lots))
           /\ Total(SpentIn(lots)) = Total(SpentIn(u)) + Total(SpentIn(v))
           /\ \A p \in PaymentIds : Total(Authorised(u, p)) = Total(Authorised(lots, p))
<1>1. /\ lots \in Seq(CollateralLot) /\ over \subseteq DOMAIN lots
      /\ u \in Seq(CollateralLot) /\ v \in Seq(CollateralLot)
  BY DEF Parted
<1>2. /\ DOMAIN lots = 1 .. Len(lots) /\ \A i \in DOMAIN lots : lots[i] \in CollateralLot
      /\ DOMAIN u = 1 .. Len(u) /\ DOMAIN v = 1 .. Len(v)
  BY <1>1, LotsFacts
<1>3. \A i \in over : lots[i].unconfirmed = 0 /\ lots[i].ready = 0 /\ lots[i].preauth = 0
  BY DEF Over
<1>4. \A i \in DOMAIN lots : /\ lots[i].unconfirmed \in Int /\ lots[i].ready \in Int
                             /\ lots[i].preauth \in Int /\ lots[i].spent \in Int
  BY <1>2, LotFields
<1>5. Total(Unconfirmed(u)) = Total(Unconfirmed(lots))
  <2>1. Views(lots, u, v, Unconfirmed(lots), Unconfirmed(u), Unconfirmed(v))
    BY <1>2, <1>4 DEF Views, Unconfirmed
  <2>2. \A i \in over : Unconfirmed(lots)[i] = 0
    BY <1>1, <1>3 DEF Unconfirmed
  <2> QED  BY <2>1, <2>2, PartedTotals
<1>6. Total(Ready(u)) = Total(Ready(lots))
  <2>1. Views(lots, u, v, Ready(lots), Ready(u), Ready(v))
    BY <1>2, <1>4 DEF Views, Ready
  <2>2. \A i \in over : Ready(lots)[i] = 0
    BY <1>1, <1>3 DEF Ready
  <2> QED  BY <2>1, <2>2, PartedTotals
<1>7. Total(Preauth(u)) = Total(Preauth(lots))
  <2>1. Views(lots, u, v, Preauth(lots), Preauth(u), Preauth(v))
    BY <1>2, <1>4 DEF Views, Preauth
  <2>2. \A i \in over : Preauth(lots)[i] = 0
    BY <1>1, <1>3 DEF Preauth
  <2> QED  BY <2>1, <2>2, PartedTotals
<1>8. Total(SpentIn(lots)) = Total(SpentIn(u)) + Total(SpentIn(v))
  <2>1. Views(lots, u, v, SpentIn(lots), SpentIn(u), SpentIn(v))
    BY <1>2, <1>4 DEF Views, SpentIn
  <2> QED  BY <2>1, PartedTotals
<1>9. ASSUME NEW p \in PaymentIds PROVE Total(Authorised(u, p)) = Total(Authorised(lots, p))
  <2>1. \A i \in DOMAIN lots : lots[i].spends[p].preauth \in Int
    BY <1>2, LotFields
  <2>2. Views(lots, u, v, Authorised(lots, p), Authorised(u, p), Authorised(v, p))
    BY <1>2, <2>1 DEF Views, Authorised
  <2>3. ASSUME NEW i \in over PROVE Authorised(lots, p)[i] = 0
    <3>1. lots[i] \in CollateralLot /\ LotSound(lots[i]) /\ lots[i].preauth = 0
      BY <1>1, <1>2, <1>3
    <3>2. lots[i].spends[p].preauth <= 0 /\ lots[i].spends[p].preauth \in Nat
      BY <3>1, SpendWithin, LotFields
    <3> QED  BY <1>1, <3>2 DEF Authorised
  <2> QED  BY <2>2, <2>3, PartedTotals
<1> QED  BY <1>5, <1>6, <1>7, <1>8, <1>9

\* The places of the lots that were picked.
LEMMA PartedPlaces ==
    ASSUME NEW lots, NEW over, NEW u, NEW v, Parted(lots, over, u, v),
           \A i, j \in DOMAIN lots : lots[i].seq_num = lots[j].seq_num => i = j
    PROVE  /\ \A k \in DOMAIN u : \E i \in DOMAIN lots \ over : u[k] = lots[i]
           /\ \A k \in DOMAIN v : \E i \in over : v[k] = lots[i]
           /\ \A i \in DOMAIN lots : (\E k \in DOMAIN u : u[k] = lots[i]) \/ \E k \in DOMAIN v : v[k] = lots[i]
           /\ \A j, k \in DOMAIN u : u[j].seq_num = u[k].seq_num => j = k
           /\ \A j, k \in DOMAIN v : v[j].seq_num = v[k].seq_num => j = k
           /\ \A j \in DOMAIN u, k \in DOMAIN v : u[j].seq_num # v[k].seq_num
<1> DEFINE keep == DOMAIN lots \ over
<1>1. DOMAIN u = 1 .. Len(u) /\ DOMAIN v = 1 .. Len(v) /\ over \subseteq DOMAIN lots
  BY LotsFacts DEF Parted
<1>2. PICK at \in [1 .. Len(u) -> keep] :
        /\ \A j, k \in 1 .. Len(u) : at[j] = at[k] => j = k
        /\ \A i \in keep : \E k \in 1 .. Len(u) : at[k] = i
        /\ \A k \in 1 .. Len(u) : u[k] = lots[at[k]]
  BY DEF Parted, PickedRight
<1>3. PICK to \in [1 .. Len(v) -> over] :
        /\ \A j, k \in 1 .. Len(v) : to[j] = to[k] => j = k
        /\ \A i \in over : \E k \in 1 .. Len(v) : to[k] = i
        /\ \A k \in 1 .. Len(v) : v[k] = lots[to[k]]
  BY DEF Parted, PickedRight
<1>4. \A k \in DOMAIN u : at[k] \in DOMAIN lots /\ at[k] \notin over /\ u[k] = lots[at[k]]
  BY <1>1, <1>2
<1>5. \A k \in DOMAIN v : to[k] \in DOMAIN lots /\ to[k] \in over /\ v[k] = lots[to[k]]
  BY <1>1, <1>3
<1>6. \A i \in DOMAIN lots : (\E k \in DOMAIN u : u[k] = lots[i]) \/ \E k \in DOMAIN v : v[k] = lots[i]
  <2> SUFFICES ASSUME NEW i \in DOMAIN lots
               PROVE  (\E k \in DOMAIN u : u[k] = lots[i]) \/ \E k \in DOMAIN v : v[k] = lots[i]
    OBVIOUS
  <2>1. CASE i \in over
    BY <1>1, <1>3, <2>1
  <2>2. CASE i \in keep
    BY <1>1, <1>2, <2>2
  <2> QED  BY <2>1, <2>2
<1>7. ASSUME NEW j \in DOMAIN u, NEW k \in DOMAIN u, u[j].seq_num = u[k].seq_num PROVE j = k
  <2>1. at[j] = at[k]
    BY <1>4, <1>7
  <2> QED  BY <1>1, <1>2, <2>1
<1>8. ASSUME NEW j \in DOMAIN v, NEW k \in DOMAIN v, v[j].seq_num = v[k].seq_num PROVE j = k
  <2>1. to[j] = to[k]
    BY <1>5, <1>8
  <2> QED  BY <1>1, <1>3, <2>1
<1>9. ASSUME NEW j \in DOMAIN u, NEW k \in DOMAIN v, u[j].seq_num = v[k].seq_num PROVE FALSE
  <2>1. at[j] = to[k]
    BY <1>4, <1>5, <1>9
  <2> QED  BY <1>4, <1>5, <2>1
<1> QED  BY <1>4, <1>5, <1>6, <1>7, <1>8, <1>9

\* The same lots hold the same deposits.
LEMMA DepositsOfLots ==
    ASSUME NEW s, NEW r, LotsOf(r) = LotsOf(s)
    PROVE  Deposited(r) = Deposited(s)
<1>1. Deposited(r) = {lot.seq_num : lot \in LotsOf(r)}
  BY DEF Deposited, SeqNumsOf, LotsOf
<1>2. Deposited(s) = {lot.seq_num : lot \in LotsOf(s)}
  BY DEF Deposited, SeqNumsOf, LotsOf
<1> QED  BY <1>1, <1>2

\* Lots with nothing left are closed, and that is all.
LEMMA CloseSound ==
    ASSUME NEW s, SideSound(s)
    PROVE  LET r == CloseLots(s)
           IN  /\ SideSound(r) /\ LotsOf(r) = LotsOf(s) /\ Deposited(r) = Deposited(s)
               /\ r.unconfirmed = s.unconfirmed /\ r.ready = s.ready
               /\ r.preauth = s.preauth /\ r.spent = s.spent
               /\ \A p \in PaymentIds : AuthorisedFor(r, p) = AuthorisedFor(s, p)
<1> DEFINE lots == s.open_lots
           closed == s.closed_lots
           over == {i \in DOMAIN lots : Over(lots[i])}
           u == Picked(lots, DOMAIN lots \ over)
           v == Picked(lots, over)
           w == closed \o v
           r == CloseLots(s)
<1>1. /\ s \in CollateralSide /\ lots \in Seq(CollateralLot) /\ closed \in Seq(CollateralLot)
      /\ \A i \in DOMAIN lots : LotSound(lots[i])
      /\ \A i \in DOMAIN closed : LotSound(closed[i]) /\ Over(closed[i])
      /\ s.unconfirmed = Total(Unconfirmed(lots)) /\ s.ready = Total(Ready(lots))
      /\ s.preauth = Total(Preauth(lots))
      /\ s.spent = Total(SpentIn(lots)) + Total(SpentIn(closed))
  BY SideFields DEF SideSound
<1>2. /\ \A i, j \in DOMAIN lots : lots[i].seq_num = lots[j].seq_num => i = j
      /\ \A i, j \in DOMAIN closed : closed[i].seq_num = closed[j].seq_num => i = j
      /\ \A i \in DOMAIN lots, j \in DOMAIN closed : lots[i].seq_num # closed[j].seq_num
  BY DEF SideSound, Apart
<1>3. r = [s EXCEPT !.open_lots = u, !.closed_lots = w]
  BY <1>1 DEF CloseLots, CollateralSide
<1>4. over \subseteq DOMAIN lots /\ \A i \in over : Over(lots[i])
  OBVIOUS
<1>5. u \in Seq(CollateralLot) /\ PickedRight(u, lots, DOMAIN lots \ over)
  <2>1. DOMAIN lots \ over \subseteq DOMAIN lots
    OBVIOUS
  <2> QED  BY <1>1, <2>1, PickedFacts
<1>6. v \in Seq(CollateralLot) /\ PickedRight(v, lots, over)
  BY <1>1, <1>4, PickedFacts
<1> HIDE DEF over, u, v, r
<1>7. Parted(lots, over, u, v)
  BY <1>1, <1>4, <1>5, <1>6 DEF Parted
<1> DEFINE m == Len(closed)
           n == Len(v)
<1>8. /\ m \in Nat /\ n \in Nat /\ w \in Seq(CollateralLot) /\ DOMAIN w = 1 .. m + n
      /\ \A i \in 1 .. m : w[i] = closed[i] /\ i \in 1 .. m + n
      /\ \A i \in 1 .. n : w[m + i] = v[i] /\ m + i \in 1 .. m + n
      /\ \A i \in 1 .. m + n : i \in 1 .. m \/ (i - m \in 1 .. n /\ i = m + (i - m))
  BY <1>1, <1>6, ConcatPlaces
<1>9. DOMAIN closed = 1 .. m /\ DOMAIN v = 1 .. n /\ DOMAIN u = 1 .. Len(u)
  BY <1>1, <1>5, <1>6, LotsFacts
<1> HIDE DEF w, m, n
<1>10. /\ \A k \in DOMAIN u : \E i \in DOMAIN lots \ over : u[k] = lots[i]
       /\ \A k \in DOMAIN v : \E i \in over : v[k] = lots[i]
       /\ \A i \in DOMAIN lots : (\E k \in DOMAIN u : u[k] = lots[i]) \/ \E k \in DOMAIN v : v[k] = lots[i]
       /\ \A j, k \in DOMAIN u : u[j].seq_num = u[k].seq_num => j = k
       /\ \A j, k \in DOMAIN v : v[j].seq_num = v[k].seq_num => j = k
       /\ \A j \in DOMAIN u, k \in DOMAIN v : u[j].seq_num # v[k].seq_num
  BY <1>2, <1>7, PartedPlaces
\* The lots of w are the closed ones and those of v.
<1>11. \A k \in DOMAIN w : (\E i \in DOMAIN closed : k = i /\ w[k] = closed[i])
                           \/ \E i \in DOMAIN v : k = m + i /\ w[k] = v[i]
  <2> SUFFICES ASSUME NEW k \in 1 .. m + n
               PROVE  (\E i \in DOMAIN closed : k = i /\ w[k] = closed[i])
                      \/ \E i \in DOMAIN v : k = m + i /\ w[k] = v[i]
    BY <1>8
  <2>1. CASE k \in 1 .. m
    BY <1>8, <1>9, <2>1
  <2>2. CASE k - m \in 1 .. n /\ k = m + (k - m)
    <3>1. w[m + (k - m)] = v[k - m]
      BY <1>8, <2>2
    <3>2. w[k] = v[k - m]
      BY <2>2, <3>1
    <3> QED  BY <1>9, <2>2, <3>2
  <2> QED  BY <1>8, <2>1, <2>2
<1>12. /\ \A i \in DOMAIN closed : i \in DOMAIN w /\ w[i] = closed[i]
       /\ \A i \in DOMAIN v : m + i \in DOMAIN w /\ w[m + i] = v[i]
  BY <1>8, <1>9
<1>13. /\ r.unconfirmed = s.unconfirmed /\ r.ready = s.ready
       /\ r.preauth = s.preauth /\ r.spent = s.spent /\ r.open_lots = u /\ r.closed_lots = w
       /\ r \in CollateralSide
  BY <1>1, <1>3, <1>5, <1>8 DEF CollateralSide
<1>14. /\ Total(Unconfirmed(u)) = Total(Unconfirmed(lots)) /\ Total(Ready(u)) = Total(Ready(lots))
       /\ Total(Preauth(u)) = Total(Preauth(lots))
       /\ Total(SpentIn(lots)) = Total(SpentIn(u)) + Total(SpentIn(v))
       /\ \A p \in PaymentIds : Total(Authorised(u, p)) = Total(Authorised(lots, p))
  <2>1. \A i \in over : Over(lots[i]) /\ LotSound(lots[i])
    BY <1>1, <1>4
  <2> HIDE DEF lots
  <2> QED  BY <1>7, <2>1, PartedLots
<1>15. s.spent = Total(SpentIn(u)) + Total(SpentIn(w))
  <2> DEFINE f == SpentIn(closed)
             g == SpentIn(v)
             h == SpentIn(w)
  <2>1. /\ DOMAIN f = 1 .. m /\ DOMAIN g = 1 .. n /\ DOMAIN h = 1 .. m + n
        /\ \A i \in 1 .. m : f[i] = closed[i].spent /\ h[i] = w[i].spent
        /\ \A i \in 1 .. n : g[i] = v[i].spent /\ h[m + i] = w[m + i].spent
    BY <1>8, <1>9 DEF SpentIn
  <2>2. (\A i \in 1 .. m : closed[i].spent \in Int) /\ \A i \in 1 .. n : v[i].spent \in Int
    <3>1. (\A i \in 1 .. m : closed[i] \in CollateralLot) /\ \A i \in 1 .. n : v[i] \in CollateralLot
      BY <1>1, <1>6, LotsFacts DEF m, n
    <3>2. \A lot \in CollateralLot : lot.spent \in Int
      BY LotFields
    <3> QED  BY <3>1, <3>2
  <2>3. /\ \A i \in 1 .. m : f[i] \in Int /\ h[i] = f[i]
        /\ \A i \in 1 .. n : g[i] \in Int /\ h[m + i] = g[i]
    <3> HIDE DEF f, g, h
    <3>1. ASSUME NEW i \in 1 .. m PROVE f[i] \in Int /\ h[i] = f[i]
      <4>1. w[i] = closed[i]
        BY <1>8
      <4> QED  BY <2>1, <2>2, <4>1
    <3>2. ASSUME NEW i \in 1 .. n PROVE g[i] \in Int /\ h[m + i] = g[i]
      <4>1. w[m + i] = v[i]
        BY <1>8
      <4> QED  BY <2>1, <2>2, <4>1
    <3> QED  BY <3>1, <3>2
  <2> HIDE DEF f, g, h
  <2>4. Total(h) = Total(f) + Total(g)
    <3>1. Joined(f, g, h, m, n)
      BY <1>8, <2>1, <2>3 DEF Joined
    <3> QED  BY <3>1, TotalBehind
  <2>5. Total(f) \in Nat /\ Total(g) \in Nat /\ Total(SpentIn(u)) \in Nat
    BY <1>1, <1>5, <1>6, LotsTotals DEF f, g
  <2>6. s.spent = (Total(SpentIn(u)) + Total(g)) + Total(f)
    BY <1>1, <1>14 DEF f, g
  <2> QED  BY <2>4, <2>5, <2>6 DEF h
<1>16. \A i \in DOMAIN u : LotSound(u[i])
  BY <1>1, <1>10
<1>17. \A i \in DOMAIN w : LotSound(w[i]) /\ Over(w[i])
  <2> SUFFICES ASSUME NEW k \in DOMAIN w PROVE LotSound(w[k]) /\ Over(w[k])
    OBVIOUS
  <2>1. CASE \E i \in DOMAIN closed : k = i /\ w[k] = closed[i]
    BY <1>1, <2>1
  <2>2. CASE \E i \in DOMAIN v : k = m + i /\ w[k] = v[i]
    <3>1. PICK i \in over : w[k] = lots[i]
      BY <1>10, <2>2
    <3> QED  BY <1>1, <1>4, <3>1
  <2> QED  BY <1>11, <2>1, <2>2
<1>18. Apart(r)
  <2>1. \A i, j \in DOMAIN u : u[i].seq_num = u[j].seq_num => i = j
    BY <1>10
  <2>2. ASSUME NEW j \in DOMAIN w, NEW k \in DOMAIN w, w[j].seq_num = w[k].seq_num PROVE j = k
    <3>1. CASE (\E i \in DOMAIN closed : j = i /\ w[j] = closed[i])
               /\ \E i \in DOMAIN closed : k = i /\ w[k] = closed[i]
      BY <1>2, <2>2, <3>1
    <3>2. CASE (\E i \in DOMAIN v : j = m + i /\ w[j] = v[i])
               /\ \E i \in DOMAIN v : k = m + i /\ w[k] = v[i]
      BY <1>10, <2>2, <3>2
    <3>3. CASE (\E i \in DOMAIN closed : j = i /\ w[j] = closed[i])
               /\ \E i \in DOMAIN v : k = m + i /\ w[k] = v[i]
      <4>1. PICK i \in DOMAIN lots : w[k] = lots[i]
        BY <1>4, <1>10, <3>3
      <4> QED  BY <1>2, <2>2, <3>3, <4>1
    <3>4. CASE (\E i \in DOMAIN v : j = m + i /\ w[j] = v[i])
               /\ \E i \in DOMAIN closed : k = i /\ w[k] = closed[i]
      <4>1. PICK i \in DOMAIN lots : w[j] = lots[i]
        BY <1>4, <1>10, <3>4
      <4> QED  BY <1>2, <2>2, <3>4, <4>1
    <3> QED  BY <1>11, <3>1, <3>2, <3>3, <3>4
  <2>3. ASSUME NEW j \in DOMAIN u, NEW k \in DOMAIN w PROVE u[j].seq_num # w[k].seq_num
    <3>1. CASE \E i \in DOMAIN closed : k = i /\ w[k] = closed[i]
      BY <1>2, <1>10, <3>1
    <3>2. CASE \E i \in DOMAIN v : k = m + i /\ w[k] = v[i]
      BY <1>10, <3>2
    <3> QED  BY <1>11, <3>1, <3>2
  <2> QED  BY <1>13, <2>1, <2>2, <2>3 DEF Apart
<1>19. LotsOf(r) = LotsOf(s)
  <2> DEFINE A == {u[i] : i \in DOMAIN u} \cup {w[i] : i \in DOMAIN w}
             B == {lots[i] : i \in DOMAIN lots} \cup {closed[i] : i \in DOMAIN closed}
  <2>1. ASSUME NEW x \in A PROVE x \in B
    <3>1. CASE \E k \in DOMAIN u : x = u[k]
      BY <1>10, <3>1
    <3>2. CASE \E k \in DOMAIN w : x = w[k]
      <4>1. (\E i \in DOMAIN closed : x = closed[i]) \/ \E i \in DOMAIN v : x = v[i]
        BY <1>11, <3>2
      <4> QED  BY <1>4, <1>10, <4>1
    <3> QED  BY <3>1, <3>2
  <2>2. ASSUME NEW x \in B PROVE x \in A
    <3>1. CASE \E i \in DOMAIN lots : x = lots[i]
      <4>1. (\E k \in DOMAIN u : u[k] = x) \/ \E k \in DOMAIN v : v[k] = x
        BY <1>10, <3>1
      <4> QED  BY <1>12, <4>1
    <3>2. CASE \E i \in DOMAIN closed : x = closed[i]
      BY <1>12, <3>2
    <3> QED  BY <3>1, <3>2
  <2>3. A = B
    BY <2>1, <2>2
  <2> QED  BY <1>13, <2>3 DEF LotsOf
<1>20. Deposited(r) = Deposited(s)
  BY <1>19, DepositsOfLots
<1>21. SideSound(r)
  BY <1>1, <1>13, <1>14, <1>15, <1>16, <1>17, <1>18 DEF SideSound
<1>22. \A p \in PaymentIds : AuthorisedFor(r, p) = AuthorisedFor(s, p)
  BY <1>13, <1>14 DEF AuthorisedFor
<1> QED  BY <1>13, <1>19, <1>20, <1>21, <1>22 DEF r

\* What is authorised for a payment is a number.
LEMMA AuthorisedNat ==
    ASSUME NEW s, SideSound(s), NEW p \in PaymentIds
    PROVE  AuthorisedFor(s, p) \in Nat
<1> DEFINE f == Authorised(s.open_lots, p)
           n == Len(s.open_lots)
<1>1. n \in Nat /\ f \in [1 .. n -> Nat]
  BY OpenLots, AuthorisedFacts
<1> HIDE DEF f, n
<1>2. Held(f, f, f, n)
  BY <1>1 DEF Held
<1>3. Total(f) \in Nat
  BY <1>2, HeldMoved
<1> QED  BY <1>3 DEF f, AuthorisedFor

\* What is authorised for a payment is spent, and lots with nothing left are closed.
LEMMA ConfirmSound ==
    ASSUME NEW s, SideSound(s), NEW p \in PaymentIds, NEW amount, amount = AuthorisedFor(s, p)
    PROVE  SpentFrom(ConfirmPayment(s, p, amount), s, p, amount)
<1> DEFINE t == Spend(s, p, amount)
           r == CloseLots(t)
<1>1. /\ SideSound(t) /\ Deposited(t) = Deposited(s) /\ Follows(t, s, PaymentIds \ {p})
      /\ FollowsOwn(t, s)
      /\ t.unconfirmed = s.unconfirmed /\ t.ready = s.ready
      /\ t.preauth = s.preauth - amount /\ t.spent = s.spent + amount
      /\ AuthorisedFor(t, p) = 0
      /\ \A q \in PaymentIds \ {p} : AuthorisedFor(t, q) = AuthorisedFor(s, q)
  BY SpendSound DEF SpentFrom
<1> HIDE DEF t
<1>2. /\ SideSound(r) /\ LotsOf(r) = LotsOf(t) /\ Deposited(r) = Deposited(t)
      /\ r.unconfirmed = t.unconfirmed /\ r.ready = t.ready
      /\ r.preauth = t.preauth /\ r.spent = t.spent
      /\ \A q \in PaymentIds : AuthorisedFor(r, q) = AuthorisedFor(t, q)
  BY <1>1, CloseSound
<1>3. ConfirmPayment(s, p, amount) = r
  BY DEF ConfirmPayment, t
<1> HIDE DEF r
<1>4. Follows(r, s, PaymentIds \ {p}) /\ FollowsOwn(r, s)
  BY <1>1, <1>2 DEF Follows, FollowsOwn
<1>5. SpentFrom(r, s, p, amount)
  BY <1>1, <1>2, <1>4 DEF SpentFrom
<1> QED  BY <1>3, <1>5

\* What a payment has not authorised before is spent in one go.
LEMMA PaySound ==
    ASSUME NEW s, SideSound(s), NEW p \in PaymentIds, AuthorisedFor(s, p) = 0,
           NEW amount \in Nat, amount <= s.unconfirmed
    PROVE  LET r == Pay(s, p, amount)
           IN  /\ SideSound(r) /\ Deposited(r) = Deposited(s) /\ Follows(r, s, PaymentIds \ {p})
               /\ r.unconfirmed = s.unconfirmed - amount /\ r.ready = s.ready
               /\ r.preauth = s.preauth /\ r.spent = s.spent + amount
               /\ \A q \in PaymentIds : AuthorisedFor(r, q) = AuthorisedFor(s, q)
<1> DEFINE a == AddReady(s, amount)
           b == PreauthPayment(a, p, amount)
           r == ConfirmPayment(b, p, amount)
           P == PaymentIds \ {p}
<1>0. s.unconfirmed \in Nat /\ s.ready \in Nat /\ s.preauth \in Nat /\ s.spent \in Nat
  BY SideFields DEF SideSound
<1>1. /\ SideSound(a) /\ Deposited(a) = Deposited(s) /\ Follows(a, s, PaymentIds)
      /\ a.unconfirmed = s.unconfirmed - amount /\ a.ready = s.ready + amount
      /\ a.preauth = s.preauth /\ a.spent = s.spent
      /\ \A q \in PaymentIds : AuthorisedFor(a, q) = AuthorisedFor(s, q)
  BY AddReadySound
<1> HIDE DEF a
<1>2. amount <= a.ready
  BY <1>0, <1>1
<1>3. /\ SideSound(b) /\ Deposited(b) = Deposited(a) /\ Follows(b, a, PaymentIds \ {p})
      /\ b.unconfirmed = a.unconfirmed /\ b.ready = a.ready - amount
      /\ b.preauth = a.preauth + amount /\ b.spent = a.spent
      /\ AuthorisedFor(b, p) = AuthorisedFor(a, p) + amount
      /\ \A q \in PaymentIds \ {p} : AuthorisedFor(b, q) = AuthorisedFor(a, q)
  BY <1>1, <1>2, PreauthSound DEF PreauthorisedFrom
<1> HIDE DEF b
<1>4. amount = AuthorisedFor(b, p)
  BY <1>1, <1>3
<1>5. /\ SideSound(r) /\ Deposited(r) = Deposited(b) /\ Follows(r, b, PaymentIds \ {p})
      /\ r.unconfirmed = b.unconfirmed /\ r.ready = b.ready
      /\ r.preauth = b.preauth - amount /\ r.spent = b.spent + amount
      /\ AuthorisedFor(r, p) = 0
      /\ \A q \in PaymentIds \ {p} : AuthorisedFor(r, q) = AuthorisedFor(b, q)
  BY <1>3, <1>4, ConfirmSound DEF SpentFrom
<1>6. Pay(s, p, amount) = r
  BY DEF Pay, a, b
<1> HIDE DEF r
<1>7. Follows(r, s, P)
  <2>1. Follows(a, s, P)
    BY <1>1, FollowsLess
  <2>2. Follows(b, s, P)
    BY <1>3, <2>1, FollowsChain
  <2> QED  BY <1>5, <2>2, FollowsChain
<1>8. \A q \in PaymentIds : AuthorisedFor(r, q) = AuthorisedFor(s, q)
  BY <1>1, <1>3, <1>5
<1>9. /\ r.unconfirmed = s.unconfirmed - amount /\ r.ready = s.ready
      /\ r.preauth = s.preauth /\ r.spent = s.spent + amount
  BY <1>0, <1>1, <1>3, <1>5
<1> QED  BY <1>1, <1>3, <1>5, <1>6, <1>7, <1>8, <1>9

\* g has what f has, and x behind it.
Appended(f, g, x, n) ==
    /\ n \in Nat /\ f \in [1 .. n -> Nat] /\ g \in [1 .. n + 1 -> Nat]
    /\ g[n + 1] = x /\ \A i \in 1 .. n : g[i] = f[i]

\* The total when one place is added.
LEMMA AppendedTotal ==
    ASSUME NEW f, NEW g, NEW x, NEW n, Appended(f, g, x, n)
    PROVE  Total(g) = Total(f) + x
<1>1. /\ n \in Nat /\ DOMAIN f = 1 .. n /\ DOMAIN g = 1 .. n + 1 /\ g[n + 1] = x
      /\ \A i \in 1 .. n + 1 : g[i] \in Int
      /\ \A i \in 1 .. n : f[i] = g[i] /\ f[i] \in Int
  BY DEF Appended
<1>2. SumFunctionOnSet(g, 1 .. n + 1) = SumFunctionOnSet(g, 1 .. n) + g[n + 1]
  BY <1>1, SumLast
<1>3. SumFunctionOnSet(f, 1 .. n) = SumFunctionOnSet(g, 1 .. n)
  <2> DEFINE D == 1 .. n
  <2>1. IsFiniteSet(D) /\ \A i \in D : f[i] = g[i] /\ f[i] \in Int
    BY <1>1, FS_Interval
  <2> HIDE DEF D
  <2>2. SumFunctionOnSet(f, D) = SumFunctionOnSet(g, D)
    BY <2>1, SumAgrees
  <2> QED  BY <2>2 DEF D
<1> QED  BY <1>1, <1>2, <1>3 DEF Total

\* Lots when one is added (open_lot).
LEMMA AppendedLots ==
    ASSUME NEW lots \in Seq(CollateralLot), NEW lot \in CollateralLot
    PROVE  LET n == Len(lots)
               new == Append(lots, lot)
           IN  /\ n \in Nat /\ new \in Seq(CollateralLot) /\ Len(new) = n + 1
               /\ DOMAIN lots = 1 .. n /\ DOMAIN new = 1 .. n + 1
               /\ new[n + 1] = lot /\ \A i \in 1 .. n : new[i] = lots[i] /\ i \in 1 .. n + 1
               /\ n + 1 \in 1 .. n + 1
               /\ \A i \in 1 .. n : lots[i] \in CollateralLot
               /\ \A i \in 1 .. n + 1 : new[i] \in CollateralLot
<1> DEFINE n == Len(lots)
           new == Append(lots, lot)
<1>1. n \in Nat /\ DOMAIN lots = 1 .. n /\ \A i \in 1 .. n : lots[i] \in CollateralLot
  BY LotsFacts
<1>2. /\ new \in Seq(CollateralLot) /\ Len(new) = n + 1 /\ new[n + 1] = lot
      /\ \A i \in 1 .. n : new[i] = lots[i]
  BY AppendProperties
<1>3. DOMAIN new = 1 .. n + 1 /\ \A i \in 1 .. n + 1 : new[i] \in CollateralLot
  BY <1>2, LotsFacts
<1> HIDE DEF n, new
<1>4. (\A i \in 1 .. n : i \in 1 .. n + 1) /\ n + 1 \in 1 .. n + 1
  BY <1>1
<1> QED  BY <1>1, <1>2, <1>3, <1>4 DEF n, new

\* What lots hold when one is added (open_lot).
LEMMA AppendedTotals ==
    ASSUME NEW lots \in Seq(CollateralLot), NEW lot \in CollateralLot
    PROVE  LET new == Append(lots, lot)
           IN  /\ Total(Unconfirmed(new)) = Total(Unconfirmed(lots)) + lot.unconfirmed
               /\ Total(Ready(new)) = Total(Ready(lots)) + lot.ready
               /\ Total(Preauth(new)) = Total(Preauth(lots)) + lot.preauth
               /\ Total(SpentIn(new)) = Total(SpentIn(lots)) + lot.spent
               /\ \A p \in PaymentIds :
                     Total(Authorised(new, p)) = Total(Authorised(lots, p)) + lot.spends[p].preauth
<1> DEFINE n == Len(lots)
           new == Append(lots, lot)
<1>1. /\ n \in Nat /\ new \in Seq(CollateralLot) /\ Len(new) = n + 1 /\ new[n + 1] = lot
      /\ \A i \in 1 .. n : new[i] = lots[i] /\ i \in 1 .. n + 1
      /\ n + 1 \in 1 .. n + 1
  BY AppendedLots
<1> HIDE DEF new
<1>2. Total(Unconfirmed(new)) = Total(Unconfirmed(lots)) + lot.unconfirmed
  <2>1. Unconfirmed(lots) \in [1 .. n -> Nat] /\ \A i \in 1 .. n : Unconfirmed(lots)[i] = lots[i].unconfirmed
    BY HeldFacts
  <2>2. Unconfirmed(new) \in [1 .. n + 1 -> Nat] /\ \A i \in 1 .. n + 1 : Unconfirmed(new)[i] = new[i].unconfirmed
    BY <1>1, HeldFacts
  <2> HIDE DEF n
  <2>3. Appended(Unconfirmed(lots), Unconfirmed(new), lot.unconfirmed, n)
    BY <1>1, <2>1, <2>2 DEF Appended
  <2> QED  BY <2>3, AppendedTotal
<1>3. Total(Ready(new)) = Total(Ready(lots)) + lot.ready
  <2>1. Ready(lots) \in [1 .. n -> Nat] /\ \A i \in 1 .. n : Ready(lots)[i] = lots[i].ready
    BY HeldFacts
  <2>2. Ready(new) \in [1 .. n + 1 -> Nat] /\ \A i \in 1 .. n + 1 : Ready(new)[i] = new[i].ready
    BY <1>1, HeldFacts
  <2> HIDE DEF n
  <2>3. Appended(Ready(lots), Ready(new), lot.ready, n)
    BY <1>1, <2>1, <2>2 DEF Appended
  <2> QED  BY <2>3, AppendedTotal
<1>4. Total(Preauth(new)) = Total(Preauth(lots)) + lot.preauth
  <2>1. Preauth(lots) \in [1 .. n -> Nat] /\ \A i \in 1 .. n : Preauth(lots)[i] = lots[i].preauth
    BY HeldFacts
  <2>2. Preauth(new) \in [1 .. n + 1 -> Nat] /\ \A i \in 1 .. n + 1 : Preauth(new)[i] = new[i].preauth
    BY <1>1, HeldFacts
  <2> HIDE DEF n
  <2>3. Appended(Preauth(lots), Preauth(new), lot.preauth, n)
    BY <1>1, <2>1, <2>2 DEF Appended
  <2> QED  BY <2>3, AppendedTotal
<1>5. Total(SpentIn(new)) = Total(SpentIn(lots)) + lot.spent
  <2>1. SpentIn(lots) \in [1 .. n -> Nat] /\ \A i \in 1 .. n : SpentIn(lots)[i] = lots[i].spent
    BY HeldFacts
  <2>2. SpentIn(new) \in [1 .. n + 1 -> Nat] /\ \A i \in 1 .. n + 1 : SpentIn(new)[i] = new[i].spent
    BY <1>1, HeldFacts
  <2> HIDE DEF n
  <2>3. Appended(SpentIn(lots), SpentIn(new), lot.spent, n)
    BY <1>1, <2>1, <2>2 DEF Appended
  <2> QED  BY <2>3, AppendedTotal
<1>6. ASSUME NEW p \in PaymentIds
      PROVE  Total(Authorised(new, p)) = Total(Authorised(lots, p)) + lot.spends[p].preauth
  <2>1. /\ Authorised(lots, p) \in [1 .. n -> Nat]
        /\ \A i \in 1 .. n : Authorised(lots, p)[i] = lots[i].spends[p].preauth
    BY AuthorisedFacts
  <2>2. /\ Authorised(new, p) \in [1 .. n + 1 -> Nat]
        /\ \A i \in 1 .. n + 1 : Authorised(new, p)[i] = new[i].spends[p].preauth
    BY <1>1, AuthorisedFacts
  <2> HIDE DEF n
  <2>3. Appended(Authorised(lots, p), Authorised(new, p), lot.spends[p].preauth, n)
    BY <1>1, <2>1, <2>2 DEF Appended
  <2> QED  BY <2>3, AppendedTotal
<1> QED  BY <1>2, <1>3, <1>4, <1>5, <1>6 DEF new

\* The first notice of a deposit opens a lot of its own.
LEMMA OpenLotSound ==
    ASSUME NEW s, SideSound(s), NEW d \in Deposits
    PROVE  LET r == OpenLot(s, d)
           IN  /\ SideSound(r) /\ Deposited(r) = Deposited(s) \cup {d} /\ FollowsOwn(r, s)
               /\ r.unconfirmed = s.unconfirmed + (IF d \in Deposited(s) THEN 0 ELSE DepositAmount[d])
               /\ r.ready = s.ready /\ r.preauth = s.preauth /\ r.spent = s.spent
               /\ \A p \in PaymentIds : AuthorisedFor(r, p) = AuthorisedFor(s, p)
<1> DEFINE lots == s.open_lots
           n == Len(lots)
           A == DepositAmount[d]
           lot == [seq_num |-> d, unconfirmed |-> A, ready |-> 0, preauth |-> 0, spent |-> 0,
                   spends |-> NoSpends]
           new == Append(lots, lot)
           r == OpenLot(s, d)
<1>1. /\ s \in CollateralSide /\ lots \in Seq(CollateralLot) /\ n \in Nat /\ DOMAIN lots = 1 .. n
      /\ \A i \in 1 .. n : lots[i] \in CollateralLot /\ LotSound(lots[i])
  BY OpenLots
<1>2. /\ s.unconfirmed = Total(Unconfirmed(lots)) /\ s.ready = Total(Ready(lots))
      /\ s.preauth = Total(Preauth(lots))
      /\ s.spent = Total(SpentIn(lots)) + Total(SpentIn(s.closed_lots))
      /\ \A i \in DOMAIN s.closed_lots : LotSound(s.closed_lots[i]) /\ Over(s.closed_lots[i])
      /\ Apart(s)
  BY DEF SideSound
<1>3. /\ s.unconfirmed \in Nat /\ s.ready \in Nat /\ s.preauth \in Nat /\ s.spent \in Nat
      /\ s.closed_lots \in Seq(CollateralLot) /\ A \in Nat
  BY <1>1, SideFields, ConstantsAssumption
<1>4. LotsOf(s) = ToSet(s.open_lots \o s.closed_lots) /\ LotsOf(s) \subseteq CollateralLot
      /\ \A x, y \in LotsOf(s) : x.seq_num = y.seq_num => x = y
  BY <1>1, <1>2, LotsOfFacts
<1>5. Deposited(s) = {x.seq_num : x \in LotsOf(s)}
  BY DEF Deposited, SeqNumsOf, LotsOf
<1>6. CASE d \in Deposited(s)
  <2>1. r = s
    BY <1>4, <1>5, <1>6 DEF OpenLot
  <2>2. FollowsOwn(s, s)
    <3> SUFFICES ASSUME NEW x \in LotsOf(s), NEW y \in LotsOf(s), x.seq_num = y.seq_num, NEW o \in Orders
                 PROVE  x.spends[o].spent <= y.spends[o].spent + y.spends[o].preauth
      BY DEF FollowsOwn, SpentOwn
    <3>1. x = y /\ y \in CollateralLot /\ o \in PaymentIds
      BY <1>4, PaymentsFinite
    <3>2. y.spends[o].spent \in Nat /\ y.spends[o].preauth \in Nat
      BY <3>1, LotFields
    <3> QED  BY <3>1, <3>2
  <2> QED  BY <1>3, <1>6, <2>1, <2>2
<1>7. CASE d \notin Deposited(s)
  <2>1. r = [s EXCEPT !.unconfirmed = s.unconfirmed + A, !.open_lots = new]
    BY <1>1, <1>4, <1>5, <1>7 DEF OpenLot, CollateralSide
  <2> HIDE DEF r
  <2>2. lot \in CollateralLot
    BY <1>3 DEF CollateralLot, NoSpends
  <2>3. /\ lot.seq_num = d /\ lot.unconfirmed = A /\ lot.ready = 0 /\ lot.preauth = 0
        /\ lot.spent = 0 /\ \A p \in PaymentIds : lot.spends[p].preauth = 0 /\ lot.spends[p].spent = 0
    BY DEF NoSpends
  <2>4. LotSound(lot)
    <3>1. IsFiniteSet(PaymentIds)
      BY PaymentsFinite
    <3>2. /\ DOMAIN [p \in PaymentIds |-> lot.spends[p].preauth] = PaymentIds
          /\ \A p \in PaymentIds : [q \in PaymentIds |-> lot.spends[q].preauth][p] = 0
      BY <2>3
    <3>3. /\ DOMAIN [p \in PaymentIds |-> lot.spends[p].spent] = PaymentIds
          /\ \A p \in PaymentIds : [q \in PaymentIds |-> lot.spends[q].spent][p] = 0
      BY <2>3
    <3>4. Total([p \in PaymentIds |-> lot.spends[p].preauth]) = 0
      BY <3>1, <3>2, SumZero DEF Total
    <3>5. Total([p \in PaymentIds |-> lot.spends[p].spent]) = 0
      BY <3>1, <3>3, SumZero DEF Total
    <3> QED  BY <2>3, <3>4, <3>5 DEF LotSound
  <2> HIDE DEF lot
  <2>5. /\ new \in Seq(CollateralLot) /\ Len(new) = n + 1 /\ new[n + 1] = lot
        /\ \A i \in 1 .. n : new[i] = lots[i]
    BY <1>1, <2>2, AppendProperties
  <2>6. DOMAIN new = 1 .. n + 1 /\ (\A i \in 1 .. n + 1 : i \in 1 .. n \/ i = n + 1)
        /\ (\A i \in 1 .. n : i \in 1 .. n + 1 /\ i # n + 1) /\ n + 1 \in 1 .. n + 1
    BY <1>1, <2>5, LenProperties
  <2> HIDE DEF new, n, A
  <2>7. /\ r.unconfirmed = s.unconfirmed + A /\ r.ready = s.ready /\ r.preauth = s.preauth
        /\ r.spent = s.spent /\ r.open_lots = new /\ r.closed_lots = s.closed_lots
        /\ r \in CollateralSide
    <3>1. s.unconfirmed + A \in Nat
      BY <1>3
    <3> QED  BY <1>1, <2>1, <2>5, <3>1 DEF CollateralSide
  <2>8. /\ Total(Unconfirmed(new)) = Total(Unconfirmed(lots)) + A
        /\ Total(Ready(new)) = Total(Ready(lots)) /\ Total(Preauth(new)) = Total(Preauth(lots))
        /\ Total(SpentIn(new)) = Total(SpentIn(lots))
    <3>1. /\ Total(Unconfirmed(new)) = Total(Unconfirmed(lots)) + lot.unconfirmed
          /\ Total(Ready(new)) = Total(Ready(lots)) + lot.ready
          /\ Total(Preauth(new)) = Total(Preauth(lots)) + lot.preauth
          /\ Total(SpentIn(new)) = Total(SpentIn(lots)) + lot.spent
      BY <1>1, <2>2, AppendedTotals DEF new
    <3>2. Total(Ready(lots)) \in Nat /\ Total(Preauth(lots)) \in Nat /\ Total(SpentIn(lots)) \in Nat
      BY <1>1, LotsTotals
    <3> QED  BY <2>3, <3>1, <3>2
  <2>9. ASSUME NEW p \in PaymentIds PROVE AuthorisedFor(r, p) = AuthorisedFor(s, p)
    <3>1. Total(Authorised(new, p)) = Total(Authorised(lots, p)) + lot.spends[p].preauth
      BY <1>1, <2>2, AppendedTotals DEF new
    <3>2. AuthorisedFor(s, p) \in Nat
      BY AuthorisedNat
    <3> QED  BY <2>3, <2>7, <3>1, <3>2 DEF AuthorisedFor
  <2>10. LotsOf(r) = LotsOf(s) \cup {lot}
    <3>1. {new[i] : i \in DOMAIN new} = {lots[i] : i \in DOMAIN lots} \cup {lot}
      BY <1>1, <2>5, <2>6
    <3> QED  BY <2>7, <3>1 DEF LotsOf
  <2>11. Deposited(r) = Deposited(s) \cup {d}
    <3>1. Deposited(r) = {x.seq_num : x \in LotsOf(r)}
      BY DEF Deposited, SeqNumsOf, LotsOf
    <3> QED  BY <1>5, <2>3, <2>10, <3>1
  <2>12. \A x \in LotsOf(s) : x.seq_num # d
    BY <1>5, <1>7
  <2>13. FollowsOwn(r, s)
    <3> SUFFICES ASSUME NEW x \in LotsOf(r), NEW y \in LotsOf(s), x.seq_num = y.seq_num, NEW o \in Orders
                 PROVE  x.spends[o].spent <= y.spends[o].spent + y.spends[o].preauth
      BY DEF FollowsOwn, SpentOwn
    <3>1. x \in LotsOf(s)
      BY <2>3, <2>10, <2>12
    <3>2. x = y /\ y \in CollateralLot /\ o \in PaymentIds
      BY <1>4, <3>1, PaymentsFinite
    <3>3. y.spends[o].spent \in Nat /\ y.spends[o].preauth \in Nat
      BY <3>2, LotFields
    <3> QED  BY <3>2, <3>3
  <2>14. Apart(r)
    <3>1. \A i \in 1 .. n : lots[i].seq_num # d
      BY <1>1, <2>12 DEF LotsOf
    <3>2. \A j \in DOMAIN s.closed_lots : s.closed_lots[j].seq_num # d
      BY <2>12 DEF LotsOf
    <3>3. ASSUME NEW i \in 1 .. n + 1, NEW j \in 1 .. n + 1, new[i].seq_num = new[j].seq_num
          PROVE  i = j
      BY <1>1, <1>2, <2>3, <2>5, <2>6, <3>1, <3>3 DEF Apart
    <3>4. ASSUME NEW i \in 1 .. n + 1, NEW j \in DOMAIN s.closed_lots
          PROVE  new[i].seq_num # s.closed_lots[j].seq_num
      BY <1>1, <1>2, <2>3, <2>5, <2>6, <3>2 DEF Apart
    <3> QED  BY <1>2, <2>6, <2>7, <3>3, <3>4 DEF Apart
  <2>15. SideSound(r)
    <3>1. \A i \in DOMAIN new : LotSound(new[i])
      BY <1>1, <2>4, <2>5, <2>6
    <3>2. /\ r.unconfirmed = Total(Unconfirmed(r.open_lots)) /\ r.ready = Total(Ready(r.open_lots))
          /\ r.preauth = Total(Preauth(r.open_lots))
          /\ r.spent = Total(SpentIn(r.open_lots)) + Total(SpentIn(r.closed_lots))
      BY <1>2, <2>7, <2>8
    <3>3. \A i \in DOMAIN r.open_lots : LotSound(r.open_lots[i])
      BY <2>7, <3>1
    <3>4. \A i \in DOMAIN r.closed_lots : LotSound(r.closed_lots[i]) /\ Over(r.closed_lots[i])
      BY <1>2, <2>7
    <3> QED  BY <2>7, <2>14, <3>2, <3>3, <3>4 DEF SideSound
  <2>16. r.unconfirmed = s.unconfirmed + (IF d \in Deposited(s) THEN 0 ELSE DepositAmount[d])
    BY <1>7, <2>7 DEF A
  <2>17. r.ready = s.ready /\ r.preauth = s.preauth /\ r.spent = s.spent
    BY <2>7
  <2> QED  BY <2>9, <2>11, <2>13, <2>15, <2>16, <2>17 DEF r
<1> QED  BY <1>6, <1>7

-----------------------------------------------------------------------------
(* The events that wait for the solver.                                    *)

\* The fields of a CollateralEvent.
LEMMA EventFields ==
    ASSUME NEW e \in Event
    PROVE  /\ e.order \in Orders /\ Promise(e) \in Nat
           /\ e.type \in {"CollateralReady", "PreAuthResponse", "ConfirmResponse"}
           /\ e.type = "CollateralReady" =>
                 e.status \in {"Ready", "NotReady", "CheckLater"} /\ e.amount \in Nat
           /\ e.type = "ConfirmResponse" => e.seq_nums \in Seq(Deposits)
  BY DEF Event, Promise

\* Events by their places, and what they promise.
LEMMA EventsFacts ==
    ASSUME NEW evs \in Seq(Event)
    PROVE  LET n == Len(evs)
               f == [i \in DOMAIN evs |-> Promise(evs[i])]
           IN  /\ n \in Nat /\ DOMAIN evs = 1 .. n /\ \A i \in 1 .. n : evs[i] \in Event
               /\ f \in [1 .. n -> Nat] /\ \A i \in 1 .. n : f[i] = Promise(evs[i])
               /\ Promised(evs) \in Nat
<1> DEFINE n == Len(evs)
           f == [i \in DOMAIN evs |-> Promise(evs[i])]
<1>1. n \in Nat /\ DOMAIN evs = 1 .. n /\ \A i \in 1 .. n : evs[i] \in Event
  BY LenProperties, ElementOfSeq
<1>2. \A i \in 1 .. n : Promise(evs[i]) \in Nat
  BY <1>1, EventFields
<1>3. f \in [1 .. n -> Nat] /\ \A i \in 1 .. n : f[i] = Promise(evs[i])
  BY <1>1, <1>2
<1>4. Promised(evs) = Total(f)
  BY DEF Promised
<1> HIDE DEF f, n
<1>5. Held(f, f, f, n)
  BY <1>1, <1>3 DEF Held
<1>6. Total(f) \in Nat
  BY <1>5, HeldMoved
<1> QED  BY <1>1, <1>3, <1>4, <1>6 DEF f, n

\* An event is sent: what the events announce, answer and promise.
LEMMA EventsAppend ==
    ASSUME NEW evs \in Seq(Event), NEW e \in Event
    PROVE  LET u == Append(evs, e)
               new == IF e.type = "CollateralReady" THEN {e.order} ELSE {}
               late == IF e.type = "CollateralReady" THEN {} ELSE {e.order}
           IN  /\ u \in Seq(Event)
               /\ RoutedIn(u) = RoutedIn(evs) \cup new /\ AnsweredIn(u) = AnsweredIn(evs) \cup late
               /\ Once(evs) /\ RoutedIn(evs) \cap new = {} => Once(u)
               /\ Promised(u) = Promised(evs) + Promise(e)
<1> DEFINE u == Append(evs, e)
           n == Len(evs)
           f == [i \in DOMAIN evs |-> Promise(evs[i])]
           g == [i \in DOMAIN u |-> Promise(u[i])]
           new == IF e.type = "CollateralReady" THEN {e.order} ELSE {}
           late == IF e.type = "CollateralReady" THEN {} ELSE {e.order}
<1>1. /\ u \in Seq(Event) /\ Len(u) = n + 1 /\ u[n + 1] = e /\ \A i \in 1 .. n : u[i] = evs[i]
  BY AppendProperties
<1>2. n \in Nat /\ DOMAIN evs = 1 .. n /\ f \in [1 .. n -> Nat] /\ \A i \in 1 .. n : f[i] = Promise(evs[i])
  BY EventsFacts
<1>3. DOMAIN u = 1 .. n + 1 /\ g \in [1 .. n + 1 -> Nat] /\ \A i \in 1 .. n + 1 : g[i] = Promise(u[i])
  BY <1>1, EventsFacts
<1>4. Promised(evs) = Total(f) /\ Promised(u) = Total(g)
  BY DEF Promised
<1> HIDE DEF u, n, f, g
<1>5. (\A i \in 1 .. n : i \in 1 .. n + 1 /\ i # n + 1) /\ n + 1 \in 1 .. n + 1
      /\ \A i \in 1 .. n + 1 : i \in 1 .. n \/ i = n + 1
  BY <1>2
<1>6. Appended(f, g, Promise(e), n)
  BY <1>1, <1>2, <1>3, <1>5 DEF Appended
<1>7. Promised(u) = Promised(evs) + Promise(e)
  BY <1>4, <1>6, AppendedTotal
<1>8. RoutedIn(u) = RoutedIn(evs) \cup new
  <2>1. ASSUME NEW o \in RoutedIn(u) PROVE o \in RoutedIn(evs) \cup new
    <3>1. PICK i \in 1 .. n + 1 : u[i].type = "CollateralReady" /\ o = u[i].order
      BY <1>3 DEF RoutedIn
    <3> QED  BY <1>1, <1>2, <1>5, <3>1 DEF RoutedIn
  <2>2. ASSUME NEW o \in RoutedIn(evs) PROVE o \in RoutedIn(u)
    <3>1. PICK i \in 1 .. n : evs[i].type = "CollateralReady" /\ o = evs[i].order
      BY <1>2 DEF RoutedIn
    <3>2. i \in DOMAIN u /\ u[i] = evs[i]
      BY <1>1, <1>3, <1>5
    <3> QED  BY <3>1, <3>2 DEF RoutedIn
  <2>3. ASSUME NEW o \in new PROVE o \in RoutedIn(u)
    BY <1>1, <1>3, <1>5 DEF RoutedIn
  <2> QED  BY <2>1, <2>2, <2>3
<1>9. AnsweredIn(u) = AnsweredIn(evs) \cup late
  <2>1. ASSUME NEW o \in AnsweredIn(u) PROVE o \in AnsweredIn(evs) \cup late
    <3>1. PICK i \in 1 .. n + 1 : u[i].type # "CollateralReady" /\ o = u[i].order
      BY <1>3 DEF AnsweredIn
    <3> QED  BY <1>1, <1>2, <1>5, <3>1 DEF AnsweredIn
  <2>2. ASSUME NEW o \in AnsweredIn(evs) PROVE o \in AnsweredIn(u)
    <3>1. PICK i \in 1 .. n : evs[i].type # "CollateralReady" /\ o = evs[i].order
      BY <1>2 DEF AnsweredIn
    <3>2. i \in DOMAIN u /\ u[i] = evs[i]
      BY <1>1, <1>3, <1>5
    <3> QED  BY <3>1, <3>2 DEF AnsweredIn
  <2>3. ASSUME NEW o \in late PROVE o \in AnsweredIn(u)
    BY <1>1, <1>3, <1>5 DEF AnsweredIn
  <2> QED  BY <2>1, <2>2, <2>3
<1>10. ASSUME Once(evs), RoutedIn(evs) \cap new = {} PROVE Once(u)
  <2> SUFFICES ASSUME NEW i \in 1 .. n + 1, NEW j \in 1 .. n + 1,
                      u[i].type = "CollateralReady", u[j].type = "CollateralReady",
                      u[i].order = u[j].order
               PROVE  i = j
    BY <1>3 DEF Once
  <2>1. CASE i \in 1 .. n /\ j \in 1 .. n
    BY <1>1, <1>2, <1>10, <2>1 DEF Once
  <2>2. CASE i \in 1 .. n /\ j = n + 1
    <3>1. u[i].order \in RoutedIn(evs) /\ u[i].order \in new
      BY <1>1, <1>2, <2>2 DEF RoutedIn
    <3> QED  BY <1>10, <3>1
  <2>3. CASE i = n + 1 /\ j \in 1 .. n
    <3>1. u[j].order \in RoutedIn(evs) /\ u[j].order \in new
      BY <1>1, <1>2, <2>3 DEF RoutedIn
    <3> QED  BY <1>10, <3>1
  <2> QED  BY <1>5, <2>1, <2>2, <2>3
<1> QED  BY <1>1, <1>7, <1>8, <1>9, <1>10 DEF u

\* The first event is taken.
LEMMA EventsTail ==
    ASSUME NEW evs \in Seq(Event), evs # <<>>
    PROVE  LET u == Tail(evs)
               e == Head(evs)
           IN  /\ e \in Event /\ u \in Seq(Event)
               /\ RoutedIn(u) \subseteq RoutedIn(evs) /\ AnsweredIn(u) \subseteq AnsweredIn(evs)
               /\ e.type = "CollateralReady" => e.order \in RoutedIn(evs)
               /\ e.type # "CollateralReady" => e.order \in AnsweredIn(evs)
               /\ Once(evs) => /\ Once(u)
                               /\ e.type = "CollateralReady" => e.order \notin RoutedIn(u)
               /\ Promised(evs) = Promise(e) + Promised(u)
<1> DEFINE u == Tail(evs)
           e == Head(evs)
           n == Len(u)
           f == [i \in DOMAIN evs |-> Promise(evs[i])]
           g == [i \in DOMAIN u |-> Promise(u[i])]
<1>1. u \in Seq(Event) /\ e = evs[1] /\ Len(evs) = n + 1 /\ \A i \in 1 .. n : u[i] = evs[i + 1]
  <2>1. u \in Seq(Event) /\ Len(u) = Len(evs) - 1 /\ \A i \in 1 .. Len(u) : u[i] = evs[i + 1]
    BY HeadTailProperties
  <2>2. e = evs[1] /\ Len(evs) \in Nat
    BY LenProperties
  <2> QED  BY <2>1, <2>2
<1>2. n \in Nat /\ DOMAIN u = 1 .. n /\ g \in [1 .. n -> Nat] /\ \A i \in 1 .. n : g[i] = Promise(u[i])
  BY <1>1, EventsFacts
<1>3. /\ DOMAIN evs = 1 .. n + 1 /\ f \in [1 .. n + 1 -> Nat]
      /\ \A i \in 1 .. n + 1 : f[i] = Promise(evs[i]) /\ evs[i] \in Event
  BY <1>1, EventsFacts
<1>4. Promised(evs) = Total(f) /\ Promised(u) = Total(g)
  BY DEF Promised
<1> HIDE DEF u, e, n, f, g
<1>5. 1 \in 1 .. n + 1 /\ \A i \in 1 .. n : i + 1 \in 1 .. n + 1 /\ i + 1 # 1
  BY <1>2
<1>6. Promised(evs) = Promise(e) + Promised(u)
  <2>1. (\A i \in 1 .. n + 1 : f[i] \in Int) /\ f[1] = Promise(e)
    BY <1>1, <1>3, <1>5
  <2>2. \A i \in 1 .. n : g[i] = f[i + 1]
    BY <1>1, <1>2, <1>3, <1>5
  <2>3. SumFunctionOnSet(f, 1 .. n + 1) = f[1] + SumFunctionOnSet(g, 1 .. n)
    BY <1>2, <2>1, <2>2, SumFirst
  <2>4. DOMAIN f = 1 .. n + 1 /\ DOMAIN g = 1 .. n
    BY <1>2, <1>3
  <2> QED  BY <1>4, <2>1, <2>3, <2>4 DEF Total
<1>7. e \in Event
  BY <1>1, <1>3, <1>5
<1>8. RoutedIn(u) \subseteq RoutedIn(evs)
  <2> SUFFICES ASSUME NEW o \in RoutedIn(u) PROVE o \in RoutedIn(evs)
    OBVIOUS
  <2>1. PICK i \in 1 .. n : u[i].type = "CollateralReady" /\ o = u[i].order
    BY <1>2 DEF RoutedIn
  <2>2. i + 1 \in DOMAIN evs /\ u[i] = evs[i + 1]
    BY <1>1, <1>3, <1>5
  <2> QED  BY <2>1, <2>2 DEF RoutedIn
<1>9. AnsweredIn(u) \subseteq AnsweredIn(evs)
  <2> SUFFICES ASSUME NEW o \in AnsweredIn(u) PROVE o \in AnsweredIn(evs)
    OBVIOUS
  <2>1. PICK i \in 1 .. n : u[i].type # "CollateralReady" /\ o = u[i].order
    BY <1>2 DEF AnsweredIn
  <2>2. i + 1 \in DOMAIN evs /\ u[i] = evs[i + 1]
    BY <1>1, <1>3, <1>5
  <2> QED  BY <2>1, <2>2 DEF AnsweredIn
<1>10. e.type = "CollateralReady" => e.order \in RoutedIn(evs)
  BY <1>1, <1>3, <1>5 DEF RoutedIn
<1>11. e.type # "CollateralReady" => e.order \in AnsweredIn(evs)
  BY <1>1, <1>3, <1>5 DEF AnsweredIn
<1>12. ASSUME Once(evs) PROVE Once(u)
  <2> SUFFICES ASSUME NEW i \in 1 .. n, NEW j \in 1 .. n,
                      u[i].type = "CollateralReady", u[j].type = "CollateralReady",
                      u[i].order = u[j].order
               PROVE  i = j
    BY <1>2 DEF Once
  <2>1. /\ i + 1 \in DOMAIN evs /\ j + 1 \in DOMAIN evs
        /\ u[i] = evs[i + 1] /\ u[j] = evs[j + 1]
    BY <1>1, <1>3, <1>5
  <2>2. i + 1 = j + 1
    BY <1>12, <2>1 DEF Once
  <2> QED  BY <2>2
<1>13. ASSUME Once(evs), e.type = "CollateralReady" PROVE e.order \notin RoutedIn(u)
  <2> SUFFICES ASSUME NEW i \in 1 .. n, u[i].type = "CollateralReady", u[i].order = e.order PROVE FALSE
    BY <1>2 DEF RoutedIn
  <2>1. i + 1 = 1
    BY <1>1, <1>3, <1>5, <1>13 DEF Once
  <2> QED  BY <1>5, <2>1
<1> QED  BY <1>1, <1>6, <1>7, <1>8, <1>9, <1>10, <1>11, <1>12, <1>13 DEF u, e

\* Several events are sent (process_collateral).
LEMMA EventsBehind ==
    ASSUME NEW evs \in Seq(Event), NEW u \in Seq(Event)
    PROVE  LET w == evs \o u
           IN  /\ w \in Seq(Event)
               /\ RoutedIn(w) = RoutedIn(evs) \cup RoutedIn(u)
               /\ AnsweredIn(w) = AnsweredIn(evs) \cup AnsweredIn(u)
               /\ Once(evs) /\ Once(u) /\ RoutedIn(evs) \cap RoutedIn(u) = {} => Once(w)
               /\ Promised(w) = Promised(evs) + Promised(u)
<1> DEFINE w == evs \o u
           m == Len(evs)
           n == Len(u)
           f == [i \in DOMAIN evs |-> Promise(evs[i])]
           g == [i \in DOMAIN u |-> Promise(u[i])]
           h == [i \in DOMAIN w |-> Promise(w[i])]
<1>1. /\ m \in Nat /\ n \in Nat /\ w \in Seq(Event) /\ Len(w) = m + n /\ DOMAIN w = 1 .. m + n
      /\ \A i \in 1 .. m : w[i] = evs[i] /\ i \in 1 .. m + n
      /\ \A i \in 1 .. n : w[m + i] = u[i] /\ m + i \in 1 .. m + n
      /\ \A i \in 1 .. m + n : i \in 1 .. m \/ (i - m \in 1 .. n /\ i = m + (i - m))
  BY ConcatPlaces
<1>2. DOMAIN evs = 1 .. m /\ f \in [1 .. m -> Nat] /\ \A i \in 1 .. m : f[i] = Promise(evs[i])
  BY EventsFacts
<1>3. DOMAIN u = 1 .. n /\ g \in [1 .. n -> Nat] /\ \A i \in 1 .. n : g[i] = Promise(u[i])
  BY EventsFacts
<1>4. \A i \in 1 .. m + n : h[i] = Promise(w[i])
  BY <1>1
<1>5. DOMAIN h = 1 .. m + n
  BY <1>1
<1>6. Promised(evs) = Total(f) /\ Promised(u) = Total(g) /\ Promised(w) = Total(h)
  BY DEF Promised
<1> HIDE DEF w, m, n, f, g, h
<1>7. Promised(w) = Promised(evs) + Promised(u)
  <2>1. ASSUME NEW i \in 1 .. m PROVE f[i] \in Int /\ h[i] = f[i]
    BY <1>1, <1>2, <1>4
  <2>2. ASSUME NEW i \in 1 .. n PROVE g[i] \in Int /\ h[m + i] = g[i]
    BY <1>1, <1>3, <1>4
  <2>3. DOMAIN f = 1 .. m /\ DOMAIN g = 1 .. n
    BY <1>2, <1>3
  <2>4. /\ \A i \in 1 .. m : f[i] \in Int /\ h[i] = f[i]
        /\ \A i \in 1 .. n : g[i] \in Int /\ h[m + i] = g[i]
    BY <2>1, <2>2
  <2>5. m \in Nat /\ n \in Nat
    BY <1>1
  <2>6. DOMAIN f = 1 .. m /\ DOMAIN g = 1 .. n /\ DOMAIN h = 1 .. m + n
    BY <1>5, <2>3
  <2>7. Joined(f, g, h, m, n)
    BY <2>4, <2>5, <2>6 DEF Joined
  <2>8. Total(h) = Total(f) + Total(g)
    BY <2>7, TotalBehind
  <2> QED  BY <1>6, <2>8
\* The events of w are those of evs and those of u.
<1>8. \A k \in DOMAIN w : (\E i \in DOMAIN evs : k = i /\ w[k] = evs[i])
                          \/ \E i \in DOMAIN u : k = m + i /\ w[k] = u[i]
  <2> SUFFICES ASSUME NEW k \in 1 .. m + n
               PROVE  (\E i \in DOMAIN evs : k = i /\ w[k] = evs[i])
                      \/ \E i \in DOMAIN u : k = m + i /\ w[k] = u[i]
    BY <1>1
  <2>1. CASE k \in 1 .. m
    BY <1>1, <1>2, <2>1
  <2>2. CASE k - m \in 1 .. n /\ k = m + (k - m)
    <3>1. w[m + (k - m)] = u[k - m]
      BY <1>1, <2>2
    <3>2. w[k] = u[k - m]
      BY <2>2, <3>1
    <3> QED  BY <1>3, <2>2, <3>2
  <2> QED  BY <1>1, <2>1, <2>2
<1>9. /\ \A i \in DOMAIN evs : i \in DOMAIN w /\ w[i] = evs[i]
      /\ \A i \in DOMAIN u : m + i \in DOMAIN w /\ w[m + i] = u[i]
  BY <1>1, <1>2, <1>3
<1>10. RoutedIn(w) = RoutedIn(evs) \cup RoutedIn(u)
  <2>1. ASSUME NEW o \in RoutedIn(w) PROVE o \in RoutedIn(evs) \cup RoutedIn(u)
    BY <1>8 DEF RoutedIn
  <2>2. ASSUME NEW o \in RoutedIn(evs) \cup RoutedIn(u) PROVE o \in RoutedIn(w)
    BY <1>9 DEF RoutedIn
  <2> QED  BY <2>1, <2>2
<1>11. AnsweredIn(w) = AnsweredIn(evs) \cup AnsweredIn(u)
  <2>1. ASSUME NEW o \in AnsweredIn(w) PROVE o \in AnsweredIn(evs) \cup AnsweredIn(u)
    BY <1>8 DEF AnsweredIn
  <2>2. ASSUME NEW o \in AnsweredIn(evs) \cup AnsweredIn(u) PROVE o \in AnsweredIn(w)
    BY <1>9 DEF AnsweredIn
  <2> QED  BY <2>1, <2>2
<1>12. ASSUME Once(evs), Once(u), RoutedIn(evs) \cap RoutedIn(u) = {} PROVE Once(w)
  <2> SUFFICES ASSUME NEW j \in DOMAIN w, NEW k \in DOMAIN w,
                      w[j].type = "CollateralReady", w[k].type = "CollateralReady",
                      w[j].order = w[k].order
               PROVE  j = k
    BY DEF Once
  <2>1. CASE (\E i \in DOMAIN evs : j = i /\ w[j] = evs[i])
             /\ \E i \in DOMAIN evs : k = i /\ w[k] = evs[i]
    BY <1>12, <2>1 DEF Once
  <2>2. CASE (\E i \in DOMAIN u : j = m + i /\ w[j] = u[i])
             /\ \E i \in DOMAIN u : k = m + i /\ w[k] = u[i]
    BY <1>12, <2>2 DEF Once
  <2>3. CASE (\E i \in DOMAIN evs : j = i /\ w[j] = evs[i])
             /\ \E i \in DOMAIN u : k = m + i /\ w[k] = u[i]
    <3>1. w[j].order \in RoutedIn(evs) /\ w[k].order \in RoutedIn(u)
      BY <2>3 DEF RoutedIn
    <3> QED  BY <1>12, <3>1
  <2>4. CASE (\E i \in DOMAIN u : j = m + i /\ w[j] = u[i])
             /\ \E i \in DOMAIN evs : k = i /\ w[k] = evs[i]
    <3>1. w[k].order \in RoutedIn(evs) /\ w[j].order \in RoutedIn(u)
      BY <2>4 DEF RoutedIn
    <3> QED  BY <1>12, <3>1
  <2> QED  BY <1>8, <2>1, <2>2, <2>3, <2>4
<1> QED  BY <1>1, <1>7, <1>10, <1>11, <1>12 DEF w

\* Each request that is answered is answered once, and nothing is promised.
LEMMA AnswersFacts ==
    ASSUME NEW os \in SUBSET Orders, NEW status \in {"CheckLater", "NotReady"}
    PROVE  LET u == Answers(os, status)
           IN  /\ u \in Seq(Event) /\ RoutedIn(u) \subseteq os /\ AnsweredIn(u) = {}
               /\ Once(u) /\ Promised(u) = 0
<1> DEFINE places == {i \in DOMAIN OrderIds : OrderIds[i] \in os}
           v == InOrder(os)
           n == Len(v)
           u == Answers(os, status)
<1>1. OrderIds \in Seq(Orders) /\ \A i, j \in DOMAIN OrderIds : OrderIds[i] = OrderIds[j] => i = j
  BY ConstantsAssumption
<1>2. v \in Seq(Orders) /\ PickedRight(v, OrderIds, places)
  <2>1. places \subseteq DOMAIN OrderIds
    OBVIOUS
  <2>2. v = Picked(OrderIds, places)
    BY DEF InOrder
  <2> HIDE DEF places, v
  <2> QED  BY <1>1, <2>1, <2>2, PickedFacts
<1>3. n \in Nat /\ DOMAIN v = 1 .. n /\ \A i \in 1 .. n : v[i] \in Orders
  BY <1>2, LenProperties, ElementOfSeq
<1>4. (\A i \in 1 .. n : v[i] \in os) /\ \A i, j \in 1 .. n : v[i] = v[j] => i = j
  <2>1. PICK at \in [1 .. Len(v) -> places] :
          /\ \A j, k \in 1 .. Len(v) : at[j] = at[k] => j = k
          /\ \A i \in places : \E k \in 1 .. Len(v) : at[k] = i
          /\ \A k \in 1 .. Len(v) : v[k] = OrderIds[at[k]]
    BY <1>2 DEF PickedRight
  <2>2. \A k \in 1 .. n : at[k] \in DOMAIN OrderIds /\ OrderIds[at[k]] \in os /\ v[k] = OrderIds[at[k]]
    BY <2>1
  <2> QED  BY <1>1, <2>1, <2>2
<1>5. /\ DOMAIN u = 1 .. n
      /\ \A i \in 1 .. n : u[i] = CollateralReady(v[i], status, OrderAmount[v[i]])
      /\ u = [i \in 1 .. n |-> u[i]]
  BY <1>3 DEF Answers
<1> HIDE DEF u, v, n, places
<1>6. ASSUME NEW i \in 1 .. n
      PROVE  /\ u[i] \in Event /\ u[i].type = "CollateralReady" /\ u[i].order = v[i]
             /\ Promise(u[i]) = 0
  <2>1. v[i] \in Orders /\ OrderAmount[v[i]] \in Nat
    BY <1>3, ConstantsAssumption
  <2>2. u[i] = CollateralReady(v[i], status, OrderAmount[v[i]])
    BY <1>5
  <2>3. u[i] \in Event
    BY <2>1, <2>2 DEF CollateralReady, Event
  <2> QED  BY <2>2, <2>3 DEF CollateralReady, Promise
<1>7. u \in Seq(Event)
  <2>1. u \in [1 .. n -> Event]
    BY <1>5, <1>6
  <2> QED  BY <1>3, <2>1, SeqDef
<1>8. RoutedIn(u) \subseteq os /\ AnsweredIn(u) = {}
  BY <1>4, <1>5, <1>6 DEF RoutedIn, AnsweredIn
<1>9. Once(u)
  BY <1>4, <1>5, <1>6 DEF Once
<1>10. Promised(u) = 0
  <2> DEFINE f == [i \in DOMAIN u |-> Promise(u[i])]
  <2>1. DOMAIN f = 1 .. n /\ \A i \in 1 .. n : f[i] = 0 /\ f[i] \in Int
    BY <1>5, <1>6
  <2>2. Promised(u) = Total(f)
    BY DEF Promised
  <2> HIDE DEF f
  <2>3. Total(f) = 0
    BY <1>3, <2>1, TotalFacts
  <2> QED  BY <2>2, <2>3
<1> QED  BY <1>7, <1>8, <1>9, <1>10 DEF u

-----------------------------------------------------------------------------
(* What bookings settle.                                                   *)

\* The balances are numbers.
LEMMA BalanceFields ==
    ASSUME NEW s, SideSound(s)
    PROVE  s.unconfirmed \in Nat /\ s.ready \in Nat /\ s.preauth \in Nat /\ s.spent \in Nat
  BY SideFields DEF SideSound

\* No payment has authorised more than all payments have.
LEMMA AuthorisedWithin ==
    ASSUME NEW s, SideSound(s), NEW p \in PaymentIds
    PROVE  AuthorisedFor(s, p) <= s.preauth
<1> DEFINE D == 1 .. Len(s.open_lots)
           f == Authorised(s.open_lots, p)
           g == Preauth(s.open_lots)
<1>1. /\ Len(s.open_lots) \in Nat /\ s.open_lots \in Seq(CollateralLot)
      /\ \A i \in D : s.open_lots[i] \in CollateralLot /\ LotSound(s.open_lots[i])
  BY OpenLots
<1>2. DOMAIN f = D /\ \A i \in D : f[i] = s.open_lots[i].spends[p].preauth
  BY <1>1, AuthorisedFacts
<1>3. DOMAIN g = D /\ \A i \in D : g[i] = s.open_lots[i].preauth
  BY <1>1, HeldFacts
<1>4. IsFiniteSet(D)
  BY <1>1, FS_Interval
<1>5. s.preauth = Total(g) /\ AuthorisedFor(s, p) = Total(f)
  BY DEF SideSound, AuthorisedFor
<1> HIDE DEF D, f, g
<1>6. \A i \in D : f[i] \in Int /\ g[i] \in Int /\ f[i] <= g[i]
  <2> SUFFICES ASSUME NEW i \in D PROVE f[i] \in Int /\ g[i] \in Int /\ f[i] <= g[i]
    OBVIOUS
  <2>1. s.open_lots[i] \in CollateralLot /\ LotSound(s.open_lots[i])
    BY <1>1
  <2>2. s.open_lots[i].spends[p].preauth \in Nat /\ s.open_lots[i].preauth \in Nat
        /\ s.open_lots[i].spends[p].preauth <= s.open_lots[i].preauth
    BY <2>1, SpendWithin, LotFields
  <2> QED  BY <1>2, <1>3, <2>2
<1>7. SumFunctionOnSet(f, D) <= SumFunctionOnSet(g, D)
  BY <1>4, <1>6, SumMonotone
<1> QED  BY <1>2, <1>3, <1>5, <1>7 DEF Total

\* What was deposited and what is authorised stays; orders keep what they spent.
Settles(r, s) ==
    /\ SideSound(r) /\ Deposited(r) = Deposited(s) /\ Balance(r) = Balance(s)
    /\ \A p \in PaymentIds : AuthorisedFor(r, p) = AuthorisedFor(s, p)
    /\ Follows(r, s, Orders)

\* Nothing is booked.
LEMMA SettlesSelf ==
    ASSUME NEW s, SideSound(s)
    PROVE  Settles(s, s)
  BY DEF Settles, Follows

\* One booking after the other.
LEMMA SettlesChain ==
    ASSUME NEW a, NEW b, NEW c, Settles(b, a), Settles(c, b)
    PROVE  Settles(c, a)
<1>1. Follows(c, a, Orders)
  BY FollowsChain DEF Settles
<1> QED  BY <1>1 DEF Settles

\* add_ready books within what was deposited.
LEMMA AddReadySettles ==
    ASSUME NEW s, SideSound(s), NEW amount \in Nat, amount <= s.unconfirmed
    PROVE  LET r == AddReady(s, amount)
           IN  /\ Settles(r, s)
               /\ r.unconfirmed = s.unconfirmed - amount /\ r.ready = s.ready + amount
<1> DEFINE r == AddReady(s, amount)
<1>1. /\ SideSound(r) /\ Deposited(r) = Deposited(s) /\ Follows(r, s, PaymentIds)
      /\ r.unconfirmed = s.unconfirmed - amount /\ r.ready = s.ready + amount
      /\ r.preauth = s.preauth /\ r.spent = s.spent
      /\ \A p \in PaymentIds : AuthorisedFor(r, p) = AuthorisedFor(s, p)
  BY AddReadySound
<1> HIDE DEF r
<1>2. Balance(r) = Balance(s)
  BY <1>1, BalanceFields DEF Balance
<1>3. Follows(r, s, Orders)
  BY <1>1, FollowsLess, PaymentsFinite
<1> QED  BY <1>1, <1>2, <1>3 DEF r, Settles

\* What is not confirmed is confirmed, set aside and spent at once (close_all_lots, book_records).
LEMMA PaySettles ==
    ASSUME NEW s, SideSound(s), NEW p \in PaymentIds \ Orders, AuthorisedFor(s, p) = 0,
           NEW amount \in Nat, amount <= s.unconfirmed
    PROVE  Settles(Pay(s, p, amount), s) /\ Pay(s, p, amount).ready = s.ready
<1> DEFINE r == Pay(s, p, amount)
<1>1. /\ SideSound(r) /\ Deposited(r) = Deposited(s) /\ Follows(r, s, PaymentIds \ {p})
      /\ r.unconfirmed = s.unconfirmed - amount /\ r.ready = s.ready
      /\ r.preauth = s.preauth /\ r.spent = s.spent + amount
      /\ \A q \in PaymentIds : AuthorisedFor(r, q) = AuthorisedFor(s, q)
  BY PaySound
<1> HIDE DEF r
<1>2. Balance(r) = Balance(s)
  BY <1>1, BalanceFields DEF Balance
<1>3. Follows(r, s, Orders)
  <2>1. Orders \subseteq PaymentIds \ {p}
    BY PaymentsFinite
  <2> QED  BY <1>1, <2>1, FollowsLess
<1> QED  BY <1>1, <1>2, <1>3 DEF r, Settles

\* What arrived is ready, and the fee is charged.
LEMMA BookSettles ==
    ASSUME NEW s, SideSound(s), AuthorisedFor(s, "Charges") = 0,
           NEW amount \in Nat, NEW fee \in Nat, amount + fee <= s.unconfirmed
    PROVE  /\ Settles(BookRecords(s, amount, fee), s)
           /\ BookRecords(s, amount, fee).ready = s.ready + amount
<1> DEFINE a == AddReady(s, amount)
<1>1. s.unconfirmed \in Nat /\ amount <= s.unconfirmed
  BY BalanceFields
<1>2. Settles(a, s) /\ a.unconfirmed = s.unconfirmed - amount /\ a.ready = s.ready + amount
  BY <1>1, AddReadySettles
<1>3. BookRecords(s, amount, fee) = Pay(a, "Charges", fee)
  BY DEF BookRecords
<1> HIDE DEF a
<1>4. "Charges" \in PaymentIds \ Orders
  BY PaymentsFinite
<1>5. SideSound(a) /\ AuthorisedFor(a, "Charges") = 0
  BY <1>2, <1>4 DEF Settles
<1>6. fee <= a.unconfirmed
  BY <1>1, <1>2
<1>7. Settles(Pay(a, "Charges", fee), a) /\ Pay(a, "Charges", fee).ready = a.ready
  BY <1>4, <1>5, <1>6, PaySettles
<1> QED  BY <1>2, <1>3, <1>7, SettlesChain

\* All that is not confirmed is written off.
LEMMA CloseAllSettles ==
    ASSUME NEW s, SideSound(s), AuthorisedFor(s, "System") = 0
    PROVE  Settles(CloseAllLots(s), s) /\ CloseAllLots(s).ready = s.ready
<1>1. s.unconfirmed \in Nat /\ s.unconfirmed <= s.unconfirmed
  BY BalanceFields
<1>2. "System" \in PaymentIds \ Orders
  BY PaymentsFinite
<1> QED  BY <1>1, <1>2, PaySettles DEF CloseAllLots

-----------------------------------------------------------------------------
(* What a step keeps.                                                      *)

\* The types, by name.
LEMMA TypeFacts ==
    ASSUME Types
    PROVE  /\ requests \subseteq Orders /\ transfers \subseteq Transfer /\ events \in Seq(Event)
           /\ acks \in Seq(Orders) /\ order \in [Orders -> SolverOrder]
           /\ notices \in [Deposits -> 0 .. MaxNotices] /\ confirms \in [Orders -> 0 .. MaxConfirms]
  BY DEF Types, TypeOK

\* The orders of the events are known from what the events are.
LEMMA EventsTyped ==
    ASSUME NEW evs \in Seq(Event)
    PROVE  \A i \in DOMAIN evs : evs[i].order \in Orders
  BY EventsFacts, EventFields

\* Nothing is left authorised for fees or for what is written off.
LEMMA NothingReserved ==
    ASSUME Inv
    PROVE  AuthorisedFor(side_cr, "Charges") = 0 /\ AuthorisedFor(side_cr, "System") = 0
  BY PaymentsFinite DEF Inv, Accounts, AuthorisedOnce

\* Bookings keep the accounts.
LEMMA AccountsSettled ==
    ASSUME Inv, Settles(side_cr', side_cr), notices' = notices, confirms' = confirms,
           \A o \in Orders : order'[o].routed = order[o].routed
    PROVE  /\ Accounts' /\ side_cr' \in CollateralSide
           /\ FollowsOwn(side_cr', side_cr)
<1>1. /\ SideSound(side_cr) /\ SideSound(side_cr') /\ Deposited(side_cr') = Deposited(side_cr)
      /\ Balance(side_cr') = Balance(side_cr) /\ Follows(side_cr', side_cr, Orders)
      /\ \A p \in PaymentIds : AuthorisedFor(side_cr', p) = AuthorisedFor(side_cr, p)
  BY DEF Settles, Inv, Accounts
<1>2. DepositsBooked'
  BY <1>1 DEF Inv, Accounts, DepositsBooked
<1>3. AuthorisedOnce'
  BY <1>1 DEF Inv, Accounts, AuthorisedOnce
<1>4. FollowsOwn(side_cr', side_cr)
  BY <1>1, FollowsOwned
<1> QED  BY <1>1, <1>2, <1>3, <1>4 DEF Accounts, SideSound

\* What is on its route are orders.
LEMMA EnRouteOrders ==
    ASSUME Types
    PROVE  EnRoute \subseteq Orders
<1>1. \A t \in Transfer : t.order \in Orders
  BY DEF Transfer
<1>2. \A i \in DOMAIN events : events[i].order \in Orders
  BY TypeFacts, EventsTyped
<1> QED  BY <1>1, <1>2, TypeFacts DEF EnRoute, OnTheWay, RoutedIn

\* An order that is not on its route, and no longer waits for it, disturbs no other.
LEMMA OneLeaves ==
    ASSUME Inv, NEW o \in Orders, o \notin EnRoute',
           order'[o].status \notin {"New", "Open"},
           \A x \in Orders \ {o} : order'[x] = order[x] /\ confirms'[x] = confirms[x],
           EnRoute' \subseteq EnRoute, Answered' \subseteq Answered \cup {o}
    PROVE  RoutedOnce'
<1>1. EnRoute' \subseteq Orders
  BY EnRouteOrders DEF Inv
<1>2. ASSUME NEW x \in EnRoute'
      PROVE  order'[x].status \in {"ManageCollateral", "Cancelled"} /\ Unrouted(x)'
  <2>1. x \in Orders \ {o} /\ x \in EnRoute
    BY <1>1
  <2> QED  BY <2>1 DEF Inv, Routes, RoutedOnce, Unrouted
<1>3. ASSUME NEW x \in Orders, order'[x].status \in {"New", "Open"} PROVE Unrouted(x)'
  BY <1>3 DEF Inv, Routes, RoutedOnce, Unrouted
<1> QED  BY <1>2, <1>3 DEF RoutedOnce

\* Acknowledgements that wait.
LEMMA AcksFacts ==
    ASSUME NEW q \in Seq(Orders)
    PROVE  /\ \A o \in Orders : Append(q, o) \in Seq(Orders) /\ AckedIn(Append(q, o)) = AckedIn(q) \cup {o}
           /\ q # <<>> => /\ Tail(q) \in Seq(Orders) /\ AckedIn(Tail(q)) \subseteq AckedIn(q)
                          /\ Head(q) \in Orders /\ Head(q) \in AckedIn(q)
<1>1. DOMAIN q = 1 .. Len(q) /\ Len(q) \in Nat
  BY LenProperties
<1>2. ASSUME NEW o \in Orders
      PROVE  Append(q, o) \in Seq(Orders) /\ AckedIn(Append(q, o)) = AckedIn(q) \cup {o}
  <2> DEFINE u == Append(q, o)
             n == Len(q)
  <2>1. /\ u \in Seq(Orders) /\ Len(u) = n + 1 /\ u[n + 1] = o /\ \A i \in 1 .. n : u[i] = q[i]
    BY AppendProperties
  <2>2. DOMAIN u = 1 .. n + 1
    BY <2>1, LenProperties
  <2> HIDE DEF u, n
  <2>3. n \in Nat /\ DOMAIN q = 1 .. n
    BY <1>1 DEF n
  <2>4. (\A i \in 1 .. n : i \in 1 .. n + 1) /\ n + 1 \in 1 .. n + 1 /\ \A i \in 1 .. n + 1 : i \in 1 .. n \/ i = n + 1
    BY <2>3
  <2>5. AckedIn(u) = AckedIn(q) \cup {o}
    BY <2>1, <2>2, <2>3, <2>4 DEF AckedIn
  <2> QED  BY <2>1, <2>5 DEF u
<1>3. ASSUME q # <<>>
      PROVE  /\ Tail(q) \in Seq(Orders) /\ AckedIn(Tail(q)) \subseteq AckedIn(q)
             /\ Head(q) \in Orders /\ Head(q) \in AckedIn(q)
  <2> DEFINE u == Tail(q)
             n == Len(u)
  <2>1. u \in Seq(Orders) /\ Len(u) = Len(q) - 1 /\ \A i \in 1 .. Len(u) : u[i] = q[i + 1]
    BY <1>3, HeadTailProperties
  <2>2. DOMAIN u = 1 .. n /\ n \in Nat
    BY <2>1, LenProperties
  <2>3. Head(q) = q[1] /\ Len(q) = n + 1
    BY <1>1, <1>3, <2>1
  <2> HIDE DEF u, n
  <2>4. 1 \in DOMAIN q /\ \A i \in 1 .. n : i + 1 \in DOMAIN q
    BY <1>1, <2>2, <2>3
  <2>5. AckedIn(u) \subseteq AckedIn(q)
    BY <2>1, <2>2, <2>4 DEF AckedIn, n
  <2>6. Head(q) \in AckedIn(q)
    BY <2>3, <2>4 DEF AckedIn
  <2>7. Head(q) \in Orders
    BY <2>3, <2>4, ElementOfSeq, <1>1
  <2> QED  BY <2>1, <2>5, <2>6, <2>7 DEF u
<1> QED  BY <1>2, <1>3

\* The types after a step, from those of its parts.
LEMMA TypesNext ==
    ASSUME side_cr' \in CollateralSide, requests' \subseteq Orders, transfers' \subseteq Transfer,
           events' \in Seq(Event), acks' \in Seq(Orders), order' \in [Orders -> SolverOrder],
           notices' \in [Deposits -> 0 .. MaxNotices], confirms' \in [Orders -> 0 .. MaxConfirms]
    PROVE  Types'
<1>1. \A i \in DOMAIN events' : events'[i].order \in Orders
  BY EventsTyped
<1> QED  BY <1>1 DEF Types, TypeOK

\* Nothing new is on its route.
LEMMA OneRouteLess ==
    ASSUME OneRoute, requests' \subseteq requests, transfers' \subseteq transfers,
           RoutedIn(events') \subseteq RoutedIn(events), Once(events')
    PROVE  OneRoute' /\ EnRoute' \subseteq EnRoute
<1>1. OnTheWay(transfers') \subseteq OnTheWay(transfers)
  BY DEF OnTheWay
<1> QED  BY <1>1 DEF OneRoute, EnRoute

\* The orders are as they were, and nothing new is on its route or answered.
LEMMA RoutedSame ==
    ASSUME RoutedOnce, order' = order, confirms' = confirms,
           EnRoute' \subseteq EnRoute, Answered' \subseteq Answered
    PROVE  RoutedOnce'
  BY DEF RoutedOnce, Unrouted

\* The facts of Inv that a step needs, by name.
LEMMA InvFacts ==
    ASSUME Inv
    PROVE  /\ Types /\ SideSound(side_cr) /\ side_cr \in CollateralSide
           /\ PromisesKept /\ OneRoute /\ RoutedOnce /\ FeesCovered
           /\ Once(events) /\ EnRoute \subseteq Orders
           /\ requests \subseteq Orders /\ transfers \subseteq Transfer /\ events \in Seq(Event)
           /\ acks \in Seq(Orders) /\ order \in [Orders -> SolverOrder]
           /\ notices \in [Deposits -> 0 .. MaxNotices] /\ confirms \in [Orders -> 0 .. MaxConfirms]
<1>1. Types
  BY DEF Inv
<1>2. OneRoute /\ RoutedOnce /\ FeesCovered /\ Once(events)
  BY DEF Inv, Routes, OneRoute
<1>3. SideSound(side_cr) /\ side_cr \in CollateralSide /\ PromisesKept
  BY DEF Inv, Accounts, SideSound
<1> QED  BY <1>1, <1>2, <1>3, TypeFacts, EnRouteOrders

\* A deposit that the chain reports is booked once (handle_deposit).
LEMMA DepositStep ==
    ASSUME Inv, NEW d \in Deposits, HandleDeposit(d)
    PROVE  Inv' /\ FollowsOwn(side_cr', side_cr)
<1>1. /\ notices[d] < MaxNotices /\ notices' = [notices EXCEPT ![d] = @ + 1]
      /\ side_cr' = OpenLot(side_cr, d)
      /\ requests' = requests /\ transfers' = transfers /\ events' = events /\ acks' = acks
      /\ order' = order /\ confirms' = confirms
  BY DEF HandleDeposit
<1>2. /\ SideSound(side_cr') /\ Deposited(side_cr') = Deposited(side_cr) \cup {d}
      /\ FollowsOwn(side_cr', side_cr)
      /\ side_cr'.unconfirmed
            = side_cr.unconfirmed + (IF d \in Deposited(side_cr) THEN 0 ELSE DepositAmount[d])
      /\ side_cr'.ready = side_cr.ready /\ side_cr'.preauth = side_cr.preauth
      /\ side_cr'.spent = side_cr.spent
      /\ \A p \in PaymentIds : AuthorisedFor(side_cr', p) = AuthorisedFor(side_cr, p)
  <2>1. SideSound(side_cr)
    BY InvFacts
  <2> QED  BY <1>1, <2>1, OpenLotSound
<1>3. notices' \in [Deposits -> 0 .. MaxNotices] /\ notices[d] \in Nat
      /\ notices'[d] > 0 /\ \A x \in Deposits \ {d} : notices'[x] = notices[x]
  <2>1. MaxNotices \in Nat
    BY ConstantsAssumption
  <2>2. notices \in [Deposits -> 0 .. MaxNotices]
    BY InvFacts
  <2> QED  BY <1>1, <2>1, <2>2
<1>4. Types'
  <2>1. side_cr' \in CollateralSide
    BY <1>2 DEF SideSound
  <2> QED  BY <1>1, <1>3, <2>1, InvFacts, TypesNext
<1>5. DepositsBooked'
  <2>1. /\ Deposited(side_cr) = {x \in Deposits : notices[x] > 0}
        /\ Balance(side_cr) = SumFunctionOnSet(DepositAmount, Deposited(side_cr))
    BY DEF Inv, Accounts, DepositsBooked
  <2>2. Deposited(side_cr') = {x \in Deposits : notices'[x] > 0}
    BY <1>2, <1>3, <2>1
  <2>3. Balance(side_cr') = SumFunctionOnSet(DepositAmount, Deposited(side_cr'))
    <3> DEFINE S == Deposited(side_cr)
    <3>1. S \subseteq Deposits /\ IsFiniteSet(Deposits) /\ \A x \in Deposits : DepositAmount[x] \in Int
      BY <2>1, ConstantsAssumption
    <3>2. /\ side_cr.unconfirmed \in Nat /\ side_cr.ready \in Nat
          /\ side_cr.preauth \in Nat /\ side_cr.spent \in Nat
      BY InvFacts, BalanceFields
    <3>3. CASE d \in S
      <4>1. Deposited(side_cr') = S
        BY <1>2, <3>3
      <4>2. Balance(side_cr') = Balance(side_cr)
        BY <1>2, <3>2, <3>3 DEF Balance
      <4> QED  BY <2>1, <4>1, <4>2
    <3>4. CASE d \notin S
      <4>1. Balance(side_cr') = Balance(side_cr) + DepositAmount[d]
        BY <1>2, <3>1, <3>2, <3>4 DEF Balance
      <4> HIDE DEF S
      <4>2. IsFiniteSet(S \cup {d}) /\ d \in S \cup {d} /\ \A x \in S \cup {d} : DepositAmount[x] \in Int
        BY <3>1, FS_Subset
      <4>3. SumFunctionOnSet(DepositAmount, S \cup {d})
            = DepositAmount[d] + SumFunctionOnSet(DepositAmount, (S \cup {d}) \ {d})
        BY <4>2, SumRemove
      <4>4. (S \cup {d}) \ {d} = S
        BY <3>4
      <4>5. Balance(side_cr) \in Int /\ DepositAmount[d] \in Int
        BY <3>1, <3>2 DEF Balance
      <4>6. SumFunctionOnSet(DepositAmount, S) = Balance(side_cr)
        BY <2>1 DEF S
      <4>7. SumFunctionOnSet(DepositAmount, S \cup {d}) = DepositAmount[d] + Balance(side_cr)
        BY <4>3, <4>4, <4>6
      <4>8. SumFunctionOnSet(DepositAmount, S \cup {d}) = Balance(side_cr) + DepositAmount[d]
        BY <4>5, <4>7
      <4> QED  BY <1>2, <4>1, <4>8 DEF S
    <3> QED  BY <3>3, <3>4
  <2> QED  BY <2>2, <2>3 DEF DepositsBooked
<1>6. AuthorisedOnce'
  BY <1>1, <1>2 DEF Inv, Accounts, AuthorisedOnce
<1>7. PromisesKept'
  BY <1>1, <1>2 DEF Inv, PromisesKept
<1>8. Routes'
  <2>1. OneRoute' /\ EnRoute' \subseteq EnRoute
    BY <1>1, InvFacts, OneRouteLess
  <2>2. Answered' \subseteq Answered
    BY <1>1 DEF Answered
  <2>3. RoutedOnce'
    BY <1>1, <2>1, <2>2, InvFacts, RoutedSame
  <2>4. FeesCovered'
    BY <1>1 DEF Inv, Routes, FeesCovered
  <2> QED  BY <2>1, <2>3, <2>4 DEF Routes
<1> QED  BY <1>2, <1>4, <1>5, <1>6, <1>7, <1>8 DEF Inv, Accounts

\* Steps that leave the accounts alone.
LEMMA AccountsSame ==
    ASSUME Inv, side_cr' = side_cr, notices' = notices, confirms' = confirms,
           \A o \in Orders : order'[o].routed = order[o].routed
    PROVE  /\ Accounts' /\ side_cr' \in CollateralSide
           /\ FollowsOwn(side_cr', side_cr)
<1>1. Settles(side_cr', side_cr)
  BY InvFacts, SettlesSelf
<1> QED  BY <1>1, AccountsSettled

\* An order that is new is not on its route (add_client_order).
LEMMA NewOrderStep ==
    ASSUME Inv, NEW i \in DOMAIN OrderIds, NewOrder(i)
    PROVE  Inv' /\ FollowsOwn(side_cr', side_cr)
<1> DEFINE o == OrderIds[i]
<1>1. /\ order[o].status = "New" /\ order' = [order EXCEPT ![o].status = "Open"]
      /\ side_cr' = side_cr /\ requests' = requests /\ transfers' = transfers /\ events' = events
      /\ acks' = acks /\ notices' = notices /\ confirms' = confirms
  BY DEF NewOrder
<1>2. o \in Orders
  BY ConstantsAssumption, LenProperties, ElementOfSeq
<1> HIDE DEF o
<1>3. /\ order' \in [Orders -> SolverOrder]
      /\ \A x \in Orders : order'[x].routed = order[x].routed
      /\ \A x \in Orders \ {o} : order'[x] = order[x]
      /\ order'[o].status = "Open"
  <2>1. order \in [Orders -> SolverOrder]
    BY InvFacts
  <2> QED  BY <1>1, <1>2, <2>1 DEF SolverOrder
<1>4. Accounts' /\ side_cr' \in CollateralSide /\ FollowsOwn(side_cr', side_cr)
  BY <1>1, <1>3, AccountsSame
<1>5. Types'
  BY <1>1, <1>3, <1>4, InvFacts, TypesNext
<1>6. PromisesKept'
  BY <1>1 DEF Inv, PromisesKept
<1>7. OneRoute' /\ EnRoute' = EnRoute /\ Answered' = Answered /\ EnRoute \subseteq Orders
  BY <1>1, InvFacts DEF OneRoute, EnRoute, Answered
<1>8. RoutedOnce'
  <2>1. o \notin EnRoute /\ Unrouted(o)
    BY <1>1, <1>2, InvFacts DEF RoutedOnce
  <2>2. ASSUME NEW x \in EnRoute'
        PROVE  order'[x].status \in {"ManageCollateral", "Cancelled"} /\ Unrouted(x)'
    <3>1. x \in Orders \ {o} /\ x \in EnRoute
      BY <1>7, <2>1
    <3> QED  BY <1>1, <1>3, <1>7, <3>1, InvFacts DEF RoutedOnce, Unrouted
  <2>3. ASSUME NEW x \in Orders, order'[x].status \in {"New", "Open"} PROVE Unrouted(x)'
    <3>1. Unrouted(x)
      <4>1. CASE x = o
        BY <2>1, <4>1
      <4>2. CASE x # o
        BY <1>3, <2>3, <4>2, InvFacts DEF RoutedOnce
      <4> QED  BY <4>1, <4>2
    <3> QED  BY <1>1, <1>3, <1>7, <3>1 DEF Unrouted
  <2> QED  BY <2>2, <2>3 DEF RoutedOnce
<1>9. FeesCovered'
  BY <1>1, InvFacts DEF FeesCovered
<1> QED  BY <1>4, <1>5, <1>6, <1>7, <1>8, <1>9 DEF Inv, Routes

\* A cancelled order stays on its route (cancel_client_order).
LEMMA CancelStep ==
    ASSUME Inv, NEW o \in Orders, CancelOrder(o)
    PROVE  Inv' /\ FollowsOwn(side_cr', side_cr)
<1>1. /\ order' = [order EXCEPT ![o].status = "Cancelled"]
      /\ side_cr' = side_cr /\ requests' = requests /\ transfers' = transfers /\ events' = events
      /\ acks' = acks /\ notices' = notices /\ confirms' = confirms
  BY DEF CancelOrder
<1>2. /\ order' \in [Orders -> SolverOrder]
      /\ \A x \in Orders : order'[x].routed = order[x].routed
      /\ \A x \in Orders \ {o} : order'[x] = order[x]
      /\ order'[o].status = "Cancelled"
  <2>1. order \in [Orders -> SolverOrder]
    BY InvFacts
  <2> QED  BY <1>1, <2>1 DEF SolverOrder
<1>3. Accounts' /\ side_cr' \in CollateralSide /\ FollowsOwn(side_cr', side_cr)
  BY <1>1, <1>2, AccountsSame
<1>4. Types'
  BY <1>1, <1>2, <1>3, InvFacts, TypesNext
<1>5. PromisesKept'
  BY <1>1 DEF Inv, PromisesKept
<1>6. OneRoute' /\ EnRoute' = EnRoute /\ Answered' = Answered /\ EnRoute \subseteq Orders
  BY <1>1, InvFacts DEF OneRoute, EnRoute, Answered
<1>7. RoutedOnce'
  <2>1. ASSUME NEW x \in Orders, Unrouted(x) PROVE Unrouted(x)'
    BY <1>1, <1>2, <1>6, <2>1 DEF Unrouted
  <2>2. ASSUME NEW x \in EnRoute'
        PROVE  order'[x].status \in {"ManageCollateral", "Cancelled"} /\ Unrouted(x)'
    <3>1. x \in Orders /\ x \in EnRoute
      BY <1>6
    <3>2. order[x].status \in {"ManageCollateral", "Cancelled"} /\ Unrouted(x)
      BY <3>1, InvFacts DEF RoutedOnce
    <3> QED  BY <1>2, <2>1, <3>1, <3>2
  <2>3. ASSUME NEW x \in Orders, order'[x].status \in {"New", "Open"} PROVE Unrouted(x)'
    <3>1. x # o
      BY <1>2, <2>3
    <3>2. Unrouted(x)
      BY <1>2, <2>3, <3>1, InvFacts DEF RoutedOnce
    <3> QED  BY <2>1, <3>2
  <2> QED  BY <2>2, <2>3 DEF RoutedOnce
<1>8. FeesCovered'
  BY <1>1, InvFacts DEF FeesCovered
<1> QED  BY <1>3, <1>4, <1>5, <1>6, <1>7, <1>8 DEF Inv, Routes

-----------------------------------------------------------------------------
(* Requests, answers and payments.                                         *)

\* A request is made for an order that is not on its route.
LEMMA ManageStep ==
    ASSUME Inv, NEW i \in DOMAIN OrderIds, ManageCollateral(i)
    PROVE  Inv' /\ FollowsOwn(side_cr', side_cr)
<1> DEFINE o == OrderIds[i]
<1>1. /\ order[o].status = "Open" /\ order' = [order EXCEPT ![o].status = "ManageCollateral"]
      /\ requests' = requests \cup {o}
      /\ side_cr' = side_cr /\ transfers' = transfers /\ events' = events
      /\ acks' = acks /\ notices' = notices /\ confirms' = confirms
  BY DEF ManageCollateral
<1>2. o \in Orders
  BY ConstantsAssumption, LenProperties, ElementOfSeq
<1> HIDE DEF o
<1>3. /\ order' \in [Orders -> SolverOrder]
      /\ \A x \in Orders : order'[x].routed = order[x].routed
      /\ \A x \in Orders \ {o} : order'[x] = order[x]
      /\ order'[o].status = "ManageCollateral"
  <2>1. order \in [Orders -> SolverOrder]
    BY InvFacts
  <2> QED  BY <1>1, <1>2, <2>1 DEF SolverOrder
<1>4. Accounts' /\ side_cr' \in CollateralSide /\ FollowsOwn(side_cr', side_cr)
  BY <1>1, <1>3, AccountsSame
<1>5. Types'
  <2>1. requests' \subseteq Orders
    BY <1>1, <1>2, InvFacts
  <2> QED  BY <1>1, <1>3, <1>4, <2>1, InvFacts, TypesNext
<1>6. PromisesKept'
  BY <1>1 DEF Inv, PromisesKept
<1>7. o \notin EnRoute /\ Unrouted(o)
  BY <1>1, <1>2, InvFacts DEF RoutedOnce
<1>8. /\ OneRoute' /\ EnRoute' = EnRoute \cup {o} /\ Answered' = Answered /\ EnRoute \subseteq Orders
  BY <1>1, <1>7, InvFacts DEF OneRoute, EnRoute, Answered
<1>9. RoutedOnce'
  <2>1. ASSUME NEW x \in Orders, Unrouted(x) PROVE Unrouted(x)'
    BY <1>1, <1>3, <1>8, <2>1 DEF Unrouted
  <2>2. ASSUME NEW x \in EnRoute'
        PROVE  order'[x].status \in {"ManageCollateral", "Cancelled"} /\ Unrouted(x)'
    <3>1. CASE x = o
      BY <1>2, <1>3, <1>7, <2>1, <3>1
    <3>2. CASE x # o
      <4>1. x \in Orders /\ x \in EnRoute
        BY <1>8, <3>2
      <4>2. order[x].status \in {"ManageCollateral", "Cancelled"} /\ Unrouted(x)
        BY <4>1, InvFacts DEF RoutedOnce
      <4> QED  BY <1>3, <2>1, <3>2, <4>1, <4>2
    <3> QED  BY <3>1, <3>2
  <2>3. ASSUME NEW x \in Orders, order'[x].status \in {"New", "Open"} PROVE Unrouted(x)'
    <3>1. x # o
      BY <1>3, <2>3
    <3>2. Unrouted(x)
      BY <1>3, <2>3, <3>1, InvFacts DEF RoutedOnce
    <3> QED  BY <2>1, <3>2
  <2> QED  BY <2>2, <2>3 DEF RoutedOnce
<1>10. FeesCovered'
  BY <1>1, InvFacts DEF FeesCovered
<1> QED  BY <1>4, <1>5, <1>6, <1>8, <1>9, <1>10 DEF Inv, Routes

\* An order that is refused while it waits for nothing.
LEMMA RefuseStep ==
    ASSUME Inv, NEW o \in Orders, RefuseOrder(o)
    PROVE  Inv' /\ FollowsOwn(side_cr', side_cr)
<1>1. /\ order[o].status = "Queued" /\ order' = [order EXCEPT ![o].status = "Failed"]
      /\ side_cr' = side_cr /\ requests' = requests /\ transfers' = transfers /\ events' = events
      /\ acks' = acks /\ notices' = notices /\ confirms' = confirms
  BY DEF RefuseOrder
<1>2. /\ order' \in [Orders -> SolverOrder]
      /\ \A x \in Orders : order'[x].routed = order[x].routed
      /\ \A x \in Orders \ {o} : order'[x] = order[x]
      /\ order'[o].status = "Failed"
  <2>1. order \in [Orders -> SolverOrder]
    BY InvFacts
  <2> QED  BY <1>1, <2>1 DEF SolverOrder
<1>3. Accounts' /\ side_cr' \in CollateralSide /\ FollowsOwn(side_cr', side_cr)
  BY <1>1, <1>2, AccountsSame
<1>4. Types'
  BY <1>1, <1>2, <1>3, InvFacts, TypesNext
<1>5. PromisesKept'
  BY <1>1 DEF Inv, PromisesKept
<1>6. OneRoute' /\ EnRoute' = EnRoute /\ Answered' = Answered
  BY <1>1, InvFacts DEF OneRoute, EnRoute, Answered
<1>7. o \notin EnRoute
  BY <1>1, InvFacts DEF RoutedOnce
<1>8. RoutedOnce'
  BY <1>1, <1>2, <1>6, <1>7, OneLeaves
<1>9. FeesCovered'
  BY <1>1, InvFacts DEF FeesCovered
<1> QED  BY <1>3, <1>4, <1>5, <1>6, <1>8, <1>9 DEF Inv, Routes

\* A step that takes the first event, and leaves the accounts alone.
LEMMA EventTaken ==
    ASSUME Inv, events # <<>>, NEW o \in Orders, o = Head(events).order,
           events' = Tail(events), order' \in [Orders -> SolverOrder],
           order'[o].routed = order[o].routed,
           order'[o] = order[o] \/ order'[o].status \notin {"New", "Open"}
             \/ Head(events).type = "CollateralReady",
           \A x \in Orders \ {o} : order'[x] = order[x],
           side_cr' = side_cr, requests' = requests, transfers' = transfers,
           acks' = acks, notices' = notices, confirms' = confirms,
           Head(events).type # "CollateralReady" => order'[o] = order[o] \/ o \notin EnRoute
    PROVE  Inv' /\ FollowsOwn(side_cr', side_cr)
<1>1. /\ Head(events) \in Event /\ events' \in Seq(Event)
      /\ RoutedIn(events') \subseteq RoutedIn(events) /\ AnsweredIn(events') \subseteq AnsweredIn(events)
      /\ Head(events).type = "CollateralReady" => o \in RoutedIn(events)
      /\ Once(events')
      /\ Head(events).type = "CollateralReady" => o \notin RoutedIn(events')
      /\ Promised(events) = Promise(Head(events)) + Promised(events')
  BY InvFacts, EventsTail
<1>2. \A x \in Orders : order'[x].routed = order[x].routed
  OBVIOUS
<1>3. Accounts' /\ side_cr' \in CollateralSide /\ FollowsOwn(side_cr', side_cr)
  BY <1>2, AccountsSame
<1>4. Types'
  BY <1>1, <1>3, InvFacts, TypesNext
<1>5. PromisesKept'
  <2>1. Promise(Head(events)) \in Nat /\ Promised(events') \in Nat
    BY <1>1, EventFields, EventsFacts
  <2>2. side_cr.ready \in Nat /\ Promised(events) <= side_cr.ready
    BY InvFacts, BalanceFields DEF PromisesKept
  <2> QED  BY <1>1, <2>1, <2>2 DEF PromisesKept
<1>6. OneRoute' /\ EnRoute' \subseteq EnRoute /\ Answered' \subseteq Answered
  BY <1>1, InvFacts, OneRouteLess DEF Answered
<1>7. RoutedOnce'
  <2>1. ASSUME NEW x \in Orders, Unrouted(x) PROVE Unrouted(x)'
    BY <1>2, <1>6, <2>1 DEF Unrouted
  <2>2. ASSUME NEW x \in EnRoute'
        PROVE  order'[x].status \in {"ManageCollateral", "Cancelled"} /\ Unrouted(x)'
    <3>1. x \in EnRoute /\ x \in Orders
      BY <1>6, InvFacts
    <3>2. order[x].status \in {"ManageCollateral", "Cancelled"} /\ Unrouted(x)
      BY <3>1, InvFacts DEF RoutedOnce
    <3>3. order'[x] = order[x]
      <4>1. CASE Head(events).type = "CollateralReady"
        <5>1. o \in RoutedIn(events) /\ o \notin RoutedIn(events')
          BY <1>1, <4>1
        <5>2. o \notin EnRoute'
          BY <5>1, InvFacts DEF OneRoute, EnRoute
        <5> QED  BY <3>1, <5>2
      <4>2. CASE Head(events).type # "CollateralReady"
        BY <3>1, <4>2
      <4> QED  BY <4>1, <4>2
    <3> QED  BY <2>1, <3>1, <3>2, <3>3
  <2>3. ASSUME NEW x \in Orders, order'[x].status \in {"New", "Open"} PROVE Unrouted(x)'
    <3>1. CASE order'[x] = order[x]
      BY <2>1, <2>3, <3>1, InvFacts DEF RoutedOnce
    <3>2. CASE x = o /\ Head(events).type = "CollateralReady"
      <4>1. o \in EnRoute
        BY <1>1, <3>2 DEF EnRoute
      <4> QED  BY <2>1, <3>2, <4>1, InvFacts DEF RoutedOnce
    <3> QED  BY <2>3, <3>1, <3>2
  <2> QED  BY <2>2, <2>3 DEF RoutedOnce
<1>8. FeesCovered'
  BY InvFacts DEF FeesCovered
<1> QED  BY <1>3, <1>4, <1>5, <1>6, <1>7, <1>8 DEF Inv, Routes

\* What the first event says of its order.
LEMMA FirstEvent ==
    ASSUME Inv, events # <<>>
    PROVE  LET e == Head(events)
           IN  /\ e \in Event /\ e.order \in Orders
               /\ e.type # "CollateralReady" => e.order \notin EnRoute
               /\ e.type = "CollateralReady" => e.order \in EnRoute /\ Unrouted(e.order)
<1> DEFINE e == Head(events)
<1>1. /\ e \in Event /\ e.order \in Orders
      /\ e.type = "CollateralReady" => e.order \in RoutedIn(events)
      /\ e.type # "CollateralReady" => e.order \in AnsweredIn(events)
  BY InvFacts, EventsTail, EventFields
<1> HIDE DEF e
<1>2. e.type = "CollateralReady" => e.order \in EnRoute
  BY <1>1 DEF EnRoute
<1>3. e.type # "CollateralReady" => e.order \in Answered
  BY <1>1 DEF Answered
<1>4. \A o \in EnRoute : Unrouted(o)
  BY InvFacts DEF RoutedOnce
<1>5. e.type # "CollateralReady" => e.order \notin EnRoute
  BY <1>3, <1>4 DEF Unrouted
<1> QED  BY <1>1, <1>2, <1>4, <1>5 DEF e

\* The status of one order changes.
LEMMA StatusSet ==
    ASSUME order \in [Orders -> SolverOrder], NEW o \in Orders,
           NEW status \in {"New", "Open", "ManageCollateral", "Ready", "Queued",
                           "Minted", "Failed", "Cancelled"},
           NEW new, new = [order EXCEPT ![o].status = status]
    PROVE  /\ new \in [Orders -> SolverOrder] /\ new[o].status = status
           /\ new[o].routed = order[o].routed
           /\ \A x \in Orders \ {o} : new[x] = order[x]
  BY DEF SolverOrder

\* The answer to the preauthorisation makes the order ready (handle_collateral_event).
LEMMA PreAuthStep ==
    ASSUME Inv, HandlePreAuthResponse
    PROVE  Inv' /\ FollowsOwn(side_cr', side_cr)
<1> DEFINE e == Head(events)
           o == e.order
<1>1. /\ events # <<>> /\ e.type = "PreAuthResponse"
      /\ order' = (IF Known(o) /\ e.status = "Approved" THEN MadeReady(o) ELSE order)
      /\ events' = Tail(events)
      /\ side_cr' = side_cr /\ requests' = requests /\ transfers' = transfers
      /\ acks' = acks /\ notices' = notices /\ confirms' = confirms
  BY DEF HandlePreAuthResponse
<1>2. o \in Orders /\ o \notin EnRoute
  BY <1>1, FirstEvent
<1> HIDE DEF o, e
<1>3. order \in [Orders -> SolverOrder]
  BY InvFacts
<1>4. /\ order' \in [Orders -> SolverOrder] /\ order'[o].routed = order[o].routed
      /\ order'[o] = order[o] \/ order'[o].status \notin {"New", "Open"}
      /\ \A x \in Orders \ {o} : order'[x] = order[x]
  <2>1. CASE Known(o) /\ e.status = "Approved"
    <3> DEFINE status == IF order[o].status = "Ready" THEN "Queued" ELSE "Ready"
    <3>1. order' = [order EXCEPT ![o].status = status]
      BY <1>1, <1>2, <1>3, <2>1 DEF MadeReady
    <3>2. /\ status \notin {"New", "Open"}
          /\ status \in {"New", "Open", "ManageCollateral", "Ready", "Queued",
                         "Minted", "Failed", "Cancelled"}
      OBVIOUS
    <3> HIDE DEF status
    <3> QED  BY <1>2, <1>3, <3>1, <3>2, StatusSet
  <2>2. CASE ~(Known(o) /\ e.status = "Approved")
    BY <1>1, <1>3, <2>2
  <2> QED  BY <2>1, <2>2
<1>5. o = Head(events).order /\ Head(events).type # "CollateralReady"
  <2>1. e = Head(events) /\ o = e.order
    BY DEF o, e
  <2>2. e.type # "CollateralReady"
    BY <1>1
  <2> QED  BY <2>1, <2>2
<1> QED  BY <1>1, <1>2, <1>4, <1>5, EventTaken

\* The answer to the payment mints the order or fails it (handle_collateral_event).
LEMMA ConfirmResponseStep ==
    ASSUME Inv, HandleConfirmResponse
    PROVE  Inv' /\ FollowsOwn(side_cr', side_cr)
<1> DEFINE e == Head(events)
           o == e.order
           seq_num == IF e.seq_nums = <<>> THEN 0 ELSE Last(e.seq_nums)
<1>1. /\ events # <<>> /\ e.type = "ConfirmResponse"
      /\ order' = (IF ~Known(o) THEN order
                   ELSE IF e.status = "NotEnoughFunds"
                   THEN [order EXCEPT ![o].status = "Failed"]
                   ELSE [order EXCEPT ![o].status = "Minted", ![o].seq_num = seq_num])
      /\ events' = Tail(events)
      /\ side_cr' = side_cr /\ requests' = requests /\ transfers' = transfers
      /\ acks' = acks /\ notices' = notices /\ confirms' = confirms
  BY DEF HandleConfirmResponse
<1>2. o \in Orders /\ o \notin EnRoute /\ e \in Event
  BY <1>1, FirstEvent
<1>3. seq_num \in Deposits \cup {0}
  <2>1. e.seq_nums \in Seq(Deposits)
    BY <1>1, <1>2, EventFields
  <2>2. CASE e.seq_nums = <<>>
    BY <2>2
  <2>3. CASE e.seq_nums # <<>>
    <3>1. Len(e.seq_nums) \in 1 .. Len(e.seq_nums)
      BY <2>1, <2>3, LenProperties, EmptySeq
    <3>2. e.seq_nums[Len(e.seq_nums)] \in Deposits
      BY <2>1, <3>1, ElementOfSeq
    <3> QED  BY <2>3, <3>2 DEF Last
  <2> QED  BY <2>2, <2>3
<1> HIDE DEF seq_num, o, e
<1>4. order \in [Orders -> SolverOrder]
  BY InvFacts
<1>5. /\ order' \in [Orders -> SolverOrder] /\ order'[o].routed = order[o].routed
      /\ order'[o] = order[o] \/ order'[o].status \notin {"New", "Open"}
      /\ \A x \in Orders \ {o} : order'[x] = order[x]
  <2>1. CASE ~Known(o)
    BY <1>1, <1>4, <2>1
  <2>2. CASE Known(o) /\ e.status = "NotEnoughFunds"
    <3>1. order' = [order EXCEPT ![o].status = "Failed"]
      BY <1>1, <2>2
    <3> QED  BY <1>2, <1>4, <3>1, StatusSet
  <2>3. CASE Known(o) /\ e.status # "NotEnoughFunds"
    <3>1. order' = [order EXCEPT ![o].status = "Minted", ![o].seq_num = seq_num]
      BY <1>1, <2>3
    <3> QED  BY <1>2, <1>3, <1>4, <3>1 DEF SolverOrder
  <2> QED  BY <2>1, <2>2, <2>3
<1>6. o = Head(events).order /\ Head(events).type # "CollateralReady"
  BY <1>1 DEF o, e
<1> QED  BY <1>1, <1>2, <1>5, <1>6, EventTaken

\* The acknowledgement of the index order manager makes the order ready (handle_index_order).
LEMMA ReadyAckStep ==
    ASSUME Inv, HandleReadyAck
    PROVE  Inv' /\ FollowsOwn(side_cr', side_cr)
<1> DEFINE o == Head(acks)
<1>1. /\ acks # <<>> /\ order' = (IF Known(o) THEN MadeReady(o) ELSE order)
      /\ acks' = Tail(acks) /\ events' = events
      /\ side_cr' = side_cr /\ requests' = requests /\ transfers' = transfers
      /\ notices' = notices /\ confirms' = confirms
  BY DEF HandleReadyAck
<1>2. /\ acks' \in Seq(Orders) /\ AckedIn(acks') \subseteq AckedIn(acks)
      /\ o \in Orders /\ o \in Answered
  BY <1>1, InvFacts, AcksFacts DEF Answered
<1> HIDE DEF o
<1>3. o \notin EnRoute
  BY <1>2, InvFacts DEF RoutedOnce, Unrouted
<1>4. order \in [Orders -> SolverOrder]
  BY InvFacts
<1>5. OneRoute' /\ EnRoute' = EnRoute /\ Answered' \subseteq Answered
  BY <1>1, <1>2, InvFacts DEF OneRoute, EnRoute, Answered
<1>6. /\ order' \in [Orders -> SolverOrder] /\ RoutedOnce'
      /\ \A x \in Orders : order'[x].routed = order[x].routed
  <2>1. CASE Known(o)
    <3> DEFINE status == IF order[o].status = "Ready" THEN "Queued" ELSE "Ready"
    <3>1. order' = [order EXCEPT ![o].status = status]
      BY <1>1, <1>2, <1>4, <2>1 DEF MadeReady
    <3>2. /\ status \notin {"New", "Open"}
          /\ status \in {"New", "Open", "ManageCollateral", "Ready", "Queued",
                         "Minted", "Failed", "Cancelled"}
      OBVIOUS
    <3> HIDE DEF status
    <3>3. /\ order' \in [Orders -> SolverOrder] /\ order'[o].status = status
          /\ order'[o].routed = order[o].routed /\ \A x \in Orders \ {o} : order'[x] = order[x]
      BY <1>2, <1>4, <3>1, <3>2, StatusSet
    <3>4. RoutedOnce'
      BY <1>1, <1>2, <1>3, <1>5, <3>2, <3>3, OneLeaves
    <3> QED  BY <3>3, <3>4
  <2>2. CASE ~Known(o)
    <3>1. order' = order
      BY <1>1, <2>2
    <3>2. RoutedOnce'
      BY <1>1, <1>5, <3>1, InvFacts, RoutedSame
    <3> QED  BY <1>4, <3>1, <3>2
  <2> QED  BY <2>1, <2>2
<1>7. Accounts' /\ side_cr' \in CollateralSide /\ FollowsOwn(side_cr', side_cr)
  BY <1>1, <1>6, AccountsSame
<1>8. Types'
  BY <1>1, <1>2, <1>6, <1>7, InvFacts, TypesNext
<1>9. PromisesKept'
  BY <1>1 DEF Inv, PromisesKept
<1>10. FeesCovered'
  BY <1>1, InvFacts DEF FeesCovered
<1> QED  BY <1>5, <1>6, <1>7, <1>8, <1>9, <1>10 DEF Inv, Routes

\* What routing announced is there, and is set aside for its order.
LEMMA RoutingReadyStep ==
    ASSUME Inv, events # <<>>, NEW o, o = Head(events).order, Known(o),
           Head(events).type = "CollateralReady", Head(events).status = "Ready",
           RoutingReady(o, Head(events).amount),
           requests' = requests, transfers' = transfers, notices' = notices, confirms' = confirms
    PROVE  Inv' /\ FollowsOwn(side_cr', side_cr)
<1> DEFINE e == Head(events)
           amount == e.amount
           evs == Tail(events)
           approved == CanPreauth(side_cr, amount)
           answer == [type |-> "PreAuthResponse", order |-> o,
                      status |-> IF approved THEN "Approved" ELSE "NotEnoughFunds"]
<1>1. /\ e \in Event /\ o \in Orders /\ o \in EnRoute /\ Unrouted(o)
      /\ evs \in Seq(Event) /\ RoutedIn(evs) \subseteq RoutedIn(events)
      /\ AnsweredIn(evs) \subseteq AnsweredIn(events)
      /\ Once(evs) /\ o \notin RoutedIn(evs)
      /\ Promised(events) = Promise(e) + Promised(evs)
  <2>1. e \in Event /\ o \in Orders /\ o \in EnRoute /\ Unrouted(o)
    BY FirstEvent
  <2> QED  BY <2>1, InvFacts, EventsTail
<1>2. amount \in Nat /\ Promise(e) = amount /\ Promised(evs) \in Nat
  BY <1>1, EventFields, EventsFacts DEF Promise
<1>3. /\ SideSound(side_cr) /\ side_cr.ready \in Nat /\ Promised(events) <= side_cr.ready
  BY InvFacts, BalanceFields DEF PromisesKept
<1>4. approved
  BY <1>1, <1>2, <1>3 DEF CanPreauth
<1>5. /\ side_cr' = PreauthPayment(side_cr, o, amount) /\ events' = Append(evs, answer)
      /\ order' = [order EXCEPT ![o].routed = amount] /\ acks' = Append(acks, o)
  BY <1>4 DEF RoutingReady, AskPreauth
<1>6. answer \in Event /\ answer.type = "PreAuthResponse" /\ answer.order = o /\ Promise(answer) = 0
  BY <1>1 DEF Event, Promise
<1> HIDE DEF answer, evs, e, amount, approved
<1>7. o \in PaymentIds /\ amount <= side_cr.ready
  BY <1>1, <1>2, <1>3, PaymentsFinite
<1>8. /\ SideSound(side_cr') /\ Deposited(side_cr') = Deposited(side_cr)
      /\ FollowsOwn(side_cr', side_cr)
      /\ side_cr'.unconfirmed = side_cr.unconfirmed /\ side_cr'.ready = side_cr.ready - amount
      /\ side_cr'.preauth = side_cr.preauth + amount /\ side_cr'.spent = side_cr.spent
      /\ AuthorisedFor(side_cr', o) = AuthorisedFor(side_cr, o) + amount
      /\ \A q \in PaymentIds \ {o} : AuthorisedFor(side_cr', q) = AuthorisedFor(side_cr, q)
  <2>1. SideSound(side_cr) /\ o \in PaymentIds /\ amount \in Nat /\ amount <= side_cr.ready
    BY <1>2, <1>3, <1>7
  <2>2. side_cr' = PreauthPayment(side_cr, o, amount)
    BY <1>5
  <2>3. PreauthorisedFrom(side_cr', side_cr, o, amount)
    BY <2>1, <2>2, PreauthSound
  <2> QED  BY <2>3 DEF PreauthorisedFrom
<1>9. /\ events' \in Seq(Event) /\ RoutedIn(events') = RoutedIn(evs)
      /\ AnsweredIn(events') = AnsweredIn(evs) \cup {o} /\ Once(events')
      /\ Promised(events') = Promised(evs)
  <2>1. evs \in Seq(Event) /\ answer \in Event /\ Once(evs) /\ Promise(answer) = 0
        /\ answer.type # "CollateralReady" /\ answer.order = o /\ events' = Append(evs, answer)
    BY <1>1, <1>5, <1>6
  <2>2. /\ events' \in Seq(Event) /\ RoutedIn(events') = RoutedIn(evs) \cup {}
        /\ AnsweredIn(events') = AnsweredIn(evs) \cup {o}
        /\ Once(evs) /\ RoutedIn(evs) \cap {} = {} => Once(events')
        /\ Promised(events') = Promised(evs) + Promise(answer)
    BY <2>1, EventsAppend
  <2> QED  BY <1>2, <2>1, <2>2
<1>10. /\ order' \in [Orders -> SolverOrder] /\ order'[o].routed = amount
       /\ order'[o].status = order[o].status /\ \A x \in Orders \ {o} : order'[x] = order[x]
  <2>1. order \in [Orders -> SolverOrder]
    BY InvFacts
  <2>2. o \in Orders /\ amount \in Nat /\ order' = [order EXCEPT ![o].routed = amount]
    BY <1>1, <1>2, <1>5
  <2> QED  BY <2>1, <2>2 DEF SolverOrder
<1>11. acks' \in Seq(Orders) /\ AckedIn(acks') = AckedIn(acks) \cup {o}
  BY <1>1, <1>5, InvFacts, AcksFacts
<1>12. Types'
  <2>1. side_cr' \in CollateralSide
    BY <1>8 DEF SideSound
  <2> QED  BY <1>9, <1>10, <1>11, <2>1, InvFacts, TypesNext
<1>13. Accounts'
  <2>1. DepositsBooked'
    <3>1. /\ side_cr.unconfirmed \in Nat /\ side_cr.ready \in Nat
          /\ side_cr.preauth \in Nat /\ side_cr.spent \in Nat
      BY <1>3, BalanceFields
    <3>2. Balance(side_cr') = Balance(side_cr)
      BY <1>2, <1>8, <3>1 DEF Balance
    <3> QED  BY <1>8, <3>2 DEF Inv, Accounts, DepositsBooked
  <2>2. AuthorisedOnce'
    <3>1. AuthorisedFor(side_cr, o) = 0 /\ confirms[o] = 0
      BY <1>1, <1>7 DEF Inv, Accounts, AuthorisedOnce, Unrouted
    <3>2. AuthorisedFor(side_cr', o) = amount
      BY <1>2, <1>8, <3>1
    <3>3. ASSUME NEW p \in PaymentIds
          PROVE  AuthorisedFor(side_cr', p)
                    = IF p \in Orders /\ confirms'[p] = 0 THEN order'[p].routed ELSE 0
      <4>1. CASE p = o
        BY <1>1, <1>10, <3>1, <3>2, <4>1
      <4>2. CASE p # o
        <5>1. AuthorisedFor(side_cr, p)
                = IF p \in Orders /\ confirms[p] = 0 THEN order[p].routed ELSE 0
          BY DEF Inv, Accounts, AuthorisedOnce
        <5>2. p \in Orders => order'[p] = order[p]
          BY <1>10, <4>2
        <5> QED  BY <1>8, <4>2, <5>1, <5>2
      <4> QED  BY <4>1, <4>2
    <3> QED  BY <3>3 DEF AuthorisedOnce
  <2> QED  BY <1>8, <2>1, <2>2 DEF Accounts
<1>14. PromisesKept'
  BY <1>1, <1>2, <1>3, <1>8, <1>9 DEF PromisesKept
<1>15. OneRoute' /\ EnRoute' \subseteq EnRoute /\ o \notin EnRoute'
  <2>1. OneRoute' /\ EnRoute' \subseteq EnRoute
    BY <1>1, <1>9, InvFacts, OneRouteLess
  <2>2. o \in RoutedIn(events)
    BY InvFacts, EventsTail DEF e
  <2>3. o \notin requests \cup OnTheWay(transfers)
    BY <2>2, InvFacts DEF OneRoute
  <2>4. o \notin EnRoute'
    BY <1>1, <1>9, <2>3 DEF EnRoute
  <2> QED  BY <2>1, <2>4
<1>16. RoutedOnce'
  <2>1. order'[o].status \notin {"New", "Open"}
    BY <1>1, <1>10, InvFacts DEF RoutedOnce
  <2>2. Answered' \subseteq Answered \cup {o}
    BY <1>1, <1>9, <1>11 DEF Answered
  <2> QED  BY <1>1, <1>10, <1>15, <2>1, <2>2, OneLeaves
<1>17. FeesCovered'
  BY InvFacts DEF FeesCovered
<1> QED  BY <1>8, <1>12, <1>13, <1>14, <1>15, <1>16, <1>17 DEF Inv, Routes

\* What routing answered is there, is asked for later or fails the order (handle_collateral_event).
LEMMA CollateralReadyStep ==
    ASSUME Inv, NEW expired \in BOOLEAN, HandleCollateralReady(expired)
    PROVE  Inv' /\ FollowsOwn(side_cr', side_cr)
<1> DEFINE e == Head(events)
           o == e.order
<1>1. /\ events # <<>> /\ e.type = "CollateralReady"
      /\ requests' = requests /\ transfers' = transfers
      /\ notices' = notices /\ confirms' = confirms
  BY DEF HandleCollateralReady
<1>2. o \in Orders
  BY <1>1, FirstEvent
<1>3. order \in [Orders -> SolverOrder]
  BY InvFacts
<1>4. \/ ~Known(o) /\ events' = Tail(events) /\ UNCHANGED <<side_cr, acks, order>>
      \/ Known(o) /\ e.status = "Ready" /\ RoutingReady(o, e.amount)
      \/ Known(o) /\ e.status = "CheckLater" /\ RoutingCheckLater(o, expired)
      \/ /\ Known(o) /\ order' = [order EXCEPT ![o].status = "Failed"]
         /\ events' = Tail(events) /\ UNCHANGED <<side_cr, acks>>
  BY DEF HandleCollateralReady
<1>5. CASE Known(o) /\ e.status = "Ready" /\ RoutingReady(o, e.amount)
  BY <1>1, <1>5, RoutingReadyStep
<1>6. ASSUME NEW status \in {"New", "Open", "ManageCollateral", "Ready", "Queued",
                              "Minted", "Failed", "Cancelled"},
             order' = [order EXCEPT ![o].status = status],
             events' = Tail(events), side_cr' = side_cr, acks' = acks
      PROVE  Inv' /\ FollowsOwn(side_cr', side_cr)
  <2> HIDE DEF o
  <2>1. /\ order' \in [Orders -> SolverOrder] /\ order'[o].status = status
        /\ order'[o].routed = order[o].routed /\ \A x \in Orders \ {o} : order'[x] = order[x]
    BY <1>2, <1>3, <1>6, StatusSet
  <2>2. o = Head(events).order
    BY DEF o
  <2> QED  BY <1>1, <1>2, <1>6, <2>1, <2>2, EventTaken
<1>7. CASE Known(o) /\ e.status = "CheckLater" /\ RoutingCheckLater(o, expired)
  <2> DEFINE status == IF expired THEN "Failed" ELSE "Open"
  <2>1. /\ order' = [order EXCEPT ![o].status = status] /\ events' = Tail(events)
        /\ side_cr' = side_cr /\ acks' = acks
    BY <1>7 DEF RoutingCheckLater
  <2>2. status \in {"New", "Open", "ManageCollateral", "Ready", "Queued",
                    "Minted", "Failed", "Cancelled"}
    OBVIOUS
  <2> HIDE DEF status, o, e
  <2> QED  BY <1>6, <2>1, <2>2
<1>8. CASE /\ Known(o) /\ order' = [order EXCEPT ![o].status = "Failed"]
           /\ events' = Tail(events) /\ UNCHANGED <<side_cr, acks>>
  BY <1>6, <1>8
<1>9. CASE ~Known(o) /\ events' = Tail(events) /\ UNCHANGED <<side_cr, acks, order>>
  BY <1>1, <1>2, <1>3, <1>9, EventTaken
<1> QED  BY <1>4, <1>5, <1>7, <1>8, <1>9

\* The deposits a payment names are deposits.
LEMMA SeqNumsTyped ==
    ASSUME NEW s, SideSound(s), NEW p \in PaymentIds, NEW amount \in Nat
    PROVE  SeqNums(s, p, amount) \in Seq(Deposits)
<1> DEFINE n == Len(s.open_lots)
           t == Taken(Authorised(s.open_lots, p), amount)
           nums == [i \in DOMAIN t |-> s.open_lots[i].seq_num]
           I == {i \in DOMAIN t : t[i] > 0}
<1>1. n \in Nat /\ s.open_lots \in Seq(CollateralLot)
      /\ \A i \in 1 .. n : s.open_lots[i].seq_num \in Deposits
  BY OpenLots, LotFields
<1>2. Authorised(s.open_lots, p) \in [1 .. n -> Nat]
  BY <1>1, AuthorisedFacts
<1>3. DOMAIN t = 1 .. n
  BY <1>1, <1>2, TakenFacts
<1> HIDE DEF t, n
<1>4. nums \in [1 .. n -> Deposits]
  BY <1>1, <1>3
<1>5. nums \in Seq(Deposits)
  BY <1>1, <1>4, SeqDef
<1>6. I \subseteq DOMAIN nums
  BY <1>3
<1> HIDE DEF nums, I
<1>7. Picked(nums, I) \in Seq(Deposits)
  BY <1>5, <1>6, PickedFacts
<1> QED  BY <1>7 DEF SeqNums, nums, I, t

\* A payment takes all that its order had authorised.
LEMMA MintStep ==
    ASSUME MaxConfirms = 1, Inv, NEW o \in Orders, MintIndexOrder(o)
    PROVE  Inv' /\ FollowsOwn(side_cr', side_cr)
<1> DEFINE amount == order[o].routed
           seq_nums == SeqNums(side_cr, o, amount)
           answer == [type |-> "ConfirmResponse", order |-> o, status |-> "Authorized",
                      seq_nums |-> seq_nums]
<1>1. /\ order[o].status = "Queued" /\ confirms[o] < MaxConfirms
      /\ confirms' = [confirms EXCEPT ![o] = @ + 1] /\ AskConfirm(o, amount)
      /\ requests' = requests /\ transfers' = transfers /\ acks' = acks
      /\ order' = order /\ notices' = notices
  BY DEF MintIndexOrder
<1>2. /\ SideSound(side_cr) /\ o \in PaymentIds
      /\ order \in [Orders -> SolverOrder] /\ confirms \in [Orders -> 0 .. MaxConfirms]
  BY InvFacts, PaymentsFinite
<1>3. /\ confirms[o] = 0 /\ confirms' \in [Orders -> 0 .. MaxConfirms] /\ confirms'[o] = 1
      /\ \A x \in Orders \ {o} : confirms'[x] = confirms[x]
  BY <1>1, <1>2
<1>4. amount = AuthorisedFor(side_cr, o) /\ amount \in Nat
  BY <1>2, <1>3, AuthorisedNat DEF Inv, Accounts, AuthorisedOnce
<1>5. CanConfirm(side_cr, amount)
  BY <1>2, <1>4, AuthorisedWithin DEF CanConfirm
<1>6. side_cr' = ConfirmPayment(side_cr, o, amount) /\ events' = Append(events, answer)
  BY <1>1, <1>5 DEF AskConfirm
<1>7. seq_nums \in Seq(Deposits)
  BY <1>2, <1>4, SeqNumsTyped
<1> HIDE DEF seq_nums, amount
<1>8. /\ answer \in Event /\ answer.type # "CollateralReady" /\ answer.order = o
      /\ Promise(answer) = 0
  BY <1>7 DEF Event, Promise
<1> HIDE DEF answer
<1>9. /\ SideSound(side_cr') /\ Deposited(side_cr') = Deposited(side_cr)
      /\ FollowsOwn(side_cr', side_cr)
      /\ side_cr'.unconfirmed = side_cr.unconfirmed /\ side_cr'.ready = side_cr.ready
      /\ side_cr'.preauth = side_cr.preauth - amount /\ side_cr'.spent = side_cr.spent + amount
      /\ AuthorisedFor(side_cr', o) = 0
      /\ \A q \in PaymentIds \ {o} : AuthorisedFor(side_cr', q) = AuthorisedFor(side_cr, q)
  <2>1. SideSound(side_cr) /\ o \in PaymentIds /\ amount = AuthorisedFor(side_cr, o)
    BY <1>2, <1>4
  <2>2. side_cr' = ConfirmPayment(side_cr, o, amount)
    BY <1>6
  <2>3. SpentFrom(side_cr', side_cr, o, amount)
    BY <2>1, <2>2, ConfirmSound
  <2> QED  BY <2>3 DEF SpentFrom
<1>10. /\ events' \in Seq(Event) /\ RoutedIn(events') = RoutedIn(events)
       /\ AnsweredIn(events') = AnsweredIn(events) \cup {o} /\ Once(events')
       /\ Promised(events') = Promised(events)
  <2>1. events \in Seq(Event) /\ answer \in Event /\ Once(events) /\ Promise(answer) = 0
        /\ answer.type # "CollateralReady" /\ answer.order = o /\ events' = Append(events, answer)
    BY <1>6, <1>8, InvFacts
  <2>2. /\ events' \in Seq(Event) /\ RoutedIn(events') = RoutedIn(events) \cup {}
        /\ AnsweredIn(events') = AnsweredIn(events) \cup {o}
        /\ Once(events) /\ RoutedIn(events) \cap {} = {} => Once(events')
        /\ Promised(events') = Promised(events) + Promise(answer)
    BY <2>1, EventsAppend
  <2>3. Promised(events) \in Nat
    BY <2>1, EventsFacts
  <2> QED  BY <2>1, <2>2, <2>3
<1>11. Types'
  <2>1. side_cr' \in CollateralSide
    BY <1>9 DEF SideSound
  <2> QED  BY <1>1, <1>3, <1>10, <2>1, InvFacts, TypesNext
<1>12. Accounts'
  <2>1. DepositsBooked'
    <3>1. Balance(side_cr') = Balance(side_cr)
      BY <1>2, <1>4, <1>9, BalanceFields DEF Balance
    <3> QED  BY <1>1, <1>9, <3>1 DEF Inv, Accounts, DepositsBooked
  <2>2. AuthorisedOnce'
    <3> SUFFICES ASSUME NEW p \in PaymentIds
                 PROVE  AuthorisedFor(side_cr', p)
                          = IF p \in Orders /\ confirms'[p] = 0 THEN order'[p].routed ELSE 0
      BY DEF AuthorisedOnce
    <3>1. CASE p = o
      BY <1>3, <1>9, <3>1
    <3>2. CASE p # o
      <4>1. AuthorisedFor(side_cr, p)
              = IF p \in Orders /\ confirms[p] = 0 THEN order[p].routed ELSE 0
        BY DEF Inv, Accounts, AuthorisedOnce
      <4>2. p \in Orders => confirms'[p] = confirms[p]
        BY <1>3, <3>2
      <4> QED  BY <1>1, <1>9, <3>2, <4>1, <4>2
    <3> QED  BY <3>1, <3>2
  <2> QED  BY <1>9, <2>1, <2>2 DEF Accounts
<1>13. PromisesKept'
  BY <1>9, <1>10, InvFacts DEF PromisesKept
<1>14. OneRoute' /\ EnRoute' \subseteq EnRoute
  BY <1>1, <1>10, InvFacts, OneRouteLess
<1>15. RoutedOnce'
  <2>1. o \notin EnRoute
    BY <1>1, InvFacts DEF RoutedOnce
  <2>2. Answered' \subseteq Answered \cup {o}
    BY <1>1, <1>10 DEF Answered
  <2>3. order'[o].status \notin {"New", "Open"}
    BY <1>1
  <2> QED  BY <1>1, <1>3, <1>14, <2>1, <2>2, <2>3, OneLeaves
<1>16. FeesCovered'
  BY <1>1, InvFacts DEF FeesCovered
<1> QED  BY <1>9, <1>11, <1>12, <1>13, <1>14, <1>15, <1>16 DEF Inv, Routes

-----------------------------------------------------------------------------
(* Hops of a route.                                                        *)

\* The fields of a transfer.
LEMMA TransferFields ==
    ASSUME NEW t \in Transfer
    PROVE  /\ t.order \in Orders /\ t.hop \in 1 .. Hops /\ t.amount \in Nat /\ t.fee \in Nat
           /\ Hops \in Nat
  BY ConstantsAssumption DEF Transfer

\* A route ends with an announcement, and what it announces is there.
LEMMA RouteEnds ==
    ASSUME Inv, NEW t \in transfers, transfers' = transfers \ {t},
           NEW status \in {"Ready", "NotReady"}, NEW amount \in Nat,
           events' = Append(events, CollateralReady(t.order, status, amount)),
           Settles(side_cr', side_cr),
           side_cr'.ready = side_cr.ready + (IF status = "Ready" THEN amount ELSE 0),
           requests' = requests, acks' = acks, order' = order, notices' = notices,
           confirms' = confirms
    PROVE  Inv' /\ FollowsOwn(side_cr', side_cr)
<1> DEFINE o == t.order
           e == CollateralReady(o, status, amount)
<1>1. o \in Orders /\ o \in OnTheWay(transfers)
  BY InvFacts, TransferFields DEF OnTheWay
<1>2. /\ e \in Event /\ e.type = "CollateralReady" /\ e.order = o
      /\ Promise(e) = IF status = "Ready" THEN amount ELSE 0
  BY <1>1 DEF Event, Promise, CollateralReady
<1>3. events' = Append(events, e)
  OBVIOUS
<1> HIDE DEF e, o
<1>4. o \notin RoutedIn(events) /\ o \notin requests /\ Once(events) /\ events \in Seq(Event)
  BY <1>1, InvFacts DEF OneRoute
<1>5. /\ events' \in Seq(Event) /\ RoutedIn(events') = RoutedIn(events) \cup {o}
      /\ AnsweredIn(events') = AnsweredIn(events) /\ Once(events')
      /\ Promised(events') = Promised(events) + Promise(e)
  <2>1. /\ events' \in Seq(Event) /\ RoutedIn(events') = RoutedIn(events) \cup {o}
        /\ AnsweredIn(events') = AnsweredIn(events) \cup {}
        /\ Once(events) /\ RoutedIn(events) \cap {o} = {} => Once(events')
        /\ Promised(events') = Promised(events) + Promise(e)
    BY <1>2, <1>3, <1>4, EventsAppend
  <2> QED  BY <1>4, <2>1
<1>6. Accounts' /\ side_cr' \in CollateralSide /\ FollowsOwn(side_cr', side_cr)
  BY AccountsSettled
<1>7. Types'
  BY <1>5, <1>6, InvFacts, TypesNext
<1>8. PromisesKept'
  <2>1. Promised(events) \in Nat /\ Promised(events) <= side_cr.ready /\ side_cr.ready \in Nat
    BY InvFacts, EventsFacts, BalanceFields DEF PromisesKept
  <2>2. Promise(e) \in Nat /\ side_cr'.ready = side_cr.ready + Promise(e)
    BY <1>2, EventFields
  <2> QED  BY <1>5, <2>1, <2>2 DEF PromisesKept
<1>9. /\ o \notin OnTheWay(transfers') /\ OnTheWay(transfers') \subseteq OnTheWay(transfers)
      /\ \A u, v \in transfers' : u.order = v.order => u = v
  <2>1. \A u, v \in transfers : u.order = v.order => u = v
    BY InvFacts DEF OneRoute
  <2> QED  BY <2>1 DEF OnTheWay, o
<1>10. OneRoute' /\ EnRoute' \subseteq EnRoute
  <2>1. /\ requests \cap OnTheWay(transfers) = {}
        /\ (requests \cup OnTheWay(transfers)) \cap RoutedIn(events) = {}
    BY InvFacts DEF OneRoute
  <2>2. OneRoute'
    <3>1. requests' \cap OnTheWay(transfers') = {}
      BY <1>9, <2>1
    <3>2. (requests' \cup OnTheWay(transfers')) \cap RoutedIn(events') = {}
      <4>1. requests' \cup OnTheWay(transfers') \subseteq requests \cup OnTheWay(transfers)
        BY <1>9
      <4>2. o \notin requests' \cup OnTheWay(transfers')
        BY <1>4, <1>9
      <4> QED  BY <1>5, <2>1, <4>1, <4>2
    <3> QED  BY <1>5, <1>9, <3>1, <3>2 DEF OneRoute
  <2>3. EnRoute' \subseteq EnRoute
    BY <1>1, <1>5, <1>9 DEF EnRoute
  <2> QED  BY <2>2, <2>3
<1>11. Answered' \subseteq Answered
  BY <1>5 DEF Answered
<1>12. RoutedOnce'
  BY <1>10, <1>11, InvFacts, RoutedSame
<1>13. FeesCovered'
  BY InvFacts DEF FeesCovered
<1> QED  BY <1>6, <1>7, <1>8, <1>10, <1>12, <1>13 DEF Inv, Routes

\* Products, place by place.
LEMMA Products ==
    /\ \A a, b, c \in Nat : b <= c => a * b <= a * c
    /\ \A a, b \in Nat : a >= 1 => a * b = (a - 1) * b + b
  OBVIOUS

\* The fees of the hops that are left stay covered, so no hop takes more than there is.
LEMMA HopCovered ==
    ASSUME NEW t \in Transfer, Covered(t), NEW fee \in Fees,
           NEW amount, amount = t.amount - fee \/ amount = t.amount
    PROVE  /\ amount \in Nat
           /\ \E f \in Fees : OrderAmount[t.order] <= amount + t.hop * f
<1>1. /\ t.order \in Orders /\ t.hop \in Nat /\ 1 <= t.hop /\ t.hop <= Hops
      /\ t.amount \in Nat /\ Hops \in Nat /\ OrderAmount[t.order] \in Nat
  BY TransferFields, ConstantsAssumption
<1>2. PICK f \in Fees : OrderAmount[t.order] <= t.amount + (t.hop - 1) * f
  BY DEF Covered
<1>3. f \in Nat /\ fee \in Nat /\ \A x \in Fees : Hops * x < OrderAmount[t.order]
  BY <1>1, ConstantsAssumption
<1> DEFINE m == IF f <= fee THEN fee ELSE f
<1>4. m \in Fees /\ m \in Nat /\ f <= m /\ fee <= m
  BY <1>3
<1> HIDE DEF m
<1>5. (t.hop - 1) * f <= (t.hop - 1) * m /\ (t.hop - 1) * m \in Nat /\ (t.hop - 1) * f \in Nat
  <2>1. t.hop - 1 \in Nat
    BY <1>1
  <2> QED  BY <1>3, <1>4, <2>1, Products
<1>6. t.hop * m = (t.hop - 1) * m + m
  BY <1>1, <1>4, Products
<1>7. t.hop * m <= Hops * m /\ Hops * m < OrderAmount[t.order]
  <2>1. m * t.hop <= m * Hops
    BY <1>1, <1>4, Products
  <2> QED  BY <1>1, <1>3, <1>4, <2>1
<1> DEFINE before == (t.hop - 1) * f
           less == (t.hop - 1) * m
           all == t.hop * m
           most == Hops * m
<1>8. /\ before \in Nat /\ less \in Nat /\ before <= less /\ all = less + m
      /\ all <= most /\ most < OrderAmount[t.order] /\ most \in Int
      /\ OrderAmount[t.order] <= t.amount + before
  BY <1>1, <1>2, <1>4, <1>5, <1>6, <1>7
<1> HIDE DEF before, less, all, most
<1>9. amount \in Int /\ OrderAmount[t.order] <= amount + all
  BY <1>1, <1>3, <1>4, <1>8
<1>10. amount \in Nat
  BY <1>1, <1>8, <1>9
<1> QED  BY <1>4, <1>9, <1>10 DEF all

\* A transfer that failed is written off (handle_collateral_transfer_event).
LEMMA HopFailedStep ==
    ASSUME Inv, NEW t \in transfers, HopFailed(t)
    PROVE  Inv' /\ FollowsOwn(side_cr', side_cr)
<1> DEFINE booked == IF CanAddReady(side_cr, t.fee) THEN BookRecords(side_cr, 0, t.fee) ELSE side_cr
<1>1. /\ transfers' = transfers \ {t} /\ side_cr' = CloseAllLots(booked)
      /\ events' = Append(events, CollateralReady(t.order, "NotReady", t.amount))
      /\ requests' = requests /\ acks' = acks /\ order' = order /\ notices' = notices
      /\ confirms' = confirms
  BY DEF HopFailed, TransferFailed
<1>2. t.fee \in Nat /\ t.amount \in Nat /\ SideSound(side_cr) /\ side_cr.ready \in Nat
  BY InvFacts, TransferFields, BalanceFields
<1>3. Settles(booked, side_cr) /\ booked.ready = side_cr.ready
  <2>1. CASE CanAddReady(side_cr, t.fee)
    <3>1. 0 \in Nat /\ 0 + t.fee <= side_cr.unconfirmed /\ side_cr.ready + 0 = side_cr.ready
      BY <1>2, <2>1 DEF CanAddReady
    <3>2. /\ Settles(BookRecords(side_cr, 0, t.fee), side_cr)
          /\ BookRecords(side_cr, 0, t.fee).ready = side_cr.ready + 0
      BY <1>2, <3>1, NothingReserved, BookSettles
    <3> QED  BY <2>1, <3>1, <3>2
  <2>2. CASE ~CanAddReady(side_cr, t.fee)
    BY <1>2, <2>2, SettlesSelf
  <2> QED  BY <2>1, <2>2
<1> HIDE DEF booked
<1>4. SideSound(booked) /\ AuthorisedFor(booked, "System") = 0
  BY <1>3, NothingReserved, PaymentsFinite DEF Settles
<1>5. Settles(CloseAllLots(booked), booked) /\ CloseAllLots(booked).ready = booked.ready
  BY <1>4, CloseAllSettles
<1>6. Settles(side_cr', side_cr) /\ side_cr'.ready = side_cr.ready + 0
  BY <1>1, <1>2, <1>3, <1>5, SettlesChain
<1> QED  BY <1>1, <1>2, <1>6, RouteEnds

\* A hop that completes ends the route or starts the next hop (handle_collateral_router_event).
LEMMA HopCompleteStep ==
    ASSUME Inv, NEW t \in transfers, NEW fee \in Fees, NEW error \in BOOLEAN, NEW lost \in BOOLEAN,
           HopComplete(t, fee, error, lost)
    PROVE  Inv' /\ FollowsOwn(side_cr', side_cr)
<1> DEFINE amount == IF lost THEN t.amount ELSE t.amount - fee
           cumulative == IF lost THEN 0 ELSE t.fee + fee
           next == [t EXCEPT !.hop = @ + 1, !.amount = amount, !.fee = cumulative]
<1>1. /\ t \in Transfer /\ t.order \in Orders /\ t.hop \in 1 .. Hops /\ t.amount \in Nat
      /\ t.fee \in Nat /\ Hops \in Nat /\ fee \in Nat /\ Covered(t)
  BY InvFacts, TransferFields, ConstantsAssumption DEF FeesCovered
<1>2. amount = t.amount - fee \/ amount = t.amount
  OBVIOUS
<1>3. cumulative \in Nat
  BY <1>1
<1> HIDE DEF amount
<1>4. amount \in Nat /\ \E f \in Fees : OrderAmount[t.order] <= amount + t.hop * f
  BY <1>1, <1>2, HopCovered
<1>5. CASE t.hop = Hops
  <2> DEFINE booked == CanAddReady(side_cr, amount + cumulative)
  <2>1. /\ transfers' = transfers \ {t} /\ TransferComplete(t.order, amount, cumulative)
        /\ requests' = requests /\ acks' = acks /\ order' = order /\ notices' = notices
        /\ confirms' = confirms
    BY <1>5 DEF HopComplete, amount
  <2>2. SideSound(side_cr) /\ side_cr.ready \in Nat
    BY InvFacts, BalanceFields
  <2> HIDE DEF cumulative
  <2>3. CASE booked
    <3>1. /\ side_cr' = BookRecords(side_cr, amount, cumulative)
          /\ events' = Append(events, CollateralReady(t.order, "Ready", amount))
      BY <2>1, <2>3 DEF TransferComplete
    <3>2. amount + cumulative <= side_cr.unconfirmed
      BY <2>3 DEF CanAddReady
    <3>3. Settles(side_cr', side_cr) /\ side_cr'.ready = side_cr.ready + amount
      BY <1>3, <1>4, <2>2, <3>1, <3>2, NothingReserved, BookSettles
    <3> QED  BY <1>4, <2>1, <3>1, <3>3, RouteEnds
  <2>4. CASE ~booked
    <3>1. /\ side_cr' = CloseAllLots(side_cr)
          /\ events' = Append(events, CollateralReady(t.order, "NotReady", amount))
      BY <2>1, <2>4 DEF TransferComplete
    <3>2. Settles(side_cr', side_cr) /\ side_cr'.ready = side_cr.ready + 0
      BY <2>2, <3>1, NothingReserved, CloseAllSettles
    <3> QED  BY <1>4, <2>1, <3>1, <3>2, RouteEnds
  <2> QED  BY <2>3, <2>4
<1>6. CASE t.hop # Hops
  <2>1. /\ transfers' = (transfers \ {t}) \cup (IF error THEN {} ELSE {next})
        /\ side_cr' = side_cr /\ events' = events /\ requests' = requests /\ acks' = acks
        /\ order' = order /\ notices' = notices /\ confirms' = confirms
    BY <1>6 DEF HopComplete, amount
  <2>2. /\ next \in Transfer /\ next.order = t.order /\ next.amount = amount
        /\ next.hop = t.hop + 1
    <3>1. t.hop + 1 \in 1 .. Hops
      BY <1>1, <1>6
    <3> HIDE DEF cumulative
    <3> QED  BY <1>1, <1>3, <1>4, <3>1 DEF Transfer
  <2> HIDE DEF next, cumulative
  <2>3. Covered(next)
    <3>1. next.hop - 1 = t.hop
      BY <1>1, <2>2
    <3> QED  BY <1>4, <2>2, <3>1 DEF Covered
  <2>4. Accounts' /\ side_cr' \in CollateralSide /\ FollowsOwn(side_cr', side_cr)
    BY <2>1, AccountsSame
  <2>5. Types'
    <3>1. transfers' \subseteq Transfer
      BY <2>1, <2>2, InvFacts
    <3> QED  BY <2>1, <2>4, <3>1, InvFacts, TypesNext
  <2>6. PromisesKept'
    BY <2>1, InvFacts DEF PromisesKept
  <2>7. /\ OnTheWay(transfers') \subseteq OnTheWay(transfers)
        /\ \A u, v \in transfers' : u.order = v.order => u = v
    <3>1. \A u, v \in transfers : u.order = v.order => u = v
      BY InvFacts DEF OneRoute
    <3>2. \A u \in transfers' : u \in transfers \ {t} \/ u = next
      BY <2>1
    <3>3. \A u \in transfers \ {t} : u.order # t.order
      BY <3>1
    <3>4. ASSUME NEW u \in transfers', NEW v \in transfers', u.order = v.order PROVE u = v
      BY <2>2, <3>1, <3>2, <3>3, <3>4
    <3>5. \A u \in transfers' : \E v \in transfers : u.order = v.order
      BY <2>2, <3>2
    <3>6. OnTheWay(transfers') \subseteq OnTheWay(transfers)
      BY <3>5 DEF OnTheWay
    <3> QED  BY <3>4, <3>6
  <2>8. OneRoute' /\ EnRoute' \subseteq EnRoute
    BY <2>1, <2>7, InvFacts DEF OneRoute, EnRoute
  <2>9. RoutedOnce'
    BY <2>1, <2>8, InvFacts, RoutedSame DEF Answered
  <2>10. FeesCovered'
    <3>1. \A u \in transfers : Covered(u)
      BY InvFacts DEF FeesCovered
    <3>2. \A u \in transfers' : Covered(u)
      BY <2>1, <2>3, <3>1
    <3> QED  BY <3>2 DEF FeesCovered
  <2> QED  BY <2>4, <2>5, <2>6, <2>8, <2>9, <2>10 DEF Inv, Routes
<1> QED  BY <1>5, <1>6

\* Requests are answered or sent on their route (process_collateral).
LEMMA ProcessStep ==
    ASSUME Inv, NEW failed, ProcessCollateral(failed)
    PROVE  Inv' /\ FollowsOwn(side_cr', side_cr)
<1> DEFINE ready == {o \in requests : OrderAmount[o] <= side_cr.unconfirmed}
           later == Answers(requests \ ready, "CheckLater")
           refused == Answers(failed, "NotReady")
           sent == {FirstHop(o) : o \in ready \ failed}
<1>1. /\ requests' = {} /\ failed \subseteq ready
      /\ events' = events \o later \o refused /\ transfers' = transfers \cup sent
      /\ side_cr' = side_cr /\ acks' = acks /\ order' = order /\ notices' = notices
      /\ confirms' = confirms
  BY DEF ProcessCollateral
<1>2. ready \subseteq requests /\ requests \subseteq Orders /\ requests \ ready \in SUBSET Orders
      /\ failed \in SUBSET Orders
  BY <1>1, InvFacts
<1>3. /\ later \in Seq(Event) /\ RoutedIn(later) \subseteq requests \ ready
      /\ AnsweredIn(later) = {} /\ Once(later) /\ Promised(later) = 0
  <2>1. "CheckLater" \in {"CheckLater", "NotReady"}
    OBVIOUS
  <2> HIDE DEF ready
  <2> QED  BY <1>2, <2>1, AnswersFacts
<1>4. /\ refused \in Seq(Event) /\ RoutedIn(refused) \subseteq failed
      /\ AnsweredIn(refused) = {} /\ Once(refused) /\ Promised(refused) = 0
  <2>1. "NotReady" \in {"CheckLater", "NotReady"}
    OBVIOUS
  <2> QED  BY <1>2, <2>1, AnswersFacts
<1>5. /\ sent \subseteq Transfer /\ \A t \in sent : Covered(t)
      /\ OnTheWay(sent) = ready \ failed
      /\ \A t, u \in sent : t.order = u.order => t = u
  <2>1. ASSUME NEW o \in ready \ failed
        PROVE  FirstHop(o) \in Transfer /\ FirstHop(o).order = o /\ Covered(FirstHop(o))
    <3>1. /\ o \in Orders /\ OrderAmount[o] \in Nat /\ Hops \in Nat /\ 1 <= Hops
          /\ Fees \subseteq Nat /\ Fees # {}
      BY <1>2, ConstantsAssumption
    <3>2. FirstHop(o) \in Transfer /\ FirstHop(o).order = o /\ FirstHop(o).hop = 1
          /\ FirstHop(o).amount = OrderAmount[o]
      BY <3>1 DEF FirstHop, Transfer
    <3>3. PICK f \in Fees : f \in Nat
      BY <3>1
    <3>4. OrderAmount[o] <= OrderAmount[o] + (1 - 1) * f
      BY <3>1, <3>3
    <3> QED  BY <3>2, <3>3, <3>4 DEF Covered
  <2> HIDE DEF ready
  <2> QED  BY <2>1 DEF OnTheWay
<1> HIDE DEF ready, later, refused, sent
<1>6. OneRoute /\ Once(events) /\ events \in Seq(Event)
  BY InvFacts
<1>7. /\ requests \cap OnTheWay(transfers) = {}
      /\ (requests \cup OnTheWay(transfers)) \cap RoutedIn(events) = {}
      /\ \A t, u \in transfers : t.order = u.order => t = u
  BY <1>6 DEF OneRoute
<1> DEFINE both == events \o later
<1>8. /\ both \in Seq(Event) /\ RoutedIn(both) = RoutedIn(events) \cup RoutedIn(later)
      /\ AnsweredIn(both) = AnsweredIn(events) /\ Once(both) /\ Promised(both) = Promised(events)
  <2>1. /\ both \in Seq(Event) /\ RoutedIn(both) = RoutedIn(events) \cup RoutedIn(later)
        /\ AnsweredIn(both) = AnsweredIn(events) \cup AnsweredIn(later)
        /\ Once(events) /\ Once(later) /\ RoutedIn(events) \cap RoutedIn(later) = {} => Once(both)
        /\ Promised(both) = Promised(events) + Promised(later)
    BY <1>3, <1>6, EventsBehind
  <2>2. Promised(events) \in Nat /\ RoutedIn(events) \cap RoutedIn(later) = {}
    BY <1>3, <1>6, <1>7, EventsFacts
  <2> QED  BY <1>3, <1>6, <2>1, <2>2
<1> HIDE DEF both
<1>9. /\ events' \in Seq(Event) /\ RoutedIn(events') = RoutedIn(both) \cup RoutedIn(refused)
      /\ AnsweredIn(events') = AnsweredIn(both) /\ Once(events') /\ Promised(events') = Promised(both)
  <2>1. events' = both \o refused
    BY <1>1 DEF both
  <2>2. /\ events' \in Seq(Event) /\ RoutedIn(events') = RoutedIn(both) \cup RoutedIn(refused)
        /\ AnsweredIn(events') = AnsweredIn(both) \cup AnsweredIn(refused)
        /\ Once(both) /\ Once(refused) /\ RoutedIn(both) \cap RoutedIn(refused) = {} => Once(events')
        /\ Promised(events') = Promised(both) + Promised(refused)
    BY <1>4, <1>8, <2>1, EventsBehind
  <2>3. RoutedIn(both) \cap RoutedIn(refused) = {}
    BY <1>1, <1>2, <1>3, <1>4, <1>7, <1>8
  <2>4. Promised(both) \in Nat
    BY <1>8, EventsFacts
  <2> QED  BY <1>4, <1>8, <2>2, <2>3, <2>4
<1>10. Accounts' /\ side_cr' \in CollateralSide /\ FollowsOwn(side_cr', side_cr)
  BY <1>1, AccountsSame
<1>11. Types'
  <2>1. transfers' \subseteq Transfer /\ requests' \subseteq Orders
    BY <1>1, <1>5, InvFacts
  <2> QED  BY <1>1, <1>9, <1>10, <2>1, InvFacts, TypesNext
<1>12. PromisesKept'
  BY <1>1, <1>8, <1>9, InvFacts DEF PromisesKept
<1>13. OnTheWay(transfers') = OnTheWay(transfers) \cup (ready \ failed)
  <2>1. OnTheWay(transfers') = OnTheWay(transfers) \cup OnTheWay(sent)
    BY <1>1 DEF OnTheWay
  <2> QED  BY <1>5, <2>1
<1>14. RoutedIn(events') \subseteq RoutedIn(events) \cup (requests \ ready) \cup failed
  BY <1>3, <1>4, <1>8, <1>9
<1>15. OneRoute' /\ EnRoute' \subseteq EnRoute
  <2>1. \A t, u \in transfers' : t.order = u.order => t = u
    <3>1. \A t \in transfers, u \in sent : t.order # u.order
      BY <1>2, <1>5, <1>7 DEF OnTheWay
    <3> QED  BY <1>1, <1>5, <1>7, <3>1
  <2>2. OnTheWay(transfers') \cap RoutedIn(events') = {}
    BY <1>1, <1>2, <1>7, <1>13, <1>14
  <2>3. OneRoute'
    BY <1>1, <1>9, <2>1, <2>2 DEF OneRoute
  <2>4. EnRoute' \subseteq EnRoute
    BY <1>1, <1>2, <1>13, <1>14 DEF EnRoute
  <2> QED  BY <2>3, <2>4
<1>16. RoutedOnce'
  <2>1. Answered' = Answered
    BY <1>1, <1>8, <1>9 DEF Answered
  <2> QED  BY <1>1, <1>15, <2>1, InvFacts, RoutedSame
<1>17. FeesCovered'
  <2>1. \A t \in transfers' : Covered(t)
    BY <1>1, <1>5, InvFacts DEF FeesCovered
  <2> QED  BY <2>1 DEF FeesCovered
<1> QED  BY <1>10, <1>11, <1>12, <1>15, <1>16, <1>17 DEF Inv, Routes

-----------------------------------------------------------------------------
(* The theorems.                                                           *)

\* Nothing adds up to nothing.
LEMMA NothingHeld ==
    ASSUME NEW f, DOMAIN f = {}
    PROVE  Total(f) = 0
  BY SumEmpty DEF Total

\* Nothing is there at first.
LEMMA InitInv ==
    ASSUME Init
    PROVE  Inv
<1>1. /\ side_cr = [open_lots |-> <<>>, closed_lots |-> <<>>,
                    unconfirmed |-> 0, ready |-> 0, preauth |-> 0, spent |-> 0]
      /\ requests = {} /\ transfers = {} /\ events = <<>> /\ acks = <<>>
      /\ order = [o \in Orders |-> [status |-> "New", routed |-> 0, seq_num |-> 0]]
      /\ notices = [d \in Deposits |-> 0] /\ confirms = [o \in Orders |-> 0]
  BY DEF Init
<1>2. DOMAIN <<>> = {}
  OBVIOUS
<1>3. side_cr \in CollateralSide
  <2>1. <<>> \in Seq(CollateralLot)
    BY EmptySeq
  <2> HIDE DEF CollateralLot
  <2> QED  BY <1>1, <2>1 DEF CollateralSide
<1>4. Types
  <2>1. events \in Seq(Event) /\ acks \in Seq(Orders)
    BY <1>1, EmptySeq
  <2>2. order \in [Orders -> SolverOrder]
    BY <1>1 DEF SolverOrder
  <2>3. MaxNotices \in Nat /\ MaxConfirms \in Nat
    BY ConstantsAssumption
  <2>4. notices \in [Deposits -> 0 .. MaxNotices] /\ confirms \in [Orders -> 0 .. MaxConfirms]
    BY <1>1, <2>3
  <2>5. \A i \in DOMAIN events : events[i].order \in Orders
    BY <1>1, <1>2
  <2> QED  BY <1>1, <1>3, <2>1, <2>2, <2>4, <2>5 DEF Types, TypeOK
<1>5. side_cr.open_lots = <<>> /\ side_cr.closed_lots = <<>>
      /\ side_cr.unconfirmed = 0 /\ side_cr.ready = 0 /\ side_cr.preauth = 0 /\ side_cr.spent = 0
  BY <1>1
<1>6. /\ Total(Unconfirmed(<<>>)) = 0 /\ Total(Ready(<<>>)) = 0 /\ Total(Preauth(<<>>)) = 0
      /\ Total(SpentIn(<<>>)) = 0 /\ \A p \in PaymentIds : Total(Authorised(<<>>, p)) = 0
  BY <1>2, NothingHeld DEF Unconfirmed, Ready, Preauth, SpentIn, Authorised
<1>7. SideSound(side_cr)
  BY <1>2, <1>3, <1>5, <1>6 DEF SideSound, Apart
<1>8. Deposited(side_cr) = {} /\ {d \in Deposits : notices[d] > 0} = {}
  BY <1>1, <1>2, <1>5 DEF Deposited, SeqNumsOf
<1>9. DepositsBooked
  <2>1. Balance(side_cr) = 0
    BY <1>5 DEF Balance
  <2> QED  BY <1>8, <2>1, SumEmpty DEF DepositsBooked
<1>10. AuthorisedOnce
  <2>1. \A p \in Orders : order[p].routed = 0
    BY <1>1
  <2> QED  BY <1>5, <1>6, <2>1 DEF AuthorisedOnce, AuthorisedFor
<1>11. PromisesKept
  <2>1. Promised(events) = 0
    BY <1>1, <1>2, NothingHeld DEF Promised
  <2> QED  BY <1>5, <2>1 DEF PromisesKept
<1>12. OneRoute /\ EnRoute = {} /\ Answered = {}
  BY <1>1, <1>2 DEF OneRoute, EnRoute, Answered, OnTheWay, RoutedIn, AnsweredIn, AckedIn, Once
<1>13. RoutedOnce
  BY <1>1, <1>12 DEF RoutedOnce, Unrouted
<1>14. FeesCovered
  BY <1>1 DEF FeesCovered
<1> QED  BY <1>4, <1>7, <1>9, <1>10, <1>11, <1>12, <1>13, <1>14 DEF Inv, Accounts, Routes

\* Every step keeps the invariant, and no payment takes what is not its own.
LEMMA StepInv ==
    ASSUME MaxConfirms = 1, Inv, Next
    PROVE  Inv' /\ FollowsOwn(side_cr', side_cr)
<1>1. ASSUME NEW d \in Deposits, HandleDeposit(d) PROVE Inv' /\ FollowsOwn(side_cr', side_cr)
  BY <1>1, DepositStep
<1>2. ASSUME NEW i \in DOMAIN OrderIds, NewOrder(i) PROVE Inv' /\ FollowsOwn(side_cr', side_cr)
  BY <1>2, NewOrderStep
<1>3. ASSUME NEW o \in Orders, CancelOrder(o) PROVE Inv' /\ FollowsOwn(side_cr', side_cr)
  BY <1>3, CancelStep
<1>4. ASSUME NEW t \in transfers, NEW fee \in Fees, NEW error \in {FALSE, BridgeErrors},
             NEW lost \in {FALSE, FeeErrors}, HopComplete(t, fee, error, lost)
      PROVE  Inv' /\ FollowsOwn(side_cr', side_cr)
  <2>1. error \in BOOLEAN /\ lost \in BOOLEAN
    BY ConstantsAssumption
  <2> QED  BY <1>4, <2>1, HopCompleteStep
<1>5. ASSUME NEW t \in transfers, HopFailed(t) PROVE Inv' /\ FollowsOwn(side_cr', side_cr)
  BY <1>5, HopFailedStep
<1>6. ASSUME NEW i \in DOMAIN OrderIds, ManageCollateral(i)
      PROVE  Inv' /\ FollowsOwn(side_cr', side_cr)
  BY <1>6, ManageStep
<1>7. ASSUME NEW failed, ProcessCollateral(failed) PROVE Inv' /\ FollowsOwn(side_cr', side_cr)
  BY <1>7, ProcessStep
<1>8. ASSUME NEW expired \in BOOLEAN, HandleCollateralReady(expired)
      PROVE  Inv' /\ FollowsOwn(side_cr', side_cr)
  BY <1>8, CollateralReadyStep
<1>9. ASSUME HandlePreAuthResponse PROVE Inv' /\ FollowsOwn(side_cr', side_cr)
  BY <1>9, PreAuthStep
<1>10. ASSUME HandleReadyAck PROVE Inv' /\ FollowsOwn(side_cr', side_cr)
  BY <1>10, ReadyAckStep
<1>11. ASSUME NEW o \in Orders, MintIndexOrder(o) PROVE Inv' /\ FollowsOwn(side_cr', side_cr)
  BY <1>11, MintStep
<1>12. ASSUME NEW o \in Orders, RefuseOrder(o) PROVE Inv' /\ FollowsOwn(side_cr', side_cr)
  BY <1>12, RefuseStep
<1>13. ASSUME HandleConfirmResponse PROVE Inv' /\ FollowsOwn(side_cr', side_cr)
  BY <1>13, ConfirmResponseStep
<1>14. CASE ClientStep
  BY <1>1, <1>2, <1>3, <1>14 DEF ClientStep
<1>15. CASE BridgeStep
  BY <1>4, <1>5, <1>15 DEF BridgeStep
<1>16. CASE SolverStep
  BY <1>6, <1>7, <1>8, <1>9, <1>10, <1>11, <1>12, <1>13, <1>16 DEF SolverStep
<1> QED  BY <1>14, <1>15, <1>16 DEF Next

\* A step that changes nothing keeps the invariant.
LEMMA StutterInv ==
    ASSUME Inv, UNCHANGED vars
    PROVE  Inv' /\ FollowsOwn(side_cr', side_cr)
<1>1. /\ side_cr' = side_cr /\ requests' = requests /\ transfers' = transfers /\ events' = events
      /\ acks' = acks /\ order' = order /\ notices' = notices /\ confirms' = confirms
  BY DEF vars
<1>2. Accounts' /\ side_cr' \in CollateralSide /\ FollowsOwn(side_cr', side_cr)
  BY <1>1, AccountsSame
<1>3. Types'
  BY <1>1, <1>2, InvFacts, TypesNext
<1>4. PromisesKept'
  BY <1>1, InvFacts DEF PromisesKept
<1>5. OneRoute' /\ EnRoute' = EnRoute /\ Answered' = Answered
  BY <1>1, InvFacts DEF OneRoute, EnRoute, Answered
<1>6. RoutedOnce'
  BY <1>1, <1>5, InvFacts, RoutedSame
<1>7. FeesCovered'
  BY <1>1, InvFacts DEF FeesCovered
<1> QED  BY <1>2, <1>3, <1>4, <1>5, <1>6, <1>7 DEF Inv, Routes

\* The views of lots put behind each other.
LEMMA ViewsJoined ==
    ASSUME NEW u \in Seq(CollateralLot), NEW v \in Seq(CollateralLot)
    PROVE  /\ Total(Unconfirmed(u \o v)) = Total(Unconfirmed(u)) + Total(Unconfirmed(v))
           /\ Total(Ready(u \o v)) = Total(Ready(u)) + Total(Ready(v))
           /\ Total(Preauth(u \o v)) = Total(Preauth(u)) + Total(Preauth(v))
           /\ Total(SpentIn(u \o v)) = Total(SpentIn(u)) + Total(SpentIn(v))
<1> DEFINE m == Len(u)
           n == Len(v)
           w == u \o v
<1>1. /\ m \in Nat /\ n \in Nat /\ w \in Seq(CollateralLot) /\ Len(w) = m + n
      /\ \A i \in 1 .. m : w[i] = u[i] /\ i \in 1 .. m + n
      /\ \A i \in 1 .. n : w[m + i] = v[i] /\ m + i \in 1 .. m + n
  BY ConcatPlaces
<1> HIDE DEF w, m, n
<1>2. /\ DOMAIN Unconfirmed(u) = 1 .. m /\ Unconfirmed(u) \in [1 .. m -> Nat]
      /\ DOMAIN Ready(u) = 1 .. m /\ Ready(u) \in [1 .. m -> Nat]
      /\ DOMAIN Preauth(u) = 1 .. m /\ Preauth(u) \in [1 .. m -> Nat]
      /\ DOMAIN SpentIn(u) = 1 .. m /\ SpentIn(u) \in [1 .. m -> Nat]
      /\ \A i \in 1 .. m : /\ Unconfirmed(u)[i] = u[i].unconfirmed /\ Ready(u)[i] = u[i].ready
                           /\ Preauth(u)[i] = u[i].preauth /\ SpentIn(u)[i] = u[i].spent
  BY HeldFacts DEF m
<1>3. /\ DOMAIN Unconfirmed(v) = 1 .. n /\ Unconfirmed(v) \in [1 .. n -> Nat]
      /\ DOMAIN Ready(v) = 1 .. n /\ Ready(v) \in [1 .. n -> Nat]
      /\ DOMAIN Preauth(v) = 1 .. n /\ Preauth(v) \in [1 .. n -> Nat]
      /\ DOMAIN SpentIn(v) = 1 .. n /\ SpentIn(v) \in [1 .. n -> Nat]
      /\ \A i \in 1 .. n : /\ Unconfirmed(v)[i] = v[i].unconfirmed /\ Ready(v)[i] = v[i].ready
                           /\ Preauth(v)[i] = v[i].preauth /\ SpentIn(v)[i] = v[i].spent
  BY HeldFacts DEF n
<1>4. /\ DOMAIN Unconfirmed(w) = 1 .. m + n /\ DOMAIN Ready(w) = 1 .. m + n
      /\ DOMAIN Preauth(w) = 1 .. m + n /\ DOMAIN SpentIn(w) = 1 .. m + n
      /\ \A i \in 1 .. m + n :
            /\ Unconfirmed(w)[i] = w[i].unconfirmed /\ Ready(w)[i] = w[i].ready
            /\ Preauth(w)[i] = w[i].preauth /\ SpentIn(w)[i] = w[i].spent
  BY <1>1, HeldFacts
<1>5. ASSUME NEW i \in 1 .. m
      PROVE /\ Unconfirmed(u)[i] \in Int /\ Unconfirmed(w)[i] = Unconfirmed(u)[i]
            /\ Ready(u)[i] \in Int /\ Ready(w)[i] = Ready(u)[i]
            /\ Preauth(u)[i] \in Int /\ Preauth(w)[i] = Preauth(u)[i]
            /\ SpentIn(u)[i] \in Int /\ SpentIn(w)[i] = SpentIn(u)[i]
  <2>1. w[i] = u[i] /\ i \in 1 .. m + n
    BY <1>1
  <2>2. /\ Unconfirmed(u)[i] \in Nat /\ Ready(u)[i] \in Nat
        /\ Preauth(u)[i] \in Nat /\ SpentIn(u)[i] \in Nat
    BY <1>2
  <2>3. /\ Unconfirmed(u)[i] = u[i].unconfirmed /\ Ready(u)[i] = u[i].ready
        /\ Preauth(u)[i] = u[i].preauth /\ SpentIn(u)[i] = u[i].spent
    BY <1>2
  <2>4. /\ Unconfirmed(w)[i] = w[i].unconfirmed /\ Ready(w)[i] = w[i].ready
        /\ Preauth(w)[i] = w[i].preauth /\ SpentIn(w)[i] = w[i].spent
    BY <1>4, <2>1
  <2> QED  BY <2>1, <2>2, <2>3, <2>4
<1>6. ASSUME NEW i \in 1 .. n
      PROVE /\ Unconfirmed(v)[i] \in Int /\ Unconfirmed(w)[m + i] = Unconfirmed(v)[i]
            /\ Ready(v)[i] \in Int /\ Ready(w)[m + i] = Ready(v)[i]
            /\ Preauth(v)[i] \in Int /\ Preauth(w)[m + i] = Preauth(v)[i]
            /\ SpentIn(v)[i] \in Int /\ SpentIn(w)[m + i] = SpentIn(v)[i]
  <2>1. w[m + i] = v[i] /\ m + i \in 1 .. m + n
    BY <1>1
  <2>2. /\ Unconfirmed(v)[i] \in Nat /\ Ready(v)[i] \in Nat
        /\ Preauth(v)[i] \in Nat /\ SpentIn(v)[i] \in Nat
    BY <1>3
  <2>3. /\ Unconfirmed(v)[i] = v[i].unconfirmed /\ Ready(v)[i] = v[i].ready
        /\ Preauth(v)[i] = v[i].preauth /\ SpentIn(v)[i] = v[i].spent
    BY <1>3
  <2>4. /\ Unconfirmed(w)[m + i] = w[m + i].unconfirmed /\ Ready(w)[m + i] = w[m + i].ready
        /\ Preauth(w)[m + i] = w[m + i].preauth /\ SpentIn(w)[m + i] = w[m + i].spent
    BY <1>4, <2>1
  <2> QED  BY <2>1, <2>2, <2>3, <2>4
<1>7. Joined(Unconfirmed(u), Unconfirmed(v), Unconfirmed(w), m, n)
  BY <1>1, <1>2, <1>3, <1>4, <1>5, <1>6 DEF Joined
<1>8. Joined(Ready(u), Ready(v), Ready(w), m, n)
  BY <1>1, <1>2, <1>3, <1>4, <1>5, <1>6 DEF Joined
<1>9. Joined(Preauth(u), Preauth(v), Preauth(w), m, n)
  BY <1>1, <1>2, <1>3, <1>4, <1>5, <1>6 DEF Joined
<1>10. Joined(SpentIn(u), SpentIn(v), SpentIn(w), m, n)
  BY <1>1, <1>2, <1>3, <1>4, <1>5, <1>6 DEF Joined
<1> QED  BY <1>7, <1>8, <1>9, <1>10, TotalBehind DEF w

\* What the invariant says of the accounts.
LEMMA AccountsFollow ==
    ASSUME Inv
    PROVE  AccountsAgree
<1> DEFINE u == side_cr.open_lots
           v == side_cr.closed_lots
<1>1. /\ SideSound(side_cr) /\ side_cr \in CollateralSide /\ u \in Seq(CollateralLot)
      /\ v \in Seq(CollateralLot)
  BY InvFacts, SideFields
<1>2. BalancesMatchLots
  <2>1. \A i \in DOMAIN v : v[i].unconfirmed = 0 /\ v[i].ready = 0 /\ v[i].preauth = 0
    BY <1>1 DEF SideSound, Over
  <2>2. Len(v) \in Nat /\ DOMAIN v = 1 .. Len(v)
    BY <1>1, LotsFacts
  <2>3. \A i \in 1 .. Len(v) : Unconfirmed(v)[i] = 0 /\ Ready(v)[i] = 0 /\ Preauth(v)[i] = 0
    BY <1>1, <2>1, <2>2, HeldFacts
  <2>4. /\ DOMAIN Unconfirmed(v) = 1 .. Len(v) /\ DOMAIN Ready(v) = 1 .. Len(v)
        /\ DOMAIN Preauth(v) = 1 .. Len(v)
    BY <1>1, HeldFacts
  <2> HIDE DEF v
  <2>5. /\ Total(Unconfirmed(v)) = 0 /\ Total(Ready(v)) = 0 /\ Total(Preauth(v)) = 0
    <3>1. \A i \in 1 .. Len(v) : Unconfirmed(v)[i] \in Int /\ Ready(v)[i] \in Int /\ Preauth(v)[i] \in Int
      BY <2>3
    <3>2. Total(Unconfirmed(v)) = 0
      BY <2>2, <2>3, <2>4, <3>1, TotalFacts
    <3>3. Total(Ready(v)) = 0
      BY <2>2, <2>3, <2>4, <3>1, TotalFacts
    <3>4. Total(Preauth(v)) = 0
      BY <2>2, <2>3, <2>4, <3>1, TotalFacts
    <3> QED  BY <3>2, <3>3, <3>4
  <2>6. /\ side_cr.unconfirmed = Total(Unconfirmed(u)) /\ side_cr.unconfirmed \in Nat
        /\ side_cr.ready = Total(Ready(u)) /\ side_cr.ready \in Nat
        /\ side_cr.preauth = Total(Preauth(u)) /\ side_cr.preauth \in Nat
        /\ side_cr.spent = Total(SpentIn(u)) + Total(SpentIn(v))
    BY <1>1, BalanceFields DEF SideSound, v
  <2> HIDE DEF u
  <2>7. /\ Total(Unconfirmed(u \o v)) = Total(Unconfirmed(u)) + Total(Unconfirmed(v))
        /\ Total(Ready(u \o v)) = Total(Ready(u)) + Total(Ready(v))
        /\ Total(Preauth(u \o v)) = Total(Preauth(u)) + Total(Preauth(v))
        /\ Total(SpentIn(u \o v)) = Total(SpentIn(u)) + Total(SpentIn(v))
    BY <1>1, ViewsJoined
  <2>8. /\ side_cr.unconfirmed = Total(Unconfirmed(u \o v)) /\ side_cr.ready = Total(Ready(u \o v))
        /\ side_cr.preauth = Total(Preauth(u \o v)) /\ side_cr.spent = Total(SpentIn(u \o v))
    BY <2>5, <2>6, <2>7
  <2> QED  BY <2>8 DEF BalancesMatchLots, AllLots, u, v
<1>3. DepositsAccounted
  BY DEF Inv, Accounts, DepositsBooked, Balance, DepositsAccounted
<1>4. LotsMatchSpends
  <2>1. ToSet(AllLots) = LotsOf(side_cr)
    BY <1>1, LotsOfFacts DEF AllLots
  <2>2. \A lot \in LotsOf(side_cr) : LotSound(lot)
    BY <1>1 DEF LotsOf, SideSound
  <2> QED  BY <2>1, <2>2 DEF LotsMatchSpends, LotSound
<1>5. ReadyReserved
  <2>1. Promised(events) <= side_cr.ready /\ Promised(events) \in Nat /\ side_cr.ready \in Nat
    BY <1>1, InvFacts, EventsFacts, BalanceFields DEF PromisesKept
  <2>2. side_cr.ready >= Promised(events)
    BY <2>1
  <2> QED  BY <2>2 DEF ReadyReserved, Promised, Promise
<1> QED  BY <1>2, <1>3, <1>4, <1>5 DEF AccountsAgree

\* No balance, no lot and no spend of a lot is ever overdrawn.
THEOREM Typed ==
    ASSUME MaxConfirms = 1
    PROVE  Spec => []TypeOK
<1>1. Init => Inv
  BY InitInv
<1>2. Inv /\ [Next]_vars => Inv'
  BY StepInv, StutterInv
<1>3. Inv => TypeOK
  BY DEF Inv, Types
<1> QED  BY <1>1, <1>2, <1>3, PTL DEF Spec

\* The balances are what the lots add up to, every deposit is in them once, each lot is
\* what its payments say, and what routing announced as ready is there.
THEOREM AccountsAlwaysAgree ==
    ASSUME MaxConfirms = 1
    PROVE  Spec => []AccountsAgree
<1>1. Init => Inv
  BY InitInv
<1>2. Inv /\ [Next]_vars => Inv'
  BY StepInv, StutterInv
<1>3. Inv => AccountsAgree
  BY AccountsFollow
<1> QED  BY <1>1, <1>2, <1>3, PTL DEF Spec

\* confirm_payment takes from a lot only what the same order had authorised there.
THEOREM SpendsAlwaysOwn ==
    ASSUME MaxConfirms = 1
    PROVE  Spec => SpendsOwn
<1>1. Init => Inv
  BY InitInv
<1>2. Inv /\ [Next]_vars => Inv'
  BY StepInv, StutterInv
<1>3. Inv /\ [Next]_vars =>
        [\A lot \in ToSet(AllLots), o \in Orders :
            \A after \in ToSet(AllLots') : after.seq_num = lot.seq_num =>
                after.spends[o].spent <= lot.spends[o].spent + lot.spends[o].preauth]_vars
  <2> SUFFICES ASSUME Inv, [Next]_vars
               PROVE  \A lot \in ToSet(AllLots), o \in Orders :
                         \A after \in ToSet(AllLots') : after.seq_num = lot.seq_num =>
                            after.spends[o].spent <= lot.spends[o].spent + lot.spends[o].preauth
    OBVIOUS
  <2>1. Inv' /\ FollowsOwn(side_cr', side_cr)
    BY StepInv, StutterInv
  <2>2. side_cr \in CollateralSide /\ side_cr' \in CollateralSide
    BY <2>1, InvFacts DEF Inv, Accounts, SideSound
  <2>3. ToSet(AllLots) = LotsOf(side_cr) /\ ToSet(AllLots') = LotsOf(side_cr')
    BY <2>2, LotsOfFacts DEF AllLots
  <2> QED  BY <2>1, <2>3 DEF FollowsOwn, SpentOwn
<1> QED  BY <1>1, <1>2, <1>3, PTL DEF Spec, SpendsOwn

=============================================================================
