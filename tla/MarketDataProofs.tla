---------------------------- MODULE MarketDataProofs ----------------------------
(***************************************************************************)
(* Proof that market data implements BookView for every set of symbols,    *)
(* any number of subscribers, updates and failures: what readers see of a  *)
(* symbol is a book that the exchange had, across lost streams, late       *)
(* snapshots and the subscribers that serve the symbol one after another.  *)
(***************************************************************************)
EXTENDS MarketData, CollectionTheorems, SequenceTheorems, FiniteSetTheorems, FunctionTheorems,
        TLAPS

-----------------------------------------------------------------------------
(* A book: events and snapshots.                                           *)

\* What an exchange sends up to its update n, and the books that come of it.
EventsUpTo(n) ==
    {e \in [first : Nat, final : Nat] : 1 <= e.first /\ e.first <= e.final /\ e.final <= n}
BooksUpTo(n) == [last : {None} \cup 0 .. n, requested : BOOLEAN, pending : Seq(EventsUpTo(n)),
                 fresh : BOOLEAN]

\* A book with what its readers see: once it has a snapshot, everything up to its
\* last update.
Matched(n) == {x \in [book : BooksUpTo(n), shown : SUBSET Nat, asked : BOOLEAN] :
                  x.book.last # None => x.shown = 1 .. x.book.last}

\* The book of a record, field by field.
LEMMA BookFacts ==
    ASSUME NEW n \in Nat, NEW b \in BooksUpTo(n)
    PROVE  /\ b = [last |-> b.last, requested |-> b.requested, pending |-> b.pending, fresh |-> b.fresh]
           /\ b.last \in {None} \cup 0 .. n /\ b.requested \in BOOLEAN
           /\ b.pending \in Seq(EventsUpTo(n)) /\ b.fresh \in BOOLEAN
  BY DEF BooksUpTo

\* Asking for a snapshot leaves the book what it was.
LEMMA AskedFacts ==
    ASSUME NEW n \in Nat, NEW b \in BooksUpTo(n)
    PROVE  Asked(b) \in BooksUpTo(n) /\ Asked(b).last = b.last
<1>1. <<>> \in Seq(EventsUpTo(n))
  OBVIOUS
<1> QED  BY <1>1 DEF Asked, BooksUpTo

\* An update is shown when it follows on the last one or overlaps it, and no number is
\* skipped (Book::apply_update).
LEMMA UpdateMatches ==
    ASSUME NEW n \in Nat, NEW x \in Matched(n), NEW e \in EventsUpTo(n)
    PROVE  /\ ApplyUpdate(x, e) \in Matched(n)
           /\ x.book.last = None => /\ ApplyUpdate(x, e).book.last = None
                                    /\ ApplyUpdate(x, e).shown = x.shown
           /\ x.book.last # None => ApplyUpdate(x, e).book.last # None
<1>1. PICK b \in BooksUpTo(n), seen \in SUBSET Nat, asked \in BOOLEAN :
         /\ x = [book |-> b, shown |-> seen, asked |-> asked]
         /\ b.last # None => seen = 1 .. b.last
  <2>1. /\ x = [book |-> x.book, shown |-> x.shown, asked |-> x.asked]
        /\ x.book \in BooksUpTo(n) /\ x.shown \in SUBSET Nat /\ x.asked \in BOOLEAN
        /\ x.book.last # None => x.shown = 1 .. x.book.last
    BY DEF Matched
  <2> QED  BY <2>1
<1>2. e.first \in Nat /\ e.final \in Nat /\ 1 <= e.first /\ e.first <= e.final /\ e.final <= n
  BY DEF EventsUpTo
<1>3. b.last \in {None} \cup 0 .. n
  BY BookFacts
<1>4. CASE b.last = None \/ e.first > b.last + 1
  <2> DEFINE c == [Asked(b) EXCEPT !.pending = Append(@, e)]
             y == [book |-> c, shown |-> seen, asked |-> asked \/ ~b.requested]
  <2>1. ApplyUpdate(x, e) = y
    BY <1>1, <1>4 DEF ApplyUpdate
  <2>2. PICK a \in BooksUpTo(n) : a = Asked(b) /\ a.last = b.last
    BY AskedFacts
  <2>3. Append(a.pending, e) \in Seq(EventsUpTo(n))
    BY <2>2, BookFacts, AppendProperties
  <2>4. c \in BooksUpTo(n) /\ c.last = b.last
    BY <2>2, <2>3 DEF BooksUpTo
  <2> HIDE DEF c
  <2>5. y \in Matched(n) /\ y.book.last = b.last /\ y.shown = seen
    BY <1>1, <2>4 DEF Matched
  <2> QED  BY <1>1, <2>1, <2>5
<1>5. CASE b.last # None /\ ~(e.first > b.last + 1) /\ e.final < b.last
  BY <1>1, <1>5 DEF ApplyUpdate
<1>6. CASE b.last # None /\ ~(e.first > b.last + 1) /\ ~(e.final < b.last)
  <2> DEFINE c == [b EXCEPT !.last = e.final, !.fresh = TRUE]
             y == [book |-> c, shown |-> seen \cup e.first .. e.final, asked |-> asked]
  <2>1. ApplyUpdate(x, e) = y
    BY <1>1, <1>6 DEF ApplyUpdate
  <2>2. e.final \in {None} \cup 0 .. n /\ e.final # None
    BY <1>2 DEF None
  <2>3. c \in BooksUpTo(n) /\ c.last = e.final
    BY <2>2 DEF BooksUpTo
  <2>4. seen \cup e.first .. e.final = 1 .. e.final
    BY <1>1, <1>2, <1>3, <1>6 DEF None
  <2> HIDE DEF c
  <2>5. 1 .. e.final \in SUBSET Nat
    BY <1>2
  <2>6. y \in Matched(n) /\ y.book.last # None
    BY <1>1, <2>2, <2>3, <2>4, <2>5 DEF Matched
  <2> QED  BY <1>1, <1>6, <2>1, <2>6
<1> QED  BY <1>4, <1>5, <1>6

\* The events that waited for a snapshot follow it one by one.
LEMMA ReplayMatches ==
    ASSUME NEW n \in Nat, NEW x \in Matched(n), x.book.last # None, NEW events \in Seq(EventsUpTo(n))
    PROVE  Replay(x, events) \in Matched(n) /\ Replay(x, events).book.last # None
<1> DEFINE L == Len(events)
           Rec(g, k) == g = [m \in 0 .. k |-> IF m = 0 THEN x ELSE ApplyUpdate(g[m - 1], events[m])]
<1>1. L \in Nat /\ \A m \in 1 .. L : events[m] \in EventsUpTo(n)
  BY LenProperties, ElementOfSeq
<1>2. \E g : Rec(g, L)
  <2> DEFINE T == {k \in Nat : \E g : Rec(g, k)}
  <2>1. 0 \in T
    <3>1. Rec([m \in 0 .. 0 |-> x], 0)
      OBVIOUS
    <3> QED  BY <3>1
  <2>2. ASSUME NEW k \in T PROVE k + 1 \in T
    <3>1. PICK g : Rec(g, k)
      OBVIOUS
    <3> DEFINE h == [m \in 0 .. k + 1 |-> IF m = k + 1 THEN ApplyUpdate(g[k], events[k + 1]) ELSE g[m]]
    <3>2. \A m \in 0 .. k : g[m] = IF m = 0 THEN x ELSE ApplyUpdate(g[m - 1], events[m])
      BY <3>1
    <3>3. \A m \in 0 .. k + 1 : h[m] = IF m = 0 THEN x ELSE ApplyUpdate(h[m - 1], events[m])
      <4> SUFFICES ASSUME NEW m \in 0 .. k + 1
                   PROVE  h[m] = IF m = 0 THEN x ELSE ApplyUpdate(h[m - 1], events[m])
        OBVIOUS
      <4>1. CASE m = k + 1
        <5>1. h[m - 1] = g[k] /\ h[m] = ApplyUpdate(g[k], events[k + 1]) /\ m # 0
          BY <4>1
        <5> QED  BY <4>1, <5>1
      <4>2. CASE m # k + 1
        <5>1. m \in 0 .. k /\ h[m] = g[m] /\ (m # 0 => m - 1 \in 0 .. k + 1 /\ h[m - 1] = g[m - 1])
          BY <4>2
        <5> QED  BY <3>2, <5>1
      <4> QED  BY <4>1, <4>2
    <3>4. h = [m \in 0 .. k + 1 |-> h[m]]
      OBVIOUS
    <3> HIDE DEF h
    <3>5. Rec(h, k + 1)
      BY <3>3, <3>4
    <3>6. k + 1 \in Nat
      OBVIOUS
    <3>7. \E f : Rec(f, k + 1)
      BY <3>5
    <3> HIDE DEF Rec
    <3> QED  BY <3>6, <3>7
  <2> HIDE DEF T
  <2>3. T \subseteq Nat
    BY DEF T
  <2>4. T = Nat
    BY <2>1, <2>2, <2>3, NatSetInduction
  <2> QED  BY <1>1, <2>4 DEF T
<1>3. PICK g : Rec(g, L) /\ Replay(x, events) = g[L]
  <2> DEFINE after == CHOOSE g : Rec(g, L)
  <2>1. Rec(after, L)
    BY <1>2
  <2>2. Replay(x, events) = after[L]
    BY DEF Replay
  <2> QED  BY <2>1, <2>2
<1>4. \A m \in 0 .. L : g[m] = IF m = 0 THEN x ELSE ApplyUpdate(g[m - 1], events[m])
  BY <1>3
<1> DEFINE Good == {k \in Nat : k <= L => g[k] \in Matched(n) /\ g[k].book.last # None}
<1>5. 0 \in Good
  BY <1>1, <1>4
<1>6. ASSUME NEW k \in Good PROVE k + 1 \in Good
  <2> SUFFICES ASSUME k + 1 <= L PROVE g[k + 1] \in Matched(n) /\ g[k + 1].book.last # None
    OBVIOUS
  <2>1. g[k] \in Matched(n) /\ g[k].book.last # None
    BY <1>1
  <2>2. g[k + 1] = ApplyUpdate(g[k], events[k + 1]) /\ events[k + 1] \in EventsUpTo(n)
    BY <1>1, <1>4
  <2> QED  BY <2>1, <2>2, UpdateMatches
<1> HIDE DEF Good
<1>7. Good \subseteq Nat
  BY DEF Good
<1>8. Good = Nat
  BY <1>5, <1>6, <1>7, NatSetInduction
<1>9. L \in Good
  BY <1>1, <1>8
<1> QED  BY <1>3, <1>9 DEF Good

\* A snapshot, with the updates that waited for it, is a book of the exchange, whatever
\* the book was before (Book::apply_snapshot).
LEMMA SnapshotMatches ==
    ASSUME NEW n \in Nat, NEW b \in BooksUpTo(n), NEW id \in 0 .. n
    PROVE  ApplySnapshot(b, id) \in Matched(n) /\ ApplySnapshot(b, id).book.last # None
<1> DEFINE c == [b EXCEPT !.last = id, !.fresh = TRUE, !.requested = FALSE, !.pending = <<>>]
           x == [book |-> c, shown |-> 1 .. id, asked |-> FALSE]
<1>1. <<>> \in Seq(EventsUpTo(n)) /\ id # None
  BY DEF None
<1>2. c \in BooksUpTo(n) /\ c.last = id
  BY <1>1 DEF BooksUpTo
<1>3. ApplySnapshot(b, id) = Replay(x, b.pending)
  BY DEF ApplySnapshot
<1> HIDE DEF c
<1>4. x \in Matched(n) /\ x.book.last # None
  BY <1>1, <1>2 DEF Matched
<1>5. b.pending \in Seq(EventsUpTo(n))
  BY BookFacts
<1> HIDE DEF x
<1> QED  BY <1>3, <1>4, <1>5, ReplayMatches

-----------------------------------------------------------------------------
(* Which subscriber has a symbol.                                          *)

Flights == {NoSnapshot} \cup [symbol : Symbols, id : Nat]
SubscriberTypes ==
    [state : {"connecting", "running", "stopped"}, symbols : SUBSET Symbols, queue : Seq(Symbols),
     books : SUBSET Symbols, requests : Seq(Symbols), inFlight : Flights]

\* A subscriber has books, requests and a snapshot in flight only of its own symbols, and
\* only while it runs.
Sound(x) ==
    /\ \A k \in DOMAIN x.queue : x.queue[k] \in x.symbols
    /\ x.books \subseteq x.symbols
    /\ \A k \in DOMAIN x.requests : x.requests[k] \in x.books
    /\ x.inFlight # NoSnapshot => x.inFlight.symbol \in x.books
    /\ x.state # "running" => x.books = {}

SubscriberSound ==
    /\ subscribers \in Seq(SubscriberTypes)
    /\ \A i \in DOMAIN subscribers : Sound(subscribers[i])

\* A symbol is asked for once, or one subscriber has it.
Apart ==
    /\ wanted \in Seq(Symbols)
    /\ \A k, m \in DOMAIN wanted : wanted[k] = wanted[m] => k = m
    /\ \A i, j \in DOMAIN subscribers : i # j => subscribers[i].symbols \cap subscribers[j].symbols = {}
    /\ \A i \in DOMAIN subscribers : \A k \in DOMAIN wanted : wanted[k] \notin subscribers[i].symbols

\* A stream feeds the book of a subscriber.
Fed == /\ streaming \in SUBSET Symbols
       /\ \A s \in streaming : \E i \in DOMAIN subscribers : s \in subscribers[i].books

Structure == SubscriberSound /\ Apart /\ Fed

\* The subscribers by number.
LEMMA SubscriberFacts ==
    ASSUME Structure
    PROVE  /\ Len(subscribers) \in Nat /\ DOMAIN subscribers = 1 .. Len(subscribers)
           /\ \A i \in DOMAIN subscribers : subscribers[i] \in SubscriberTypes /\ Sound(subscribers[i])
<1>1. PICK subs \in Seq(SubscriberTypes) : subs = subscribers
  BY DEF Structure, SubscriberSound
<1>2. /\ Len(subs) \in Nat /\ DOMAIN subs = 1 .. Len(subs)
      /\ \A i \in DOMAIN subs : subs[i] \in SubscriberTypes
  BY LenProperties, ElementOfSeq
<1> QED  BY <1>1, <1>2 DEF Structure, SubscriberSound

\* Symbols in any order: a sequence of them without a repetition.
LEMMA OrderFacts ==
    ASSUME NEW S, IsFiniteSet(S), NEW order \in SetToSeqs(S)
    PROVE  /\ order \in Seq(S) /\ DOMAIN order = 1 .. Len(order) /\ Len(order) \in Nat
           /\ \A k, m \in DOMAIN order : order[k] = order[m] => k = m
           /\ \A k \in DOMAIN order : order[k] \in S
<1>1. Cardinality(S) \in Nat
  BY FS_CardinalityType
<1>2. /\ order \in [1 .. Cardinality(S) -> S]
      /\ \A k, m \in 1 .. Cardinality(S) : k # m => order[k] # order[m]
  BY DEF SetToSeqs
<1>3. order \in Seq(S) /\ Len(order) = Cardinality(S)
  BY <1>1, <1>2
<1> QED  BY <1>1, <1>2, <1>3

\* No subscriber changes, and no stream opens.
LEMMA StructureStays ==
    ASSUME Structure, UNCHANGED <<subscribers, wanted>>, streaming' \subseteq streaming
    PROVE  Structure'
<1>1. SubscriberSound' /\ Apart'
  BY DEF Structure, SubscriberSound, Apart
<1>2. Fed'
  BY DEF Structure, Fed
<1> QED  BY <1>1, <1>2 DEF Structure

\* A subscriber changes but keeps its symbols. Streams that it feeds have books.
LEMMA SubscriberChanges ==
    ASSUME Structure, NEW i \in DOMAIN subscribers, NEW x \in SubscriberTypes, Sound(x),
           x.symbols = subscribers[i].symbols, UNCHANGED wanted,
           subscribers' = [subscribers EXCEPT ![i] = x],
           streaming' \in SUBSET Symbols,
           \A s \in streaming' : s \in x.books \/ (s \in streaming /\ s \notin subscribers[i].books)
    PROVE  Structure'
<1>1. PICK subs \in Seq(SubscriberTypes) : subs = subscribers
  BY DEF Structure, SubscriberSound
<1>2. /\ subscribers' \in Seq(SubscriberTypes)
      /\ DOMAIN subscribers' = DOMAIN subscribers
      /\ subscribers'[i] = x /\ \A j \in DOMAIN subscribers : j # i => subscribers'[j] = subscribers[j]
  <2>1. subs \in [1 .. Len(subs) -> SubscriberTypes] /\ Len(subs) \in Nat /\ DOMAIN subs = 1 .. Len(subs)
    BY LenProperties
  <2>2. [subs EXCEPT ![i] = x] \in [1 .. Len(subs) -> SubscriberTypes]
    BY <2>1
  <2>3. [subs EXCEPT ![i] = x] \in Seq(SubscriberTypes)
    BY <2>1, <2>2
  <2> QED  BY <1>1, <2>1, <2>2, <2>3
<1>3. SubscriberSound'
  BY <1>2, SubscriberFacts DEF SubscriberSound
<1>4. \A j \in DOMAIN subscribers : subscribers'[j].symbols = subscribers[j].symbols
  BY <1>2
<1>5. Apart'
  BY <1>2, <1>4 DEF Structure, Apart
<1>6. Fed'
  <2> SUFFICES ASSUME NEW s \in streaming'
               PROVE  \E j \in DOMAIN subscribers : s \in subscribers'[j].books
    BY <1>2 DEF Fed
  <2>1. CASE s \in x.books
    BY <1>2, <2>1
  <2>2. CASE s \in streaming /\ s \notin subscribers[i].books
    BY <1>2, <2>2 DEF Structure, Fed
  <2> QED  BY <2>1, <2>2
<1> QED  BY <1>3, <1>5, <1>6 DEF Structure

\* The first of a sequence, and the rest.
LEMMA FirstAndRest ==
    ASSUME NEW S, NEW q \in Seq(S), q # <<>>
    PROVE  /\ Head(q) \in S /\ 1 \in DOMAIN q /\ Head(q) = q[1]
           /\ Tail(q) \in Seq(S)
           /\ \A k \in DOMAIN Tail(q) : k + 1 \in DOMAIN q /\ Tail(q)[k] = q[k + 1] /\ k \in Nat \ {0}
<1>1. /\ Head(q) = q[1] /\ Tail(q) \in Seq(S) /\ Len(Tail(q)) = Len(q) - 1
      /\ \A k \in 1 .. Len(Tail(q)) : Tail(q)[k] = q[k + 1]
  BY HeadTailProperties
<1>2. Len(q) \in Nat /\ Len(q) # 0 /\ DOMAIN q = 1 .. Len(q) /\ q[1] \in S
  BY LenProperties, EmptySeq, ElementOfSeq
<1>3. DOMAIN Tail(q) = 1 .. Len(q) - 1
  BY <1>1, LenProperties
<1> QED  BY <1>1, <1>2, <1>3

\* One more at the end.
LEMMA OneMore ==
    ASSUME NEW S, NEW q \in Seq(S), NEW e \in S
    PROVE  /\ Append(q, e) \in Seq(S)
           /\ \A k \in DOMAIN Append(q, e) : Append(q, e)[k] = e \/ (k \in DOMAIN q /\ Append(q, e)[k] = q[k])
<1> DEFINE r == Append(q, e)
<1>1. /\ r \in Seq(S) /\ Len(r) = Len(q) + 1
      /\ \A k \in 1 .. Len(q) : r[k] = q[k]
      /\ r[Len(q) + 1] = e
  BY AppendProperties
<1>2. Len(q) \in Nat /\ DOMAIN q = 1 .. Len(q) /\ DOMAIN r = 1 .. Len(r)
  BY <1>1, LenProperties
<1> HIDE DEF r
<1>3. \A k \in DOMAIN r : r[k] = e \/ (k \in DOMAIN q /\ r[k] = q[k])
  BY <1>1, <1>2
<1> QED  BY <1>1, <1>3 DEF r

\* A subscriber connects or fails to, and its loop for snapshots begins a call or
\* loses it (BinanceSubscriber).
LEMMA LoopsSound ==
    ASSUME Structure, exchange \in [Symbols -> Nat], NEW i \in DOMAIN subscribers,
           Connect(i) \/ FailToConnect(i) \/ RequestSnapshot(i) \/ LoseSnapshot(i)
    PROVE  Structure'
<1>1. PICK r \in SubscriberTypes : r = subscribers[i] /\ Sound(r)
  BY SubscriberFacts
<1>2. streaming \in SUBSET Symbols
  BY DEF Structure, Fed
<1>3. ASSUME NEW x \in SubscriberTypes, Sound(x), x.symbols = r.symbols, x.books = r.books,
             UNCHANGED <<wanted, streaming>>, subscribers' = [subscribers EXCEPT ![i] = x]
      PROVE  Structure'
  BY <1>1, <1>2, <1>3, SubscriberChanges
<1>4. CASE Connect(i)
  <2> DEFINE x == [r EXCEPT !.state = "running"]
  <2>1. subscribers' = [subscribers EXCEPT ![i] = x] /\ UNCHANGED <<wanted, streaming>>
    BY <1>1, <1>4 DEF Connect, feeds
  <2>2. x \in SubscriberTypes /\ Sound(x) /\ x.symbols = r.symbols /\ x.books = r.books
    BY <1>1 DEF SubscriberTypes, Sound
  <2> QED  BY <1>3, <2>1, <2>2
<1>5. CASE FailToConnect(i)
  <2> DEFINE x == [r EXCEPT !.state = "stopped", !.queue = <<>>]
  <2>1. subscribers' = [subscribers EXCEPT ![i] = x] /\ UNCHANGED <<wanted, streaming>>
    BY <1>1, <1>5 DEF FailToConnect, feeds
  <2>2. r.state = "connecting" /\ r.books = {} /\ <<>> \in Seq(Symbols) /\ DOMAIN <<>> = {}
    BY <1>1, <1>5 DEF FailToConnect, Sound
  <2>3. /\ x \in SubscriberTypes /\ x.symbols = r.symbols /\ x.books = r.books
        /\ x.queue = <<>> /\ x.requests = r.requests /\ x.inFlight = r.inFlight
    BY <1>1, <2>2 DEF SubscriberTypes
  <2>4. Sound(x)
    BY <1>1, <2>2, <2>3 DEF Sound
  <2> HIDE DEF x
  <2> QED  BY <1>3, <2>1, <2>3, <2>4
<1>6. CASE RequestSnapshot(i)
  <2> DEFINE call == [symbol |-> Head(r.requests), id |-> exchange[Head(r.requests)]]
             rest == Tail(r.requests)
             x == [r EXCEPT !.requests = rest, !.inFlight = call]
  <2>1. subscribers' = [subscribers EXCEPT ![i] = x] /\ UNCHANGED <<wanted, streaming>>
    BY <1>1, <1>6 DEF RequestSnapshot, feeds
  <2>2. r.requests # <<>> /\ r.requests \in Seq(Symbols)
    BY <1>1, <1>6 DEF RequestSnapshot, SubscriberTypes
  <2>3. /\ rest \in Seq(Symbols) /\ Head(r.requests) \in r.books
        /\ \A k \in DOMAIN rest : rest[k] \in r.books
    BY <1>1, <2>2, FirstAndRest DEF Sound
  <2>4. call \in Flights /\ call.symbol \in r.books
    BY <1>1, <2>3 DEF Flights, SubscriberTypes
  <2> HIDE DEF call, rest
  <2>5. x \in SubscriberTypes /\ Sound(x) /\ x.symbols = r.symbols /\ x.books = r.books
    BY <1>1, <2>3, <2>4 DEF SubscriberTypes, Sound
  <2> QED  BY <1>3, <2>1, <2>5
<1>7. CASE LoseSnapshot(i)
  <2> DEFINE x == [r EXCEPT !.inFlight = NoSnapshot]
  <2>1. subscribers' = [subscribers EXCEPT ![i] = x] /\ UNCHANGED <<wanted, streaming>>
    BY <1>1, <1>7 DEF LoseSnapshot, feeds
  <2>2. NoSnapshot \in Flights
    BY DEF Flights
  <2>3. x \in SubscriberTypes /\ Sound(x) /\ x.symbols = r.symbols /\ x.books = r.books
    BY <1>1, <2>2 DEF SubscriberTypes, Sound
  <2> QED  BY <1>3, <2>1, <2>3
<1> QED  BY <1>4, <1>5, <1>6, <1>7

\* The next of the queue has its book, and its streams when the exchange answers.
LEMMA AddBookSound ==
    ASSUME Structure, NEW i \in DOMAIN subscribers, NEW subscribed \in BOOLEAN, AddBook(i, subscribed)
    PROVE  Structure'
<1>1. PICK r \in SubscriberTypes : r = subscribers[i] /\ Sound(r)
  BY SubscriberFacts
<1> DEFINE s == Head(r.queue)
           rest == Tail(r.queue)
           x == [r EXCEPT !.queue = rest, !.books = @ \cup {s}]
<1>2. /\ subscribers' = [subscribers EXCEPT ![i] = x] /\ UNCHANGED wanted
      /\ streaming' \subseteq streaming \cup {s}
  BY <1>1 DEF AddBook
<1>3. r.queue # <<>> /\ r.queue \in Seq(Symbols) /\ r.state = "running"
  BY <1>1 DEF AddBook, SubscriberTypes
<1>4. /\ rest \in Seq(Symbols) /\ s \in r.symbols /\ s \in Symbols
      /\ \A k \in DOMAIN rest : rest[k] \in r.symbols
  BY <1>1, <1>3, FirstAndRest DEF Sound
<1> HIDE DEF rest, s
<1>5. x \in SubscriberTypes /\ Sound(x) /\ x.symbols = r.symbols /\ x.books = r.books \cup {s}
  BY <1>1, <1>3, <1>4 DEF SubscriberTypes, Sound
<1>6. streaming' \in SUBSET Symbols /\ \A z \in streaming' : z \in x.books \/ (z \in streaming /\ z \notin r.books)
  BY <1>2, <1>4, <1>5 DEF Structure, Fed
<1> QED  BY <1>1, <1>2, <1>5, <1>6, SubscriberChanges

\* A request for the snapshot of one of its books joins a subscriber's requests.
LEMMA RequestSound ==
    ASSUME Structure, NEW i \in DOMAIN subscribers, NEW s \in subscribers[i].books,
           NEW flight \in {NoSnapshot, subscribers[i].inFlight},
           subscribers' = [subscribers EXCEPT ![i] = [subscribers[i] EXCEPT
                              !.requests = Append(@, s), !.inFlight = flight]],
           UNCHANGED <<wanted, streaming>>
    PROVE  Structure'
<1>1. PICK r \in SubscriberTypes : r = subscribers[i] /\ Sound(r)
  BY SubscriberFacts
<1> DEFINE longer == Append(r.requests, s)
           x == [r EXCEPT !.requests = longer, !.inFlight = flight]
<1>2. subscribers' = [subscribers EXCEPT ![i] = x]
  BY <1>1
<1>3. r.requests \in Seq(Symbols) /\ s \in Symbols
  BY <1>1 DEF SubscriberTypes
<1>4. longer \in Seq(Symbols) /\ \A k \in DOMAIN longer : longer[k] \in r.books
  BY <1>1, <1>3, OneMore DEF Sound
<1>5. flight \in Flights /\ (flight # NoSnapshot => flight.symbol \in r.books)
  BY <1>1 DEF SubscriberTypes, Flights, Sound
<1> HIDE DEF longer
<1>6. x \in SubscriberTypes /\ Sound(x) /\ x.symbols = r.symbols /\ x.books = r.books
  BY <1>1, <1>4, <1>5 DEF SubscriberTypes, Sound
<1>7. streaming \in SUBSET Symbols
  BY DEF Structure, Fed
<1> QED  BY <1>1, <1>2, <1>6, <1>7, SubscriberChanges

\* A depth event, or a snapshot, may show that updates are missing: the subscriber that
\* has the book asks for a snapshot (Book::apply_update).
LEMMA UpdatesSound ==
    ASSUME Structure, NEW s \in Symbols, ApplyBookUpdate(s)
    PROVE  Structure'
<1>1. s \in streaming /\ UNCHANGED <<wanted, streaming>>
  BY DEF ApplyBookUpdate
<1>2. Owner(s) \in DOMAIN subscribers /\ s \in subscribers[Owner(s)].books
  BY <1>1 DEF Structure, Fed, Owner
<1>3. CASE subscribers' = subscribers
  BY <1>1, <1>3, StructureStays
<1>4. CASE subscribers' = [subscribers EXCEPT ![Owner(s)].requests = Append(@, s)]
  <2>1. PICK r \in SubscriberTypes : r = subscribers[Owner(s)]
    BY <1>2, SubscriberFacts
  <2>2. [r EXCEPT !.requests = Append(@, s)]
            = [r EXCEPT !.requests = Append(@, s), !.inFlight = r.inFlight]
    BY DEF SubscriberTypes
  <2>3. subscribers' = [subscribers EXCEPT ![Owner(s)] = [subscribers[Owner(s)] EXCEPT
                           !.requests = Append(@, s), !.inFlight = subscribers[Owner(s)].inFlight]]
    BY <1>4, <2>1, <2>2
  <2> QED  BY <1>1, <1>2, <2>3, RequestSound
<1> QED  BY <1>3, <1>4 DEF ApplyBookUpdate

\* The snapshot that arrives is of a book that the subscriber has.
LEMMA ReceivedFacts ==
    ASSUME Structure, NEW i \in DOMAIN subscribers, ReceiveSnapshot(i)
    PROVE  /\ subscribers[i].inFlight \in [symbol : Symbols, id : Nat]
           /\ subscribers[i].inFlight.symbol \in subscribers[i].books
           /\ subscribers[i].inFlight.symbol \in subscribers[i].symbols
           /\ subscribers[i].state = "running"
<1>1. PICK r \in SubscriberTypes : r = subscribers[i] /\ Sound(r)
  BY SubscriberFacts
<1>2. r.inFlight # NoSnapshot
  BY <1>1 DEF ReceiveSnapshot
<1> QED  BY <1>1, <1>2 DEF Sound, SubscriberTypes, Flights

\* It may leave the book asking for another.
LEMMA ReceivedSound ==
    ASSUME Structure, NEW i \in DOMAIN subscribers, ReceiveSnapshot(i)
    PROVE  Structure'
<1>1. PICK r \in SubscriberTypes : r = subscribers[i] /\ Sound(r)
  BY SubscriberFacts
<1> DEFINE s == r.inFlight.symbol
           served == [subscribers EXCEPT ![i].inFlight = NoSnapshot]
<1>2. s \in subscribers[i].books
  BY <1>1, ReceivedFacts
<1>3. UNCHANGED <<wanted, streaming>>
  BY DEF ReceiveSnapshot, feeds
<1>4. CASE subscribers' = served
  <2> DEFINE x == [r EXCEPT !.inFlight = NoSnapshot]
  <2>1. subscribers' = [subscribers EXCEPT ![i] = x]
    BY <1>1, <1>4
  <2>2. NoSnapshot \in Flights
    BY DEF Flights
  <2>3. x \in SubscriberTypes /\ Sound(x) /\ x.symbols = r.symbols /\ x.books = r.books
    BY <1>1, <2>2 DEF SubscriberTypes, Sound
  <2>4. streaming \in SUBSET Symbols
    BY DEF Structure, Fed
  <2> QED  BY <1>1, <1>3, <2>1, <2>3, <2>4, SubscriberChanges
<1>5. CASE subscribers' = [served EXCEPT ![i].requests = Append(@, s)]
  <2>1. subscribers' = [subscribers EXCEPT ![i] = [[subscribers[i] EXCEPT !.inFlight = NoSnapshot]
                                                    EXCEPT !.requests = Append(@, s)]]
    BY <1>5
  <2>2. [[r EXCEPT !.inFlight = NoSnapshot] EXCEPT !.requests = Append(@, s)]
           = [r EXCEPT !.requests = Append(@, s), !.inFlight = NoSnapshot]
    BY DEF SubscriberTypes
  <2>3. subscribers' = [subscribers EXCEPT ![i] = [subscribers[i] EXCEPT !.requests = Append(@, s),
                                                                         !.inFlight = NoSnapshot]]
    BY <1>1, <2>1, <2>2
  <2> QED  BY <1>2, <1>3, <2>3, RequestSound
<1> QED  BY <1>1, <1>4, <1>5 DEF ReceiveSnapshot

\* Stale books are asked for, in some order.
LEMMA StaleSound ==
    ASSUME IsFiniteSet(Symbols), Structure, NEW i \in DOMAIN subscribers, CheckStale(i)
    PROVE  Structure'
<1>1. PICK r \in SubscriberTypes : r = subscribers[i] /\ Sound(r)
  BY SubscriberFacts
<1>2. ToRequest(i) \subseteq r.books /\ r.books \subseteq Symbols /\ r.requests \in Seq(Symbols)
  BY <1>1 DEF ToRequest, Stale, SubscriberTypes
<1>3. IsFiniteSet(ToRequest(i))
  BY <1>2, FS_Subset
<1>4. PICK order \in SetToSeqs(ToRequest(i)) :
         subscribers' = [subscribers EXCEPT ![i].requests = @ \o order]
  BY DEF CheckStale
<1>5. /\ order \in Seq(Symbols) /\ DOMAIN order = 1 .. Len(order) /\ Len(order) \in Nat
      /\ \A k \in DOMAIN order : order[k] \in r.books
  <2>1. order \in Seq(ToRequest(i)) /\ DOMAIN order = 1 .. Len(order) /\ Len(order) \in Nat
        /\ \A k \in DOMAIN order : order[k] \in ToRequest(i)
    BY <1>3, OrderFacts
  <2> QED  BY <1>2, <2>1
<1> DEFINE longer == r.requests \o order
           x == [r EXCEPT !.requests = longer]
<1>6. subscribers' = [subscribers EXCEPT ![i] = x]
  BY <1>1, <1>4
<1>7. longer \in Seq(Symbols) /\ \A k \in DOMAIN longer : longer[k] \in r.books
  <2>1. PICK q \in Seq(Symbols) : q = r.requests /\ DOMAIN q = 1 .. Len(q) /\ Len(q) \in Nat
    BY <1>2, LenProperties
  <2>2. /\ q \o order \in Seq(Symbols) /\ Len(q \o order) = Len(q) + Len(order)
        /\ \A k \in 1 .. Len(q) + Len(order) :
              (q \o order)[k] = IF k <= Len(q) THEN q[k] ELSE order[k - Len(q)]
    BY <1>5, ConcatProperties
  <2>3. DOMAIN (q \o order) = 1 .. Len(q) + Len(order)
    BY <2>2, LenProperties
  <2>4. ASSUME NEW k \in 1 .. Len(q) + Len(order) PROVE (q \o order)[k] \in r.books
    <3>1. CASE k <= Len(q)
      <4>1. k \in DOMAIN q /\ (q \o order)[k] = q[k]
        BY <2>1, <2>2, <3>1
      <4> QED  BY <1>1, <2>1, <4>1 DEF Sound
    <3>2. CASE ~(k <= Len(q))
      <4>1. k - Len(q) \in DOMAIN order /\ (q \o order)[k] = order[k - Len(q)]
        BY <1>5, <2>1, <2>2, <3>2
      <4> QED  BY <1>5, <4>1
    <3> QED  BY <3>1, <3>2
  <2> QED  BY <2>1, <2>2, <2>3, <2>4
<1> HIDE DEF longer
<1>8. x \in SubscriberTypes /\ Sound(x) /\ x.symbols = r.symbols /\ x.books = r.books
  BY <1>1, <1>7 DEF SubscriberTypes, Sound
<1>9. streaming \in SUBSET Symbols /\ UNCHANGED <<wanted, streaming>>
  BY DEF Structure, Fed, CheckStale, feeds
<1> QED  BY <1>1, <1>6, <1>8, <1>9, SubscriberChanges

\* A subscriber that stops gives up its books and streams, and keeps its symbols until
\* the arbiter finds it (Subscribers::check_stopped).
LEMMA ResetSound ==
    ASSUME Structure, NEW i \in DOMAIN subscribers, NEW last \in BOOLEAN, Reset(i, last)
    PROVE  Structure'
<1>1. PICK r \in SubscriberTypes : r = subscribers[i] /\ Sound(r)
  BY SubscriberFacts
<1> DEFINE x == [r EXCEPT !.state = "stopped", !.queue = <<>>, !.books = {}, !.requests = <<>>,
                          !.inFlight = NoSnapshot]
<1>2. /\ subscribers' = [subscribers EXCEPT ![i] = x]
      /\ streaming' = streaming \ r.books /\ UNCHANGED wanted
  BY <1>1 DEF Reset
<1>3. NoSnapshot \in Flights /\ <<>> \in Seq(Symbols) /\ DOMAIN <<>> = {}
  BY DEF Flights
<1>4. /\ x \in SubscriberTypes /\ x.symbols = r.symbols /\ x.books = {}
      /\ x.queue = <<>> /\ x.requests = <<>> /\ x.inFlight = NoSnapshot
  BY <1>3 DEF SubscriberTypes
<1> HIDE DEF x
<1>5. Sound(x)
  BY <1>3, <1>4 DEF Sound
<1>6. streaming' \in SUBSET Symbols
  BY <1>2 DEF Structure, Fed
<1> QED  BY <1>1, <1>2, <1>4, <1>5, <1>6, SubscriberChanges

-----------------------------------------------------------------------------
(* The arbiter.                                                            *)

\* The first symbol that is asked for is with no subscriber, and asked for once.
LEMMA WantedFacts ==
    ASSUME Structure, wanted # <<>>
    PROVE  /\ Head(wanted) \in Symbols
           /\ \A i \in DOMAIN subscribers : Head(wanted) \notin subscribers[i].symbols
           /\ Tail(wanted) \in Seq(Symbols)
           /\ \A k, m \in DOMAIN Tail(wanted) : Tail(wanted)[k] = Tail(wanted)[m] => k = m
           /\ \A k \in DOMAIN Tail(wanted) :
                /\ Tail(wanted)[k] # Head(wanted)
                /\ \A i \in DOMAIN subscribers : Tail(wanted)[k] \notin subscribers[i].symbols
<1>1. PICK w \in Seq(Symbols) : w = wanted
  BY DEF Structure, Apart
<1> DEFINE t == Tail(w)
<1>2. /\ Head(w) \in Symbols /\ 1 \in DOMAIN w /\ Head(w) = w[1]
      /\ t \in Seq(Symbols)
      /\ \A k \in DOMAIN t : k + 1 \in DOMAIN w /\ t[k] = w[k + 1] /\ k \in Nat \ {0}
  BY <1>1, FirstAndRest
<1>3. t = Tail(wanted)
  BY <1>1
<1> HIDE DEF t
<1>4. /\ \A k, m \in DOMAIN w : w[k] = w[m] => k = m
      /\ \A i \in DOMAIN subscribers : \A k \in DOMAIN w : w[k] \notin subscribers[i].symbols
  BY <1>1 DEF Structure, Apart
<1>5. ASSUME NEW k \in DOMAIN t, NEW m \in DOMAIN t, t[k] = t[m] PROVE k = m
  <2>1. k + 1 = m + 1
    BY <1>2, <1>4, <1>5
  <2> QED  BY <1>2, <2>1
<1>6. ASSUME NEW k \in DOMAIN t PROVE t[k] # Head(w)
  <2>1. k + 1 # 1
    BY <1>2
  <2> QED  BY <1>2, <1>4, <2>1
<1> QED  BY <1>1, <1>2, <1>3, <1>4, <1>5, <1>6

\* The subscription goes to a new subscriber, to the first with room, or to none.
LEMMA SubscriptionFacts ==
    ASSUME Structure, AddSubscription
    PROVE  /\ wanted # <<>> /\ wanted' = Tail(wanted) /\ UNCHANGED streaming
           /\ \/ UNCHANGED subscribers
              \/ subscribers' = Append(subscribers, Subscriber(Head(wanted)))
              \/ \E i \in DOMAIN subscribers :
                    /\ subscribers[i].state # "stopped"
                    /\ subscribers' = [subscribers EXCEPT ![i] = [subscribers[i] EXCEPT
                          !.symbols = @ \cup {Head(wanted)}, !.queue = Append(@, Head(wanted))]]
<1>1. wanted # <<>> /\ wanted' = Tail(wanted) /\ UNCHANGED streaming
  BY DEF AddSubscription, feeds
<1> DEFINE room == {i \in DOMAIN subscribers : Cardinality(subscribers[i].symbols) < Capacity}
<1>2. CASE room = {}
  BY <1>1, <1>2 DEF AddSubscription
<1>3. CASE room # {}
  <2>1. Len(subscribers) \in Nat /\ DOMAIN subscribers = 1 .. Len(subscribers)
    BY SubscriberFacts
  <2>2. room \in SUBSET (0 .. Len(subscribers))
    BY <2>1
  <2>3. PICK i \in room : i = Min(room)
    BY <1>3, <2>1, <2>2, MinFacts
  <2>4. IF subscribers[Min(room)].state = "stopped" THEN UNCHANGED subscribers
        ELSE subscribers' = [subscribers EXCEPT ![Min(room)].symbols = @ \cup {Head(wanted)},
                                                ![Min(room)].queue = Append(@, Head(wanted))]
    BY <1>3, Zenon DEF AddSubscription
  <2> HIDE DEF room
  <2>5. \/ UNCHANGED subscribers
        \/ /\ subscribers[i].state # "stopped"
           /\ subscribers' = [subscribers EXCEPT ![i] = [subscribers[i] EXCEPT
                                 !.symbols = @ \cup {Head(wanted)}, !.queue = Append(@, Head(wanted))]]
    BY <2>3, <2>4
  <2>6. i \in DOMAIN subscribers
    BY DEF room
  <2> QED  BY <1>1, <2>5, <2>6
<1> QED  BY <1>2, <1>3

\* The symbol that joins a subscriber is with no other, and no longer asked for
\* (Subscribers::add_subscription).
LEMMA SubscriptionSound == ASSUME Structure, AddSubscription PROVE Structure'
<1> DEFINE s == Head(wanted)
<1>1. wanted # <<>> /\ wanted' = Tail(wanted) /\ UNCHANGED streaming
  BY SubscriptionFacts
<1>2. /\ s \in Symbols
      /\ \A i \in DOMAIN subscribers : s \notin subscribers[i].symbols
      /\ wanted' \in Seq(Symbols)
      /\ \A k, m \in DOMAIN wanted' : wanted'[k] = wanted'[m] => k = m
      /\ \A k \in DOMAIN wanted' : wanted'[k] # s
      /\ \A k \in DOMAIN wanted' : \A i \in DOMAIN subscribers : wanted'[k] \notin subscribers[i].symbols
  BY <1>1, WantedFacts
<1> HIDE DEF s
<1>3. CASE UNCHANGED subscribers
  <2>1. Apart'
    BY <1>2, <1>3 DEF Structure, Apart
  <2> QED  BY <1>1, <1>3, <2>1 DEF Structure, SubscriberSound, Fed
<1>4. ASSUME NEW i \in DOMAIN subscribers', NEW x \in SubscriberTypes, Sound(x),
             subscribers' \in Seq(SubscriberTypes), subscribers'[i] = x,
             s \in x.symbols, DOMAIN subscribers \subseteq DOMAIN subscribers',
             \A j \in DOMAIN subscribers' : j # i => j \in DOMAIN subscribers /\ subscribers'[j] = subscribers[j],
             i \in DOMAIN subscribers => /\ x.symbols = subscribers[i].symbols \cup {s}
                                         /\ x.books = subscribers[i].books,
             i \notin DOMAIN subscribers => x.symbols = {s}
      PROVE  Structure'
  <2>1. SubscriberSound'
    BY <1>4, SubscriberFacts DEF SubscriberSound
  <2>2. \A z \in x.symbols : z = s \/ (i \in DOMAIN subscribers /\ z \in subscribers[i].symbols)
    BY <1>4
  <2>3. Apart'
    <3>1. ASSUME NEW j \in DOMAIN subscribers', NEW k \in DOMAIN wanted'
          PROVE  wanted'[k] \notin subscribers'[j].symbols
      BY <1>2, <1>4, <2>2
    <3>2. ASSUME NEW j \in DOMAIN subscribers', j # i
          PROVE  x.symbols \cap subscribers'[j].symbols = {}
      BY <1>2, <1>4, <2>2, <3>2 DEF Structure, Apart
    <3>3. ASSUME NEW j \in DOMAIN subscribers', NEW k \in DOMAIN subscribers', j # k
          PROVE  subscribers'[j].symbols \cap subscribers'[k].symbols = {}
      <4>1. CASE j = i \/ k = i
        BY <1>4, <3>2, <3>3, <4>1
      <4>2. CASE j # i /\ k # i
        BY <1>4, <3>3, <4>2 DEF Structure, Apart
      <4> QED  BY <4>1, <4>2
    <3> QED  BY <1>2, <3>1, <3>3 DEF Apart
  <2>4. Fed'
    <3> SUFFICES ASSUME NEW z \in streaming PROVE \E j \in DOMAIN subscribers' : z \in subscribers'[j].books
      BY <1>1 DEF Structure, Fed
    <3>1. PICK j \in DOMAIN subscribers : z \in subscribers[j].books
      BY DEF Structure, Fed
    <3> QED  BY <1>4, <3>1
  <2> QED  BY <2>1, <2>3, <2>4 DEF Structure
<1>5. PICK subs \in Seq(SubscriberTypes) : /\ subs = subscribers /\ Len(subs) \in Nat
                                           /\ DOMAIN subs = 1 .. Len(subs)
  BY LenProperties DEF Structure, SubscriberSound
<1>6. CASE subscribers' = Append(subscribers, Subscriber(s))
  <2> DEFINE x == Subscriber(s)
             more == Append(subs, x)
  <2>1. <<s>> \in Seq(Symbols) /\ <<>> \in Seq(Symbols) /\ NoSnapshot \in Flights
        /\ DOMAIN <<s>> = {1} /\ <<s>>[1] = s /\ DOMAIN <<>> = {}
    BY <1>2 DEF Flights
  <2>2. /\ x \in SubscriberTypes /\ x.symbols = {s} /\ x.queue = <<s>> /\ x.books = {}
        /\ x.requests = <<>> /\ x.inFlight = NoSnapshot
    BY <1>2, <2>1 DEF Subscriber, SubscriberTypes
  <2> HIDE DEF x
  <2>3. Sound(x)
    BY <2>1, <2>2 DEF Sound
  <2>4. /\ more \in Seq(SubscriberTypes) /\ DOMAIN more = 1 .. Len(subs) + 1
        /\ \A j \in 1 .. Len(subs) : more[j] = subs[j]
        /\ more[Len(subs) + 1] = x
    <3>1. /\ more \in Seq(SubscriberTypes) /\ Len(more) = Len(subs) + 1
          /\ \A j \in 1 .. Len(subs) : more[j] = subs[j]
          /\ more[Len(subs) + 1] = x
      BY <2>2, AppendProperties
    <3> QED  BY <3>1, LenProperties
  <2>5. subscribers' = more
    BY <1>5, <1>6 DEF x
  <2> HIDE DEF more
  <2>6. /\ Len(subs) + 1 \in DOMAIN more /\ DOMAIN subs \subseteq DOMAIN more
        /\ Len(subs) + 1 \notin DOMAIN subs
        /\ \A j \in DOMAIN more : j # Len(subs) + 1 => j \in DOMAIN subs /\ more[j] = subs[j]
    BY <1>5, <2>4
  <2> QED  BY <1>4, <1>5, <2>2, <2>3, <2>4, <2>5, <2>6
<1>7. ASSUME NEW i \in DOMAIN subscribers, subscribers[i].state # "stopped",
             subscribers' = [subscribers EXCEPT ![i] = [subscribers[i] EXCEPT
                                !.symbols = @ \cup {s}, !.queue = Append(@, s)]]
      PROVE  Structure'
  <2>1. PICK r \in SubscriberTypes : r = subscribers[i] /\ Sound(r)
    BY SubscriberFacts
  <2> DEFINE longer == Append(r.queue, s)
             x == [r EXCEPT !.symbols = @ \cup {s}, !.queue = longer]
  <2>2. longer \in Seq(Symbols) /\ \A k \in DOMAIN longer : longer[k] \in r.symbols \cup {s}
    <3>1. r.queue \in Seq(Symbols)
      BY DEF SubscriberTypes
    <3>2. /\ longer \in Seq(Symbols)
          /\ \A k \in DOMAIN longer : longer[k] = s \/ (k \in DOMAIN r.queue /\ longer[k] = r.queue[k])
      BY <1>2, <3>1, OneMore
    <3> QED  BY <2>1, <3>2 DEF Sound
  <2>3. subscribers' = [subs EXCEPT ![i] = x]
    BY <1>5, <1>7, <2>1
  <2> HIDE DEF longer
  <2>4. x \in SubscriberTypes /\ x.symbols = r.symbols \cup {s} /\ x.books = r.books /\ Sound(x)
    BY <1>2, <2>1, <2>2 DEF SubscriberTypes, Sound
  <2> HIDE DEF x
  <2>5. [subs EXCEPT ![i] = x] \in [1 .. Len(subs) -> SubscriberTypes]
    BY <1>5, <2>4
  <2>6. /\ subscribers' \in Seq(SubscriberTypes) /\ DOMAIN subscribers' = DOMAIN subscribers
        /\ subscribers'[i] = x /\ \A j \in DOMAIN subscribers : j # i => subscribers'[j] = subscribers[j]
    BY <1>5, <2>3, <2>5
  <2> QED  BY <1>4, <2>1, <2>4, <2>6
<1> QED  BY <1>3, <1>6, <1>7, SubscriptionFacts DEF s

\* The subscribers that remain are those that have not stopped, all of them.
LEMMA RemainFacts ==
    ASSUME Structure, RemoveStopped
    PROVE  /\ subscribers' \in Seq(SubscriberTypes)
           /\ \E place \in [DOMAIN subscribers' -> DOMAIN subscribers \ Stopped] :
                 /\ \A n \in DOMAIN subscribers' : subscribers'[n] = subscribers[place[n]]
                 /\ \A m, n \in DOMAIN subscribers' : m # n => place[m] # place[n]
                 /\ \A i \in DOMAIN subscribers \ Stopped : \E n \in DOMAIN subscribers' : place[n] = i
<1> DEFINE kept == DOMAIN subscribers \ Stopped
           c == Cardinality(kept)
<1>1. /\ Len(subscribers) \in Nat /\ DOMAIN subscribers = 1 .. Len(subscribers)
      /\ \A i \in DOMAIN subscribers : subscribers[i] \in SubscriberTypes
  BY SubscriberFacts
<1>2. IsFiniteSet(kept) /\ c \in Nat
  <2>1. IsFiniteSet(1 .. Len(subscribers))
    BY <1>1, FS_Interval
  <2>2. kept \subseteq 1 .. Len(subscribers)
    BY <1>1
  <2> QED  BY <2>1, <2>2, FS_Subset, FS_CardinalityType
<1>3. PICK place \in [1 .. c -> kept] :
         /\ \A m, n \in DOMAIN place : m < n => place[m] < place[n]
         /\ subscribers' = [n \in DOMAIN place |-> subscribers[place[n]]]
  BY DEF RemoveStopped
<1>4. kept \subseteq Nat /\ kept \subseteq DOMAIN subscribers
  BY <1>1
<1> HIDE DEF kept, c
<1>5. \A m, n \in 1 .. c : m # n => place[m] # place[n]
  <2> SUFFICES ASSUME NEW m \in 1 .. c, NEW n \in 1 .. c, m # n PROVE place[m] # place[n]
    OBVIOUS
  <2>1. place[m] \in Nat /\ place[n] \in Nat
    BY <1>3, <1>4
  <2>2. m < n \/ n < m
    BY <1>2
  <2> QED  BY <1>3, <2>1, <2>2
<1>6. \A i \in kept : \E n \in 1 .. c : place[n] = i
  <2>1. place \in Injection(1 .. c, kept)
    BY <1>3, <1>5, Fun_IsInj
  <2>2. Cardinality(1 .. c) = c
    BY <1>2, FS_Interval
  <2>3. place \in Surjection(1 .. c, kept)
    BY <1>2, <2>1, <2>2, FS_Injection DEF c
  <2> QED  BY <2>3 DEF Surjection
<1>7. subscribers' = [n \in 1 .. c |-> subscribers[place[n]]]
  BY <1>3
<1>8. subscribers' \in Seq(SubscriberTypes) /\ DOMAIN subscribers' = 1 .. c
  <2>1. \A n \in 1 .. c : subscribers[place[n]] \in SubscriberTypes
    BY <1>1, <1>3, <1>4
  <2>2. subscribers' \in [1 .. c -> SubscriberTypes]
    BY <1>7, <2>1
  <2> QED  BY <1>2, <1>7, <2>2
<1>9. place \in [DOMAIN subscribers' -> DOMAIN subscribers \ Stopped]
  BY <1>8 DEF kept
<1>10. /\ \A n \in DOMAIN subscribers' : subscribers'[n] = subscribers[place[n]]
       /\ \A m, n \in DOMAIN subscribers' : m # n => place[m] # place[n]
       /\ \A i \in DOMAIN subscribers \ Stopped : \E n \in DOMAIN subscribers' : place[n] = i
  <2>1. \A n \in DOMAIN subscribers' : subscribers'[n] = subscribers[place[n]]
    BY <1>7, <1>8
  <2>2. \A i \in kept : \E n \in DOMAIN subscribers' : place[n] = i
    BY <1>6, <1>8
  <2> QED  BY <1>5, <1>8, <2>1, <2>2 DEF kept
<1> QED  BY <1>8, <1>9, <1>10

\* What the stopped subscribers had is asked for again, and is with none of the others
\* (Subscribers::check_stopped).
LEMMA StoppedSound == ASSUME IsFiniteSet(Symbols), Structure, CheckStopped PROVE Structure'
<1> DEFINE left == UNION {subscribers[i].symbols : i \in Stopped}
<1>1. /\ Stopped \subseteq DOMAIN subscribers
      /\ \A i \in DOMAIN subscribers : subscribers[i] \in SubscriberTypes /\ Sound(subscribers[i])
      /\ \A i \in DOMAIN subscribers : i \in Stopped <=> subscribers[i].state = "stopped"
  BY SubscriberFacts DEF Stopped
<1>2. IsFiniteSet(left)
  <2>1. left \subseteq Symbols
    BY <1>1 DEF SubscriberTypes
  <2> QED  BY <2>1, FS_Subset
<1>3. PICK order \in SetToSeqs(left) : wanted' = wanted \o order
  BY DEF CheckStopped
<1>4. /\ order \in Seq(left) /\ DOMAIN order = 1 .. Len(order) /\ Len(order) \in Nat
      /\ \A k, m \in DOMAIN order : order[k] = order[m] => k = m
      /\ \A k \in DOMAIN order : order[k] \in left
  BY <1>2, OrderFacts
<1>5. \A z \in left : z \in Symbols /\ \E i \in Stopped : z \in subscribers[i].symbols
  BY <1>1 DEF SubscriberTypes
<1> HIDE DEF left
<1>6. RemoveStopped /\ UNCHANGED streaming
  BY DEF CheckStopped, feeds
<1>7. PICK place \in [DOMAIN subscribers' -> DOMAIN subscribers \ Stopped] :
         /\ \A n \in DOMAIN subscribers' : subscribers'[n] = subscribers[place[n]]
         /\ \A m, n \in DOMAIN subscribers' : m # n => place[m] # place[n]
         /\ \A i \in DOMAIN subscribers \ Stopped : \E n \in DOMAIN subscribers' : place[n] = i
  BY <1>6, RemainFacts
<1>8. SubscriberSound'
  BY <1>1, <1>6, <1>7, RemainFacts DEF SubscriberSound
<1>9. \A i, j \in DOMAIN subscribers : i # j => subscribers[i].symbols \cap subscribers[j].symbols = {}
  BY DEF Structure, Apart
<1>10. PICK w \in Seq(Symbols) : w = wanted /\ DOMAIN w = 1 .. Len(w) /\ Len(w) \in Nat
  BY LenProperties DEF Structure, Apart
<1>11. /\ \A k, m \in DOMAIN w : w[k] = w[m] => k = m
       /\ \A k \in DOMAIN w : \A i \in DOMAIN subscribers : w[k] \notin subscribers[i].symbols
  BY <1>10 DEF Structure, Apart
<1>12. /\ wanted' \in Seq(Symbols) /\ DOMAIN wanted' = 1 .. Len(w) + Len(order)
       /\ \A k \in DOMAIN wanted' :
             \/ k \in DOMAIN w /\ wanted'[k] = w[k]
             \/ k \notin DOMAIN w /\ k - Len(w) \in DOMAIN order /\ wanted'[k] = order[k - Len(w)]
  <2>1. order \in Seq(Symbols)
    BY <1>4, <1>5
  <2>2. /\ w \o order \in Seq(Symbols) /\ Len(w \o order) = Len(w) + Len(order)
        /\ \A k \in 1 .. Len(w) + Len(order) :
              (w \o order)[k] = IF k <= Len(w) THEN w[k] ELSE order[k - Len(w)]
    BY <2>1, ConcatProperties
  <2>3. DOMAIN (w \o order) = 1 .. Len(w) + Len(order)
    BY <2>2, LenProperties
  <2>4. wanted' = w \o order
    BY <1>3, <1>10
  <2> QED  BY <1>4, <1>10, <2>2, <2>3, <2>4
<1>13. \A k \in DOMAIN w, m \in DOMAIN order : w[k] # order[m]
  BY <1>1, <1>4, <1>5, <1>11
<1>14. Apart'
  <2>1. ASSUME NEW k \in DOMAIN wanted', NEW m \in DOMAIN wanted', wanted'[k] = wanted'[m]
        PROVE  k = m
    <3>1. CASE k \in DOMAIN w /\ m \in DOMAIN w
      BY <1>11, <1>12, <2>1, <3>1
    <3>2. CASE k \notin DOMAIN w /\ m \notin DOMAIN w
      <4>1. k - Len(w) = m - Len(w)
        BY <1>4, <1>12, <2>1, <3>2
      <4>2. k \in Int /\ m \in Int
        BY <1>4, <1>10, <1>12
      <4> QED  BY <1>10, <4>1, <4>2
    <3>3. CASE (k \in DOMAIN w /\ m \notin DOMAIN w) \/ (k \notin DOMAIN w /\ m \in DOMAIN w)
      BY <1>12, <1>13, <2>1, <3>3
    <3> QED  BY <3>1, <3>2, <3>3
  <2>2. ASSUME NEW i \in DOMAIN subscribers', NEW k \in DOMAIN wanted'
        PROVE  wanted'[k] \notin subscribers'[i].symbols
    <3>1. place[i] \in DOMAIN subscribers \ Stopped /\ subscribers'[i] = subscribers[place[i]]
      BY <1>7
    <3>2. CASE k \in DOMAIN w
      BY <1>11, <1>12, <3>1, <3>2
    <3>3. CASE k \notin DOMAIN w
      <4>1. wanted'[k] \in left
        BY <1>4, <1>12, <3>3
      <4>2. PICK j \in Stopped : wanted'[k] \in subscribers[j].symbols
        BY <1>5, <4>1
      <4>3. j \in DOMAIN subscribers /\ j # place[i]
        BY <1>1, <3>1
      <4> QED  BY <1>9, <3>1, <4>2, <4>3
    <3> QED  BY <3>2, <3>3
  <2>3. ASSUME NEW m \in DOMAIN subscribers', NEW n \in DOMAIN subscribers', m # n
        PROVE  subscribers'[m].symbols \cap subscribers'[n].symbols = {}
    BY <1>7, <1>9, <2>3
  <2> QED  BY <1>12, <2>1, <2>2, <2>3 DEF Apart
<1>15. Fed'
  <2> SUFFICES ASSUME NEW s \in streaming PROVE \E n \in DOMAIN subscribers' : s \in subscribers'[n].books
    BY <1>6 DEF Structure, Fed
  <2>1. PICK i \in DOMAIN subscribers : s \in subscribers[i].books
    BY DEF Structure, Fed
  <2>2. i \in DOMAIN subscribers \ Stopped
    BY <1>1, <2>1 DEF Sound
  <2> QED  BY <1>7, <2>1, <2>2
<1> QED  BY <1>8, <1>14, <1>15 DEF Structure

\* Every step leaves a symbol with one subscriber at most.
LEMMA StructureKept ==
    ASSUME IsFiniteSet(Symbols), exchange \in [Symbols -> Nat], Structure, [Next]_vars
    PROVE  Structure'
<1>1. CASE UNCHANGED vars
  BY <1>1, StructureStays DEF vars
<1>2. ASSUME NEW s \in Symbols,
             \/ \E n \in 1 .. 2 : Update(s, n)
             \/ StreamDies(s) \/ SkipEvent(s) \/ ApplyTopUpdate(s) \/ Expire(s)
      PROVE  Structure'
  <2>1. UNCHANGED <<subscribers, wanted>> /\ streaming' \subseteq streaming
    BY <1>2 DEF Update, StreamDies, SkipEvent, ApplyTopUpdate, Expire, feeds
  <2> QED  BY <2>1, StructureStays
<1>3. ASSUME NEW o \in orphans, ReceiveOrphan(o) PROVE Structure'
  <2>1. UNCHANGED <<subscribers, wanted>> /\ streaming' \subseteq streaming
    BY <1>3 DEF ReceiveOrphan, feeds
  <2> QED  BY <2>1, StructureStays
<1>4. ASSUME NEW s \in Symbols, ApplyBookUpdate(s) PROVE Structure'
  BY <1>4, UpdatesSound
<1>5. CASE AddSubscription \/ CheckStopped
  BY <1>5, SubscriptionSound, StoppedSound
<1>6. ASSUME NEW i \in DOMAIN subscribers,
             \/ LoopStep(i) \/ Reset(i, TRUE) \/ LoseSnapshot(i) \/ FailToConnect(i)
             \/ \E subscribed \in BOOLEAN : AddBook(i, subscribed)
      PROVE  Structure'
  BY <1>6, LoopsSound, AddBookSound, ReceivedSound, StaleSound, ResetSound DEF LoopStep
<1> QED  BY <1>1, <1>2, <1>3, <1>4, <1>5, <1>6 DEF Next

-----------------------------------------------------------------------------
(* What is in books and on its way to them.                                *)

\* Nothing is ahead of the exchange.
Behind ==
    /\ exchange \in [Symbols -> Nat] /\ DOMAIN streams = Symbols /\ DOMAIN books = Symbols
    /\ \A s \in Symbols : /\ streams[s] \in Seq(EventsUpTo(exchange[s]))
                          /\ books[s] \in BooksUpTo(exchange[s])

Snapshots ==
    /\ \A i \in DOMAIN subscribers : subscribers[i].inFlight # NoSnapshot =>
          subscribers[i].inFlight.id <= exchange[subscribers[i].inFlight.symbol]
    /\ \A o \in orphans : /\ o.symbol \in Symbols /\ o.id \in 0 .. exchange[o.symbol]
                          /\ o.book \in BooksUpTo(exchange[o.symbol])

\* Readers see a book of the exchange, and that of the subscriber when it has one.
Viewed ==
    /\ DOMAIN shown = Symbols
    /\ \A s \in Symbols : /\ \E n \in 0 .. exchange[s] : shown[s] = 1 .. n
                          /\ books[s].last # None => shown[s] = 1 .. books[s].last

\* A snapshot that a stopped subscriber waits for is of a symbol that no other has yet.
LeftBehind ==
    \A o \in orphans :
        /\ books[o.symbol].last = None
        /\ \E i \in DOMAIN subscribers : /\ subscribers[i].state = "stopped"
                                         /\ o.symbol \in subscribers[i].symbols

\* Later, an exchange has sent more.
LEMMA MoreUpTo ==
    ASSUME NEW n \in Nat, NEW m \in Nat, n <= m
    PROVE  /\ \A q \in Seq(EventsUpTo(n)) : q \in Seq(EventsUpTo(m))
           /\ \A b \in BooksUpTo(n) : b \in BooksUpTo(m)
<1>1. \A e \in EventsUpTo(n) : e \in EventsUpTo(m)
  BY DEF EventsUpTo
<1>2. ASSUME NEW q \in Seq(EventsUpTo(n)) PROVE q \in Seq(EventsUpTo(m))
  <2>1. Len(q) \in Nat /\ q \in [1 .. Len(q) -> EventsUpTo(n)]
    BY LenProperties
  <2>2. q \in [1 .. Len(q) -> EventsUpTo(m)]
    BY <1>1, <2>1
  <2> QED  BY <2>1, <2>2
<1>3. ASSUME NEW b \in BooksUpTo(n) PROVE b \in BooksUpTo(m)
  <2>1. b.pending \in Seq(EventsUpTo(m))
    BY <1>2, BookFacts
  <2>2. b.last \in {None} \cup 0 .. m
    <3>1. b.last \in {None} \cup 0 .. n
      BY BookFacts
    <3> QED  BY <3>1
  <2> QED  BY <2>1, <2>2 DEF BooksUpTo
<1> QED  BY <1>2, <1>3

\* The exchange moves on: what there is stays behind it.
LEMMA UpdateBehind ==
    ASSUME Behind, Snapshots, Viewed, LeftBehind, Structure, NEW s \in Symbols, NEW k \in 1 .. 2,
           Update(s, k)
    PROVE  Behind' /\ Snapshots' /\ Viewed' /\ LeftBehind'
<1>1. /\ exchange' = [exchange EXCEPT ![s] = @ + k]
      /\ UNCHANGED <<subscribers, books, orphans, shown, streaming>>
  BY DEF Update, readers
<1>2. /\ exchange \in [Symbols -> Nat] /\ exchange' \in [Symbols -> Nat]
      /\ exchange'[s] = exchange[s] + k
      /\ \A z \in Symbols : exchange[z] <= exchange'[z]
  BY <1>1 DEF Behind
<1>3. DOMAIN streams' = Symbols /\ \A z \in Symbols : streams'[z] \in Seq(EventsUpTo(exchange'[z]))
  <2>1. \A z \in Symbols : streams[z] \in Seq(EventsUpTo(exchange'[z]))
    BY <1>2, MoreUpTo DEF Behind
  <2> DEFINE e == [first |-> exchange[s] + 1, final |-> exchange[s] + k]
  <2>2. e \in EventsUpTo(exchange'[s])
    BY <1>2 DEF EventsUpTo
  <2>3. streams' = streams \/ streams' = [streams EXCEPT ![s] = Append(@, e)]
    BY DEF Update
  <2> HIDE DEF e
  <2>4. Append(streams[s], e) \in Seq(EventsUpTo(exchange'[s]))
    BY <2>1, <2>2, AppendProperties
  <2> QED  BY <2>1, <2>3, <2>4 DEF Behind
<1>4. \A z \in Symbols : \A b \in BooksUpTo(exchange[z]) : b \in BooksUpTo(exchange'[z])
  BY <1>2, MoreUpTo
<1>5. Behind'
  BY <1>1, <1>2, <1>3, <1>4 DEF Behind
<1>6. Snapshots'
  <2>1. ASSUME NEW i \in DOMAIN subscribers, subscribers[i].inFlight # NoSnapshot
        PROVE  subscribers[i].inFlight.id <= exchange'[subscribers[i].inFlight.symbol]
    <3>1. subscribers[i].inFlight \in [symbol : Symbols, id : Nat]
      BY <2>1, SubscriberFacts DEF SubscriberTypes, Flights
    <3>2. subscribers[i].inFlight.id <= exchange[subscribers[i].inFlight.symbol]
      BY <2>1 DEF Snapshots
    <3> QED  BY <1>2, <3>1, <3>2
  <2>2. ASSUME NEW o \in orphans
        PROVE  o.symbol \in Symbols /\ o.id \in 0 .. exchange'[o.symbol] /\ o.book \in BooksUpTo(exchange'[o.symbol])
    <3>1. o.symbol \in Symbols /\ o.id \in 0 .. exchange[o.symbol] /\ o.book \in BooksUpTo(exchange[o.symbol])
      BY DEF Snapshots
    <3> QED  BY <1>2, <1>4, <3>1
  <2> QED  BY <1>1, <2>1, <2>2 DEF Snapshots
<1>7. Viewed'
  <2>1. \A z \in Symbols : \E n \in 0 .. exchange'[z] : shown[z] = 1 .. n
    <3> SUFFICES ASSUME NEW z \in Symbols PROVE \E n \in 0 .. exchange'[z] : shown[z] = 1 .. n
      OBVIOUS
    <3>1. PICK n \in 0 .. exchange[z] : shown[z] = 1 .. n
      BY DEF Viewed
    <3>2. n \in 0 .. exchange'[z]
      BY <1>2
    <3> QED  BY <3>1, <3>2
  <2> QED  BY <1>1, <2>1 DEF Viewed
<1>8. LeftBehind'
  BY <1>1 DEF LeftBehind
<1> QED  BY <1>5, <1>6, <1>7, <1>8

\* Who has stopped stays so until the arbiter finds it, and keeps its symbols.
Waits ==
    \A i \in DOMAIN subscribers :
        /\ i \in DOMAIN subscribers'
        /\ subscribers[i].symbols \subseteq subscribers'[i].symbols
        /\ subscribers[i].state = "stopped" => subscribers'[i].state = "stopped"

\* Snapshots in flight are those that were, or have just been taken.
Flies ==
    \A i \in DOMAIN subscribers' : subscribers'[i].inFlight # NoSnapshot =>
        \/ i \in DOMAIN subscribers /\ subscribers'[i].inFlight = subscribers[i].inFlight
        \/ subscribers'[i].inFlight.id = exchange[subscribers'[i].inFlight.symbol]

\* A step of one subscriber.
LEMMA OneMoves ==
    ASSUME Structure, NEW i \in DOMAIN subscribers,
           \/ LoopStep(i) \/ Reset(i, TRUE) \/ LoseSnapshot(i) \/ FailToConnect(i)
           \/ \E subscribed \in BOOLEAN : AddBook(i, subscribed)
    PROVE  Waits /\ Flies
<1>1. PICK r \in SubscriberTypes : r = subscribers[i]
  BY SubscriberFacts
<1>2. ASSUME NEW x, subscribers' = [subscribers EXCEPT ![i] = x], x.symbols = r.symbols,
             r.state = "stopped" => x.state = "stopped",
             \/ x.inFlight \in {r.inFlight, NoSnapshot}
             \/ x.inFlight.id = exchange[x.inFlight.symbol]
      PROVE  Waits /\ Flies
  <2>1. /\ DOMAIN subscribers' = DOMAIN subscribers /\ subscribers'[i] = x
        /\ \A j \in DOMAIN subscribers : j # i => subscribers'[j] = subscribers[j]
    BY <1>2
  <2> QED  BY <1>1, <1>2, <2>1 DEF Waits, Flies
<1>3. CASE Connect(i)
  <2>1. subscribers' = [subscribers EXCEPT ![i] = [r EXCEPT !.state = "running"]] /\ r.state = "connecting"
    BY <1>1, <1>3 DEF Connect
  <2> QED  BY <1>2, <2>1 DEF SubscriberTypes
<1>4. CASE FailToConnect(i)
  <2>1. subscribers' = [subscribers EXCEPT ![i] = [r EXCEPT !.state = "stopped", !.queue = <<>>]]
    BY <1>1, <1>4 DEF FailToConnect
  <2> QED  BY <1>2, <2>1 DEF SubscriberTypes
<1>5. CASE LoseSnapshot(i)
  <2>1. subscribers' = [subscribers EXCEPT ![i] = [r EXCEPT !.inFlight = NoSnapshot]]
    BY <1>1, <1>5 DEF LoseSnapshot
  <2> QED  BY <1>2, <2>1 DEF SubscriberTypes
<1>6. CASE RequestSnapshot(i)
  <2> DEFINE call == [symbol |-> Head(r.requests), id |-> exchange[Head(r.requests)]]
             rest == Tail(r.requests)
             x == [r EXCEPT !.requests = rest, !.inFlight = call]
  <2>1. subscribers' = [subscribers EXCEPT ![i] = x]
    BY <1>1, <1>6 DEF RequestSnapshot
  <2>2. call.id = exchange[call.symbol]
    OBVIOUS
  <2> HIDE DEF call, rest
  <2>3. x.inFlight = call /\ x.symbols = r.symbols /\ x.state = r.state
    BY DEF SubscriberTypes
  <2> QED  BY <1>2, <2>1, <2>2, <2>3
<1>7. CASE ReceiveSnapshot(i)
  <2> DEFINE s == r.inFlight.symbol
             x == [r EXCEPT !.inFlight = NoSnapshot]
             y == [x EXCEPT !.requests = Append(@, s)]
  <2>1. subscribers' = [subscribers EXCEPT ![i] = x] \/ subscribers' = [subscribers EXCEPT ![i] = y]
    <3> DEFINE served == [subscribers EXCEPT ![i].inFlight = NoSnapshot]
    <3>1. subscribers' = served \/ subscribers' = [served EXCEPT ![i].requests = Append(@, s)]
      BY <1>1, <1>7 DEF ReceiveSnapshot
    <3>2. served = [subscribers EXCEPT ![i] = x]
      BY <1>1
    <3>3. [served EXCEPT ![i].requests = Append(@, s)] = [subscribers EXCEPT ![i] = y]
      BY <1>1
    <3> QED  BY <3>1, <3>2, <3>3
  <2>2. /\ x.symbols = r.symbols /\ x.state = r.state /\ x.inFlight = NoSnapshot
        /\ y.symbols = r.symbols /\ y.state = r.state /\ y.inFlight = NoSnapshot
    BY DEF SubscriberTypes
  <2> HIDE DEF x, y
  <2> QED  BY <1>2, <2>1, <2>2
<1>8. CASE CheckStale(i)
  <2>1. PICK order : subscribers' = [subscribers EXCEPT ![i].requests = @ \o order]
    BY <1>8 DEF CheckStale
  <2>2. subscribers' = [subscribers EXCEPT ![i] = [r EXCEPT !.requests = @ \o order]]
    BY <1>1, <2>1
  <2> QED  BY <1>2, <2>2 DEF SubscriberTypes
<1>9. ASSUME NEW last \in BOOLEAN, Reset(i, last) PROVE Waits /\ Flies
  <2> DEFINE x == [r EXCEPT !.state = "stopped", !.queue = <<>>, !.books = {}, !.requests = <<>>,
                            !.inFlight = NoSnapshot]
  <2>1. subscribers' = [subscribers EXCEPT ![i] = x]
    BY <1>1, <1>9 DEF Reset
  <2>2. x.symbols = r.symbols /\ x.state = "stopped" /\ x.inFlight = NoSnapshot
    BY DEF SubscriberTypes
  <2> HIDE DEF x
  <2> QED  BY <1>2, <2>1, <2>2
<1>10. ASSUME NEW subscribed \in BOOLEAN, AddBook(i, subscribed) PROVE Waits /\ Flies
  <2> DEFINE x == [r EXCEPT !.queue = Tail(@), !.books = @ \cup {Head(r.queue)}]
  <2>1. subscribers' = [subscribers EXCEPT ![i] = x]
    BY <1>1, <1>10 DEF AddBook
  <2>2. x.symbols = r.symbols /\ x.state = r.state /\ x.inFlight = r.inFlight
    BY DEF SubscriberTypes
  <2> HIDE DEF x
  <2> QED  BY <1>2, <2>1, <2>2
<1> QED  BY <1>3, <1>4, <1>5, <1>6, <1>7, <1>8, <1>9, <1>10 DEF LoopStep

\* A symbol that joins a subscriber.
LEMMA AdditionMoves == ASSUME Structure, AddSubscription PROVE Waits /\ Flies
<1> DEFINE s == Head(wanted)
<1>1. PICK subs \in Seq(SubscriberTypes) : /\ subs = subscribers /\ Len(subs) \in Nat
                                           /\ DOMAIN subs = 1 .. Len(subs)
  BY LenProperties DEF Structure, SubscriberSound
<1>2. CASE UNCHANGED subscribers
  BY <1>2 DEF Waits, Flies
<1>3. CASE subscribers' = Append(subscribers, Subscriber(s))
  <2>0. Subscriber(s).inFlight = NoSnapshot
    BY DEF Subscriber
  <2>1. PICK x : x = Subscriber(s) /\ x.inFlight = NoSnapshot
    BY <2>0
  <2> DEFINE more == Append(subs, x)
  <2>2. /\ DOMAIN more = 1 .. Len(subs) + 1 /\ more[Len(subs) + 1] = x
        /\ \A j \in 1 .. Len(subs) : more[j] = subs[j]
    <3>1. subs \in Seq(SubscriberTypes \cup {x})
      <4>1. subs \in [1 .. Len(subs) -> SubscriberTypes \cup {x}]
        BY <1>1, ElementOfSeq
      <4> QED  BY <1>1, <4>1
    <3>2. /\ more \in Seq(SubscriberTypes \cup {x}) /\ Len(more) = Len(subs) + 1
          /\ \A j \in 1 .. Len(subs) : more[j] = subs[j]
          /\ more[Len(subs) + 1] = x
      BY <3>1, AppendProperties
    <3> QED  BY <3>2, LenProperties
  <2>3. subscribers' = more
    BY <1>1, <1>3, <2>1
  <2> HIDE DEF more
  <2>4. \A j \in DOMAIN subs : j \in DOMAIN more /\ more[j] = subs[j]
    BY <1>1, <2>2
  <2>5. \A j \in DOMAIN more : j \in DOMAIN subs \/ more[j].inFlight = NoSnapshot
    BY <1>1, <2>1, <2>2
  <2> QED  BY <1>1, <2>3, <2>4, <2>5 DEF Waits, Flies
<1>4. ASSUME NEW i \in DOMAIN subscribers, subscribers[i].state # "stopped",
             subscribers' = [subscribers EXCEPT ![i] = [subscribers[i] EXCEPT
                                !.symbols = @ \cup {s}, !.queue = Append(@, s)]]
      PROVE  Waits /\ Flies
  <2>1. PICK r \in SubscriberTypes : r = subscribers[i]
    BY SubscriberFacts
  <2> DEFINE x == [r EXCEPT !.symbols = @ \cup {s}, !.queue = Append(@, s)]
  <2>2. x.symbols = r.symbols \cup {s} /\ x.state = r.state /\ x.inFlight = r.inFlight
    BY DEF SubscriberTypes
  <2>3. subscribers' = [subscribers EXCEPT ![i] = x]
    BY <1>4, <2>1
  <2> HIDE DEF x
  <2>4. /\ DOMAIN subscribers' = DOMAIN subscribers /\ subscribers'[i] = x
        /\ \A j \in DOMAIN subscribers : j # i => subscribers'[j] = subscribers[j]
    BY <2>3
  <2> QED  BY <2>1, <2>2, <2>4 DEF Waits, Flies
<1> QED  BY <1>2, <1>3, <1>4, SubscriptionFacts

\* An event that asks for a snapshot.
LEMMA UpdateMoves == ASSUME Structure, NEW s \in Symbols, ApplyBookUpdate(s) PROVE Waits /\ Flies
<1> DEFINE i == Owner(s)
<1>1. i \in DOMAIN subscribers
  BY DEF ApplyBookUpdate, Structure, Fed, Owner
<1>2. PICK r \in SubscriberTypes : r = subscribers[i]
  BY <1>1, SubscriberFacts
<1>3. subscribers' = subscribers \/ subscribers' = [subscribers EXCEPT ![i].requests = Append(@, s)]
  BY DEF ApplyBookUpdate
<1> HIDE DEF i
<1> DEFINE x == [r EXCEPT !.requests = Append(@, s)]
<1>4. x.symbols = r.symbols /\ x.state = r.state /\ x.inFlight = r.inFlight
  BY DEF SubscriberTypes
<1>5. subscribers' = subscribers \/ subscribers' = [subscribers EXCEPT ![i] = x]
  BY <1>2, <1>3
<1> HIDE DEF x
<1>6. /\ DOMAIN subscribers' = DOMAIN subscribers /\ subscribers'[i] \in {x, subscribers[i]}
      /\ \A j \in DOMAIN subscribers : j # i => subscribers'[j] = subscribers[j]
  BY <1>1, <1>5
<1> QED  BY <1>1, <1>2, <1>4, <1>6 DEF Waits, Flies

\* What books, streams, snapshots and readers say of each other.
DataSound == Behind /\ Snapshots /\ Viewed /\ LeftBehind

\* Snapshots in flight stay behind the exchange.
LEMMA FlightsBehind ==
    ASSUME Structure', Behind, Snapshots, Flies, UNCHANGED exchange,
           \A o \in orphans' : /\ o.symbol \in Symbols /\ o.id \in 0 .. exchange[o.symbol]
                               /\ o.book \in BooksUpTo(exchange[o.symbol])
    PROVE  Snapshots'
<1> SUFFICES ASSUME NEW i \in DOMAIN subscribers', subscribers'[i].inFlight # NoSnapshot
             PROVE  subscribers'[i].inFlight.id <= exchange[subscribers'[i].inFlight.symbol]
  BY DEF Snapshots
<1>1. PICK f : f = subscribers'[i].inFlight
  OBVIOUS
<1>2. f \in [symbol : Symbols, id : Nat]
  <2>1. subscribers' \in Seq(SubscriberTypes)
    BY DEF Structure, SubscriberSound
  <2>2. PICK subs \in Seq(SubscriberTypes) : subs = subscribers'
    BY <2>1
  <2>3. subs[i] \in SubscriberTypes
    BY <2>2, LenProperties, ElementOfSeq
  <2> QED  BY <1>1, <2>2, <2>3 DEF SubscriberTypes, Flights
<1>3. CASE i \in DOMAIN subscribers /\ f = subscribers[i].inFlight
  BY <1>1, <1>3 DEF Snapshots
<1>4. CASE f.id = exchange[f.symbol]
  BY <1>1, <1>2, <1>4 DEF Behind
<1> QED  BY <1>1, <1>3, <1>4 DEF Flies

\* Steps that show nothing new, and leave a book's number or forget it.
LEMMA NothingShown ==
    ASSUME Structure', DataSound, Waits, Flies, UNCHANGED <<exchange, shown, orphans>>,
           DOMAIN streams' = Symbols, DOMAIN books' = Symbols,
           \A s \in Symbols : /\ streams'[s] \in Seq(EventsUpTo(exchange[s]))
                              /\ books'[s] \in BooksUpTo(exchange[s])
                              /\ books'[s].last \in {None, books[s].last}
    PROVE  DataSound'
<1>1. Behind'
  BY DEF DataSound, Behind
<1>2. Snapshots'
  BY FlightsBehind DEF DataSound, Snapshots
<1>3. Viewed'
  BY DEF DataSound, Viewed
<1>4. LeftBehind'
  <2> SUFFICES ASSUME NEW o \in orphans
               PROVE  /\ books'[o.symbol].last = None
                      /\ \E i \in DOMAIN subscribers' : /\ subscribers'[i].state = "stopped"
                                                        /\ o.symbol \in subscribers'[i].symbols
    BY DEF LeftBehind
  <2>1. o.symbol \in Symbols
    BY DEF DataSound, Snapshots
  <2>2. books[o.symbol].last = None
    BY DEF DataSound, LeftBehind
  <2>3. PICK i \in DOMAIN subscribers : subscribers[i].state = "stopped" /\ o.symbol \in subscribers[i].symbols
    BY DEF DataSound, LeftBehind
  <2> QED  BY <2>1, <2>2, <2>3 DEF Waits
<1> QED  BY <1>1, <1>2, <1>3, <1>4 DEF DataSound

\* A book of a subscriber changes with what its readers see.
LEMMA BookShown ==
    ASSUME Structure', DataSound, Waits, Flies, UNCHANGED <<exchange, orphans>>,
           NEW s \in Symbols, NEW x \in Matched(exchange[s]), Becomes(s, x),
           \/ x.book.last # None /\ \A o \in orphans : o.symbol # s
           \/ x.book.last = None /\ x.shown = shown[s],
           DOMAIN streams' = Symbols, \A z \in Symbols : streams'[z] \in Seq(EventsUpTo(exchange[z]))
    PROVE  DataSound'
<1>1. /\ exchange[s] \in Nat /\ DOMAIN books = Symbols /\ DOMAIN shown = Symbols
      /\ books' = [books EXCEPT ![s] = x.book] /\ shown' = [shown EXCEPT ![s] = x.shown]
  BY DEF DataSound, Behind, Viewed, Becomes
<1>2. /\ x.book \in BooksUpTo(exchange[s]) /\ x.book.last \in {None} \cup 0 .. exchange[s]
      /\ x.book.last # None => x.shown = 1 .. x.book.last
  BY <1>1, BookFacts DEF Matched
<1>3. Behind'
  BY <1>1, <1>2 DEF DataSound, Behind
<1>4. Snapshots'
  BY FlightsBehind DEF DataSound, Snapshots
<1>5. Viewed'
  <2> SUFFICES ASSUME NEW z \in Symbols
               PROVE  /\ \E n \in 0 .. exchange[z] : shown'[z] = 1 .. n
                      /\ books'[z].last # None => shown'[z] = 1 .. books'[z].last
    BY <1>1 DEF Viewed
  <2>1. CASE z # s
    BY <1>1, <2>1 DEF DataSound, Viewed
  <2>2. CASE z = s
    <3>1. books'[z] = x.book /\ shown'[z] = x.shown
      BY <1>1, <2>2
    <3>2. CASE x.book.last = None
      BY <2>2, <3>1, <3>2 DEF DataSound, Viewed
    <3>3. CASE x.book.last # None
      <4>1. x.book.last \in 0 .. exchange[z]
        BY <1>2, <2>2, <3>3
      <4> QED  BY <1>2, <3>1, <3>3, <4>1
    <3> QED  BY <3>2, <3>3
  <2> QED  BY <2>1, <2>2
<1>6. LeftBehind'
  <2> SUFFICES ASSUME NEW o \in orphans
               PROVE  /\ books'[o.symbol].last = None
                      /\ \E i \in DOMAIN subscribers' : /\ subscribers'[i].state = "stopped"
                                                        /\ o.symbol \in subscribers'[i].symbols
    BY DEF LeftBehind
  <2>1. o.symbol \in Symbols /\ books[o.symbol].last = None
    BY DEF DataSound, Snapshots, LeftBehind
  <2>2. PICK i \in DOMAIN subscribers : subscribers[i].state = "stopped" /\ o.symbol \in subscribers[i].symbols
    BY DEF DataSound, LeftBehind
  <2>3. books'[o.symbol].last = None
    BY <1>1, <2>1
  <2> QED  BY <2>2, <2>3 DEF Waits
<1> QED  BY <1>3, <1>4, <1>5, <1>6 DEF DataSound

\* A depth event that the book takes, or keeps for the snapshot it asks for.
LEMMA EventShown ==
    ASSUME Structure, Structure', DataSound, NEW s \in Symbols, ApplyBookUpdate(s)
    PROVE  DataSound'
<1> DEFINE old == [book |-> books[s], shown |-> shown[s], asked |-> FALSE]
           x == ApplyUpdate(old, Head(streams[s]))
           n == exchange[s]
<1>1. /\ streams[s] # <<>> /\ streams' = [streams EXCEPT ![s] = Tail(@)]
      /\ Becomes(s, x) /\ UNCHANGED <<exchange, orphans>>
  BY DEF ApplyBookUpdate, market
<1>2. /\ n \in Nat /\ DOMAIN streams = Symbols
      /\ \A z \in Symbols : streams[z] \in Seq(EventsUpTo(exchange[z]))
      /\ books[s] \in BooksUpTo(n)
  BY DEF DataSound, Behind
<1>3. Head(streams[s]) \in EventsUpTo(n) /\ Tail(streams[s]) \in Seq(EventsUpTo(n))
  BY <1>1, <1>2, FirstAndRest
<1>4. old \in Matched(n) /\ old.book = books[s] /\ old.shown = shown[s]
  <2>1. shown[s] \in SUBSET Nat /\ (books[s].last # None => shown[s] = 1 .. books[s].last)
    <3>1. PICK k \in 0 .. exchange[s] : shown[s] = 1 .. k
      BY DEF DataSound, Viewed
    <3> QED  BY <3>1 DEF DataSound, Viewed
  <2> QED  BY <1>2, <2>1 DEF Matched
<1> HIDE DEF old
<1>5. /\ x \in Matched(n)
      /\ books[s].last = None => x.book.last = None /\ x.shown = shown[s]
      /\ books[s].last # None => x.book.last # None
  BY <1>2, <1>3, <1>4, UpdateMatches
<1>6. books[s].last # None => \A o \in orphans : o.symbol # s
  BY DEF DataSound, LeftBehind
<1>7. DOMAIN streams' = Symbols /\ \A z \in Symbols : streams'[z] \in Seq(EventsUpTo(exchange[z]))
  BY <1>1, <1>2, <1>3
<1> HIDE DEF x
<1> QED  BY <1>1, <1>5, <1>6, <1>7, BookShown, UpdateMoves

\* A snapshot of a subscriber that runs, which no stopped one can overwrite.
LEMMA SnapshotShown ==
    ASSUME Structure, Structure', DataSound, NEW i \in DOMAIN subscribers, ReceiveSnapshot(i)
    PROVE  DataSound'
<1>1. PICK f \in [symbol : Symbols, id : Nat] : f = subscribers[i].inFlight
  BY ReceivedFacts
<1> DEFINE s == f.symbol
           x == ApplySnapshot(books[s], f.id)
<1>2. Becomes(s, x) /\ UNCHANGED <<exchange, orphans, streams>>
  BY <1>1 DEF ReceiveSnapshot, market, feeds
<1>3. s \in Symbols /\ f.id \in Nat /\ f.id <= exchange[s]
  <2>1. f # NoSnapshot
    BY <1>1 DEF ReceiveSnapshot
  <2> QED  BY <1>1, <2>1 DEF DataSound, Snapshots
<1>4. /\ exchange[s] \in Nat /\ books[s] \in BooksUpTo(exchange[s])
      /\ DOMAIN streams = Symbols /\ \A z \in Symbols : streams[z] \in Seq(EventsUpTo(exchange[z]))
  BY <1>3 DEF DataSound, Behind
<1>5. x \in Matched(exchange[s]) /\ x.book.last # None
  BY <1>3, <1>4, SnapshotMatches
<1>6. ASSUME NEW o \in orphans PROVE o.symbol # s
  <2>1. PICK j \in DOMAIN subscribers : subscribers[j].state = "stopped" /\ o.symbol \in subscribers[j].symbols
    BY DEF DataSound, LeftBehind
  <2>2. subscribers[i].state = "running" /\ s \in subscribers[i].symbols
    BY <1>1, ReceivedFacts
  <2> QED  BY <2>1, <2>2 DEF Structure, Apart
<1>7. Waits /\ Flies
  BY OneMoves DEF LoopStep
<1> HIDE DEF x, s
<1> QED  BY <1>2, <1>3, <1>4, <1>5, <1>6, <1>7, BookShown

\* A book without a number.
LEMMA NewBookFacts == ASSUME NEW n \in Nat PROVE NewBook \in BooksUpTo(n) /\ NewBook.last = None
<1>1. <<>> \in Seq(EventsUpTo(n))
  OBVIOUS
<1> QED  BY <1>1 DEF NewBook, BooksUpTo

\* What lies behind the exchange, symbol by symbol.
LEMMA BehindFacts ==
    ASSUME DataSound
    PROVE  /\ exchange \in [Symbols -> Nat] /\ DOMAIN streams = Symbols /\ DOMAIN books = Symbols
           /\ \A s \in Symbols : /\ exchange[s] \in Nat
                                 /\ streams[s] \in Seq(EventsUpTo(exchange[s]))
                                 /\ books[s] \in BooksUpTo(exchange[s])
  BY DEF DataSound, Behind

\* The steps of streams and clocks that no subscriber takes.
LEMMA FeedsShowNothing ==
    ASSUME Structure', DataSound, NEW s \in Symbols,
           StreamDies(s) \/ SkipEvent(s) \/ ApplyTopUpdate(s) \/ Expire(s)
    PROVE  DataSound'
<1>1. UNCHANGED <<exchange, shown, orphans, subscribers>>
  BY DEF StreamDies, SkipEvent, ApplyTopUpdate, Expire, market, readers
<1>2. Waits /\ Flies
  BY <1>1 DEF Waits, Flies
<1>3. DOMAIN streams' = Symbols /\ \A z \in Symbols : streams'[z] \in Seq(EventsUpTo(exchange[z]))
  <2>1. CASE UNCHANGED streams
    BY <2>1, BehindFacts
  <2>2. CASE streams' = [streams EXCEPT ![s] = <<>>]
    <3>1. <<>> \in Seq(EventsUpTo(exchange[s]))
      OBVIOUS
    <3> QED  BY <2>2, <3>1, BehindFacts
  <2>3. CASE streams[s] # <<>> /\ streams' = [streams EXCEPT ![s] = Tail(@)]
    <3>1. Tail(streams[s]) \in Seq(EventsUpTo(exchange[s]))
      BY <2>3, BehindFacts, FirstAndRest
    <3> QED  BY <2>3, <3>1, BehindFacts
  <2> QED  BY <2>1, <2>2, <2>3 DEF StreamDies, SkipEvent, ApplyTopUpdate, Expire, feeds
<1>4. DOMAIN books' = Symbols /\ \A z \in Symbols : books'[z] \in BooksUpTo(exchange[z]) /\ books'[z].last = books[z].last
  <2>1. CASE UNCHANGED books
    BY <2>1, BehindFacts
  <2>2. CASE books' = [books EXCEPT ![s].fresh = FALSE]
    <3>1. PICK b \in BooksUpTo(exchange[s]) : b = books[s]
      BY BehindFacts
    <3>2. [b EXCEPT !.fresh = FALSE] \in BooksUpTo(exchange[s]) /\ [b EXCEPT !.fresh = FALSE].last = b.last
      BY DEF BooksUpTo
    <3>3. books' = [books EXCEPT ![s] = [b EXCEPT !.fresh = FALSE]]
      BY <2>2, <3>1
    <3> QED  BY <3>1, <3>2, <3>3, BehindFacts
  <2> QED  BY <2>1, <2>2 DEF StreamDies, SkipEvent, ApplyTopUpdate, Expire
<1> QED  BY <1>1, <1>2, <1>3, <1>4, NothingShown

\* The steps of the arbiter and of a subscriber that show nothing.
LEMMA LoopsShowNothing ==
    ASSUME Structure, Structure', DataSound,
           \/ AddSubscription
           \/ \E i \in DOMAIN subscribers :
                 \/ Connect(i) \/ FailToConnect(i) \/ RequestSnapshot(i) \/ LoseSnapshot(i)
                 \/ CheckStale(i) \/ \E subscribed \in BOOLEAN : AddBook(i, subscribed)
    PROVE  DataSound'
<1>1. Waits /\ Flies
  BY AdditionMoves, OneMoves DEF LoopStep
<1>2. UNCHANGED <<exchange, shown, orphans, streams>>
  BY DEF AddSubscription, Connect, FailToConnect, RequestSnapshot, LoseSnapshot, CheckStale, AddBook,
     market, readers, feeds
<1>3. DOMAIN books' = Symbols /\ \A z \in Symbols : books'[z] \in BooksUpTo(exchange[z])
                                                    /\ books'[z].last \in {None, books[z].last}
  <2>1. CASE UNCHANGED books
    BY <2>1, BehindFacts
  <2>2. ASSUME NEW i \in DOMAIN subscribers, CheckStale(i)
        PROVE  DOMAIN books' = Symbols /\ \A z \in Symbols : books'[z] \in BooksUpTo(exchange[z])
                                                             /\ books'[z].last \in {None, books[z].last}
    <3>1. books' = [s \in Symbols |-> IF s \in ToRequest(i) THEN Asked(books[s]) ELSE books[s]]
      BY <2>2 DEF CheckStale
    <3>2. \A z \in Symbols : Asked(books[z]) \in BooksUpTo(exchange[z]) /\ Asked(books[z]).last = books[z].last
      BY BehindFacts, AskedFacts
    <3> QED  BY <3>1, <3>2, BehindFacts
  <2>3. ASSUME NEW s, books' = [books EXCEPT ![s] = NewBook]
        PROVE  DOMAIN books' = Symbols /\ \A z \in Symbols : books'[z] \in BooksUpTo(exchange[z])
                                                             /\ books'[z].last \in {None, books[z].last}
    <3>1. \A z \in Symbols : NewBook \in BooksUpTo(exchange[z]) /\ NewBook.last = None
      BY BehindFacts, NewBookFacts
    <3> QED  BY <2>3, <3>1, BehindFacts
  <2>4. UNCHANGED books \/ (\E i \in DOMAIN subscribers : CheckStale(i))
        \/ \E s : books' = [books EXCEPT ![s] = NewBook]
    BY DEF AddSubscription, Connect, FailToConnect, RequestSnapshot, LoseSnapshot, AddBook
  <2> QED  BY <2>1, <2>2, <2>3, <2>4
<1> QED  BY <1>1, <1>2, <1>3, BehindFacts, NothingShown

\* A subscriber stops, and may leave a snapshot behind.
LEMMA ResetShown ==
    ASSUME Structure, Structure', DataSound, NEW i \in DOMAIN subscribers, NEW last \in BOOLEAN,
           Reset(i, last)
    PROVE  DataSound'
<1>1. PICK r \in SubscriberTypes : r = subscribers[i] /\ Sound(r)
  BY SubscriberFacts
<1>2. /\ UNCHANGED <<exchange, shown>>
      /\ streams' = [s \in Symbols |-> IF s \in r.books THEN <<>> ELSE streams[s]]
      /\ books' = [s \in Symbols |-> IF s \in r.books THEN NewBook ELSE books[s]]
  BY <1>1 DEF Reset, market, readers
<1>3. Waits /\ Flies
  BY OneMoves DEF LoopStep
<1>4. subscribers'[i].state = "stopped" /\ i \in DOMAIN subscribers' /\ r.symbols \subseteq subscribers'[i].symbols
  <2> DEFINE x == [r EXCEPT !.state = "stopped", !.queue = <<>>, !.books = {}, !.requests = <<>>,
                            !.inFlight = NoSnapshot]
  <2>1. subscribers' = [subscribers EXCEPT ![i] = x]
    BY <1>1 DEF Reset
  <2>2. x.state = "stopped"
    BY DEF SubscriberTypes
  <2> HIDE DEF x
  <2> QED  BY <1>1, <1>3, <2>1, <2>2 DEF Waits
<1>5. \A o \in orphans' : \/ o \in orphans
                          \/ /\ o.symbol \in r.books /\ o.id \in 0 .. exchange[o.symbol]
                             /\ o.book = Asked(books[o.symbol])
  <2> DEFINE Orphan(s, id) == [symbol |-> s, id |-> id, book |-> Asked(books[s])]
             requests == ToSet(r.requests) \cup ToRequest(i)
  <2>1. \/ orphans' = orphans
        \/ /\ r.inFlight # NoSnapshot
           /\ orphans' = orphans \cup {Orphan(r.inFlight.symbol, r.inFlight.id)}
        \/ \E s \in requests : orphans' = orphans \cup {Orphan(s, exchange[s])}
    BY <1>1 DEF Reset
  <2>2. ASSUME r.inFlight # NoSnapshot
        PROVE  r.inFlight.symbol \in r.books /\ r.inFlight.id \in 0 .. exchange[r.inFlight.symbol]
    <3>1. r.inFlight \in [symbol : Symbols, id : Nat]
      BY <2>2 DEF SubscriberTypes, Flights
    <3>2. r.inFlight.symbol \in r.books /\ r.inFlight.id <= exchange[r.inFlight.symbol]
      BY <1>1, <2>2 DEF Sound, DataSound, Snapshots
    <3>3. exchange[r.inFlight.symbol] \in Nat
      BY <3>1, BehindFacts
    <3> QED  BY <3>1, <3>2, <3>3
  <2>3. \A s \in requests : s \in r.books
    BY <1>1 DEF ToSet, ToRequest, Stale, Sound
  <2>4. \A s \in r.books : exchange[s] \in 0 .. exchange[s]
    <3>1. r.books \subseteq Symbols
      BY DEF SubscriberTypes
    <3>2. \A s \in r.books : exchange[s] \in Nat
      BY <3>1, BehindFacts
    <3> QED  BY <3>2
  <2> HIDE DEF requests
  <2> QED  BY <2>1, <2>2, <2>3, <2>4
<1>6. r.books \subseteq Symbols /\ r.books \subseteq r.symbols
  BY <1>1 DEF SubscriberTypes, Sound
<1>7. Behind'
  <2>1. \A z \in Symbols : books'[z] \in BooksUpTo(exchange[z])
    BY <1>2, BehindFacts, NewBookFacts
  <2>2. \A z \in Symbols : streams'[z] \in Seq(EventsUpTo(exchange[z]))
    BY <1>2, BehindFacts
  <2> QED  BY <1>2, <2>1, <2>2, BehindFacts DEF Behind
<1>8. \A o \in orphans' : /\ o.symbol \in Symbols /\ o.id \in 0 .. exchange[o.symbol]
                          /\ o.book \in BooksUpTo(exchange[o.symbol])
  <2> SUFFICES ASSUME NEW o \in orphans'
               PROVE  /\ o.symbol \in Symbols /\ o.id \in 0 .. exchange[o.symbol]
                      /\ o.book \in BooksUpTo(exchange[o.symbol])
    OBVIOUS
  <2>1. CASE o \in orphans
    BY <2>1 DEF DataSound, Snapshots
  <2>2. CASE /\ o.symbol \in r.books /\ o.id \in 0 .. exchange[o.symbol] /\ o.book = Asked(books[o.symbol])
    BY <1>6, <2>2, BehindFacts, AskedFacts
  <2> QED  BY <1>5, <2>1, <2>2
<1>9. Snapshots'
  BY <1>2, <1>3, <1>8, FlightsBehind DEF DataSound
<1>10. Viewed'
  <2>1. \A z \in Symbols : books'[z].last # None => books'[z] = books[z]
    BY <1>2, BehindFacts, NewBookFacts
  <2> QED  BY <1>2, <2>1 DEF DataSound, Viewed
<1>11. LeftBehind'
  <2> SUFFICES ASSUME NEW o \in orphans'
               PROVE  /\ books'[o.symbol].last = None
                      /\ \E j \in DOMAIN subscribers' : /\ subscribers'[j].state = "stopped"
                                                        /\ o.symbol \in subscribers'[j].symbols
    BY DEF LeftBehind
  <2>1. CASE o \in orphans
    <3>1. o.symbol \in Symbols /\ books[o.symbol].last = None
      BY <2>1 DEF DataSound, Snapshots, LeftBehind
    <3>2. PICK j \in DOMAIN subscribers : subscribers[j].state = "stopped" /\ o.symbol \in subscribers[j].symbols
      BY <2>1 DEF DataSound, LeftBehind
    <3>3. books'[o.symbol].last = None
      BY <1>2, <3>1, BehindFacts, NewBookFacts
    <3> QED  BY <1>3, <3>2, <3>3 DEF Waits
  <2>2. CASE o.symbol \in r.books
    <3>1. books'[o.symbol].last = None
      BY <1>2, <1>6, <2>2, BehindFacts, NewBookFacts
    <3> QED  BY <1>4, <1>6, <2>2, <3>1
  <2> QED  BY <1>5, <2>1, <2>2
<1> QED  BY <1>7, <1>9, <1>10, <1>11 DEF DataSound

\* A snapshot that a stopped subscriber waited for: no book has begun yet that it could
\* contradict.
LEMMA OrphanShown ==
    ASSUME Structure', DataSound, NEW o \in orphans, ReceiveOrphan(o)
    PROVE  DataSound'
<1> DEFINE s == o.symbol
           x == ApplySnapshot(o.book, o.id)
<1>1. /\ UNCHANGED <<exchange, subscribers, books, streams>>
      /\ orphans' = orphans \ {o} /\ shown' = [shown EXCEPT ![s] = x.shown]
  BY DEF ReceiveOrphan, market, feeds
<1>2. s \in Symbols /\ o.id \in 0 .. exchange[s] /\ o.book \in BooksUpTo(exchange[s])
  BY DEF DataSound, Snapshots
<1>3. x \in Matched(exchange[s]) /\ x.book.last # None
  BY <1>2, BehindFacts, SnapshotMatches
<1>4. \E n \in 0 .. exchange[s] : x.shown = 1 .. n
  <2>1. x.book \in BooksUpTo(exchange[s]) /\ x.shown = 1 .. x.book.last
    BY <1>3 DEF Matched
  <2>2. x.book.last \in 0 .. exchange[s]
    BY <1>2, <1>3, <2>1, BehindFacts, BookFacts
  <2> QED  BY <2>1, <2>2
<1>5. books[s].last = None
  BY DEF DataSound, LeftBehind
<1> HIDE DEF x
<1>6. Behind'
  BY <1>1 DEF DataSound, Behind
<1>7. Waits /\ Flies
  BY <1>1 DEF Waits, Flies
<1>8. Snapshots'
  BY <1>1, <1>7, FlightsBehind DEF DataSound, Snapshots
<1>9. Viewed'
  BY <1>1, <1>2, <1>4, <1>5 DEF DataSound, Viewed
<1>10. LeftBehind'
  BY <1>1 DEF DataSound, LeftBehind
<1> QED  BY <1>6, <1>8, <1>9, <1>10 DEF DataSound

\* The arbiter removes who has stopped when their snapshots have come or been given up.
LEMMA StoppedShown ==
    ASSUME SlowSnapshots = FALSE, Structure, DataSound, CheckStopped
    PROVE  DataSound'
<1>1. UNCHANGED <<exchange, books, streams, orphans, shown>> /\ orphans = {} /\ RemoveStopped
  BY DEF CheckStopped, market, feeds, readers
<1>2. PICK place \in [DOMAIN subscribers' -> DOMAIN subscribers \ Stopped] :
         \A n \in DOMAIN subscribers' : subscribers'[n] = subscribers[place[n]]
  BY <1>1, RemainFacts
<1>3. Snapshots'
  <2> SUFFICES ASSUME NEW n \in DOMAIN subscribers', subscribers'[n].inFlight # NoSnapshot
               PROVE  subscribers'[n].inFlight.id <= exchange[subscribers'[n].inFlight.symbol]
    BY <1>1 DEF Snapshots
  <2>1. place[n] \in DOMAIN subscribers /\ subscribers'[n] = subscribers[place[n]]
    BY <1>2
  <2> QED  BY <2>1 DEF DataSound, Snapshots
<1>4. Behind' /\ Viewed'
  BY <1>1 DEF DataSound, Behind, Viewed
<1>5. LeftBehind'
  BY <1>1 DEF LeftBehind
<1> QED  BY <1>3, <1>4, <1>5 DEF DataSound

\* Every step keeps what books, streams, snapshots and readers say of each other.
LEMMA DataKept ==
    ASSUME SlowSnapshots = FALSE, Structure, Structure', DataSound, [Next]_vars
    PROVE  DataSound'
<1>1. CASE UNCHANGED vars
  <2>1. UNCHANGED <<exchange, subscribers, books, streams, orphans, shown>>
    BY <1>1 DEF vars
  <2>2. Behind' /\ Snapshots' /\ Viewed' /\ LeftBehind'
    BY <2>1 DEF DataSound, Behind, Snapshots, Viewed, LeftBehind
  <2> QED  BY <2>2 DEF DataSound
<1>2. ASSUME NEW s \in Symbols, NEW n \in 1 .. 2, Update(s, n) PROVE DataSound'
  BY <1>2, UpdateBehind DEF DataSound
<1>3. ASSUME NEW s \in Symbols,
             StreamDies(s) \/ SkipEvent(s) \/ ApplyTopUpdate(s) \/ Expire(s)
      PROVE  DataSound'
  BY <1>3, FeedsShowNothing
<1>4. ASSUME NEW s \in Symbols, ApplyBookUpdate(s) PROVE DataSound'
  BY <1>4, EventShown
<1>5. CASE AddSubscription
  BY <1>5, LoopsShowNothing
<1>6. CASE CheckStopped
  BY <1>6, StoppedShown
<1>7. ASSUME NEW i \in DOMAIN subscribers, Reset(i, FALSE) \/ Reset(i, TRUE) PROVE DataSound'
  BY <1>7, ResetShown
<1>8. ASSUME NEW i \in DOMAIN subscribers, ReceiveSnapshot(i) PROVE DataSound'
  BY <1>8, SnapshotShown
<1>9. ASSUME NEW i \in DOMAIN subscribers,
             \/ Connect(i) \/ FailToConnect(i) \/ RequestSnapshot(i) \/ LoseSnapshot(i)
             \/ CheckStale(i) \/ \E subscribed \in BOOLEAN : AddBook(i, subscribed)
      PROVE  DataSound'
  BY <1>9, LoopsShowNothing
<1>10. ASSUME NEW o \in orphans, ReceiveOrphan(o) PROVE DataSound'
  BY <1>10, OrphanShown
<1> QED
  <2>1. CASE Next
    <3>1. CASE \E s \in Symbols : \/ \E n \in 1 .. 2 : Update(s, n)
                                  \/ StreamDies(s) \/ SkipEvent(s) \/ ApplyBookUpdate(s)
                                  \/ ApplyTopUpdate(s) \/ Expire(s)
      BY <1>2, <1>3, <1>4, <3>1
    <3>2. CASE \E i \in DOMAIN subscribers : \/ LoopStep(i) \/ Reset(i, TRUE) \/ LoseSnapshot(i)
                                             \/ FailToConnect(i)
                                             \/ \E subscribed \in BOOLEAN : AddBook(i, subscribed)
      BY <1>7, <1>8, <1>9, <3>2 DEF LoopStep
    <3> QED  BY <1>5, <1>6, <1>10, <2>1, <3>1, <3>2 DEF Next
  <2> QED  BY <1>1, <2>1

-----------------------------------------------------------------------------
(* What the specification promises.                                        *)

Inv == Structure /\ DataSound

\* At the start nothing is subscribed and nothing shown.
LEMMA InitInv == ASSUME IsFiniteSet(Symbols), Init PROVE Inv
<1>1. /\ exchange = [s \in Symbols |-> 1] /\ subscribers = <<>> /\ orphans = {}
      /\ books = [s \in Symbols |-> NewBook] /\ streams = [s \in Symbols |-> <<>>]
      /\ shown = [s \in Symbols |-> {}] /\ streaming = {} /\ wanted \in SetToSeqs(Symbols)
  BY DEF Init
<1>2. Structure
  <2>1. subscribers \in Seq(SubscriberTypes) /\ DOMAIN subscribers = {}
    BY <1>1
  <2>2. SubscriberSound
    BY <2>1 DEF SubscriberSound
  <2>3. Apart
    <3>1. wanted \in Seq(Symbols) /\ \A k, m \in DOMAIN wanted : wanted[k] = wanted[m] => k = m
      BY <1>1, OrderFacts
    <3> QED  BY <2>1, <3>1 DEF Apart
  <2>4. Fed
    BY <1>1 DEF Fed
  <2> QED  BY <2>2, <2>3, <2>4 DEF Structure
<1>3. Behind
  <2>1. \A s \in Symbols : /\ exchange[s] = 1 /\ streams[s] = <<>> /\ books[s] = NewBook
    BY <1>1
  <2>2. <<>> \in Seq(EventsUpTo(1)) /\ NewBook \in BooksUpTo(1)
    BY NewBookFacts
  <2> QED  BY <1>1, <2>1, <2>2 DEF Behind
<1>4. Snapshots
  BY <1>1 DEF Snapshots
<1>5. Viewed
  <2>1. \A s \in Symbols : shown[s] = 1 .. 0 /\ 0 \in 0 .. exchange[s] /\ books[s].last = None
    BY <1>1, NewBookFacts
  <2> QED  BY <1>1, <2>1 DEF Viewed
<1>6. LeftBehind
  BY <1>1 DEF LeftBehind
<1> QED  BY <1>2, <1>3, <1>4, <1>5, <1>6 DEF Inv, DataSound

\* Across all steps a symbol has one subscriber at most, and readers see what its book
\* knows of itself, as long as no snapshot takes longer than the arbiter's check
\* (binance_subscriber.rs, order_book_manager.rs).
THEOREM InvHolds ==
    ASSUME IsFiniteSet(Symbols), SlowSnapshots = FALSE
    PROVE  Spec => []Inv
<1>1. Init => Inv
  BY InitInv
<1>2. Inv /\ [Next]_vars => Inv'
  <2> SUFFICES ASSUME Inv, [Next]_vars PROVE Inv'
    OBVIOUS
  <2>1. Structure'
    BY StructureKept, BehindFacts DEF Inv
  <2>2. DataSound'
    BY <2>1, DataKept DEF Inv
  <2> QED  BY <2>1, <2>2 DEF Inv
<1> QED  BY <1>1, <1>2, PTL DEF Spec

\* What a book knows of itself is what its readers see, with no update missing.
THEOREM BooksComplete ==
    ASSUME IsFiniteSet(Symbols), SlowSnapshots = FALSE
    PROVE  Spec => []BookComplete
<1>1. Inv => BookComplete
  <2> SUFFICES ASSUME Inv, NEW i \in DOMAIN subscribers, NEW s \in subscribers[i].books,
                      books[s].last # None
               PROVE  shown[s] = 1 .. books[s].last
    BY DEF BookComplete
  <2>1. s \in Symbols
    BY SubscriberFacts DEF Inv, SubscriberTypes
  <2> QED  BY <2>1 DEF Inv, DataSound, Viewed
<1> QED  BY <1>1, InvHolds, PTL

\* A step shows one symbol's book anew, or none.
LEMMA OneShown ==
    ASSUME Inv, [Next]_vars
    PROVE  \/ UNCHANGED <<exchange, shown>>
           \/ \E s \in Symbols, n \in 1 .. 2 : Update(s, n)
           \/ UNCHANGED exchange /\ \E s \in Symbols : \E y : shown' = [shown EXCEPT ![s] = y]
<1>1. CASE UNCHANGED vars
  BY <1>1 DEF vars
<1>2. ASSUME NEW s \in Symbols,
             \/ \E n \in 1 .. 2 : Update(s, n)
             \/ StreamDies(s) \/ SkipEvent(s) \/ ApplyTopUpdate(s) \/ Expire(s)
      PROVE  UNCHANGED <<exchange, shown>> \/ \E n \in 1 .. 2 : Update(s, n)
  BY <1>2 DEF StreamDies, SkipEvent, ApplyTopUpdate, Expire, market, readers
<1>3. ASSUME NEW s \in Symbols, ApplyBookUpdate(s)
      PROVE  UNCHANGED exchange /\ \E y : shown' = [shown EXCEPT ![s] = y]
  BY <1>3 DEF ApplyBookUpdate, Becomes, market
<1>4. CASE AddSubscription \/ CheckStopped
  BY <1>4 DEF AddSubscription, CheckStopped, market, readers
<1>5. ASSUME NEW i \in DOMAIN subscribers, ReceiveSnapshot(i)
      PROVE  UNCHANGED exchange /\ \E s \in Symbols : \E y : shown' = [shown EXCEPT ![s] = y]
  <2>1. subscribers[i].inFlight.symbol \in Symbols
    BY <1>5, ReceivedFacts DEF Inv
  <2> QED  BY <1>5, <2>1 DEF ReceiveSnapshot, Becomes, market
<1>6. ASSUME NEW i \in DOMAIN subscribers,
             \/ Connect(i) \/ CheckStale(i) \/ Reset(i, FALSE) \/ RequestSnapshot(i)
             \/ Reset(i, TRUE) \/ LoseSnapshot(i) \/ FailToConnect(i)
             \/ \E subscribed \in BOOLEAN : AddBook(i, subscribed)
      PROVE  UNCHANGED <<exchange, shown>>
  BY <1>6 DEF Connect, CheckStale, Reset, RequestSnapshot, LoseSnapshot, FailToConnect, AddBook,
              market, readers
<1>7. ASSUME NEW o \in orphans, ReceiveOrphan(o)
      PROVE  UNCHANGED exchange /\ \E s \in Symbols : \E y : shown' = [shown EXCEPT ![s] = y]
  <2>1. o.symbol \in Symbols
    BY DEF Inv, DataSound, Snapshots
  <2> QED  BY <1>7, <2>1 DEF ReceiveOrphan, market
<1> QED
  <2>1. CASE \E s \in Symbols : \/ \E n \in 1 .. 2 : Update(s, n)
                                \/ StreamDies(s) \/ SkipEvent(s) \/ ApplyBookUpdate(s)
                                \/ ApplyTopUpdate(s) \/ Expire(s)
    BY <1>2, <1>3, <2>1
  <2>2. CASE \E i \in DOMAIN subscribers : \/ LoopStep(i) \/ Reset(i, TRUE) \/ LoseSnapshot(i)
                                           \/ FailToConnect(i)
                                           \/ \E subscribed \in BOOLEAN : AddBook(i, subscribed)
    BY <1>5, <1>6, <2>2 DEF LoopStep
  <2> QED  BY <1>1, <1>4, <1>7, <2>1, <2>2 DEF Next

\* Market data implements BookView: a step trades, refreshes one symbol's book to one
\* that the exchange had, or shows nothing new.
THEOREM ShowsBooks ==
    ASSUME IsFiniteSet(Symbols), SlowSnapshots = FALSE
    PROVE  Spec => IsBookView
<1>1. Init => View!Init
  <2> SUFFICES ASSUME Init PROVE View!Init
    OBVIOUS
  <2>1. {} = 1 .. 0 /\ 1 \in Nat
    OBVIOUS
  <2> QED  BY <2>1 DEF Init, View!Init, View!AtMoment
<1>2. Inv /\ Inv' /\ [Next]_vars => [View!Next]_<<exchange, shown>>
  <2> SUFFICES ASSUME Inv, Inv', [Next]_vars, ~UNCHANGED <<exchange, shown>> PROVE View!Next
    OBVIOUS
  <2>1. ASSUME NEW s \in Symbols, NEW n \in 1 .. 2, Update(s, n) PROVE View!Trade(s)
    <3>1. exchange' = [exchange EXCEPT ![s] = exchange[s] + n] /\ UNCHANGED shown
      BY <2>1 DEF Update, readers
    <3>2. exchange \in [Symbols -> Nat] /\ exchange[s] \in Nat
      BY BehindFacts DEF Inv
    <3>3. exchange'[s] = exchange[s] + n
      BY <3>1, <3>2
    <3> QED  BY <3>1, <3>2, <3>3 DEF View!Trade
  <2>2. ASSUME UNCHANGED exchange, NEW s \in Symbols, NEW y, shown' = [shown EXCEPT ![s] = y]
        PROVE  View!Refresh(s)
    <3>1. DOMAIN shown = Symbols
      BY DEF Inv, DataSound, Viewed
    <3>2. PICK n \in 0 .. exchange[s] : shown'[s] = 1 .. n
      BY <2>2 DEF Inv, DataSound, Viewed
    <3>3. shown' = [shown EXCEPT ![s] = 1 .. n]
      BY <2>2, <3>1, <3>2
    <3> QED  BY <2>2, <3>3 DEF View!Refresh, View!AtMoment
  <2> QED  BY <2>1, <2>2, OneShown DEF View!Next
<1> QED  BY <1>1, <1>2, InvHolds, PTL DEF Spec, IsBookView, View!Spec

================================================================================
