------------------------------ MODULE MarketData ------------------------------
(* Market data: the arbiter hands subscriptions to subscribers                *)
(* (libs/market-data); a subscriber's loop keeps a book for each symbol, from *)
(* the depth stream and from snapshots that its second loop asks for          *)
(* (libs/binance-market-data); the order book and the price tracker are what  *)
(* the solver reads (libs/symm-core). The exchange is external.               *)
EXTENDS Integers, FiniteSets, SequencesExt

CONSTANTS Symbols,
          Capacity,       \* max_subscriber_symbols
          SlowSnapshots,  \* whether a snapshot may take longer than the arbiter's check period
          MaxUpdates,     \* bound: updates of the exchange's book
          MaxFaults       \* bound: connections, streams and snapshots that fail

VARIABLES exchange,    \* id of the last update of a symbol
          ticked,      \* the last of them its book ticker sent
          wanted,      \* subscription_rx of the arbiter
          subscribers, \* Subscribers.subscribers
          books,       \* Book of a symbol, of the subscriber that has it
          streams,     \* depth events on their way: [first, final]
          streaming,   \* symbols with streams
          orphans,     \* snapshots that stopped subscribers still wait for
          shown,       \* PricePointBook: updates that are in it
          price,       \* PriceTracker: which update its top of book is of
          dropped,     \* subscriptions given up
          faults       \* how much of the bound is used
vars == <<exchange, ticked, wanted, subscribers, books, streams, streaming, orphans,
          shown, price, dropped, faults>>
market == <<exchange, ticked>>
feeds == <<streams, streaming>>
readers == <<shown, price>>

None == -1
NewBook == [last |-> None, requested |-> FALSE, pending |-> <<>>, fresh |-> TRUE]
NoSnapshot == [symbol |-> "none", id |-> None]
Subscriber(s) == [state |-> "connecting", symbols |-> {s}, queue |-> <<s>>, books |-> {},
                  requests |-> <<>>, inFlight |-> NoSnapshot]

Init == /\ exchange = [s \in Symbols |-> 1] /\ ticked = exchange
        /\ wanted \in SetToSeqs(Symbols)
        /\ subscribers = <<>>
        /\ books = [s \in Symbols |-> NewBook]
        /\ streams = [s \in Symbols |-> <<>>] /\ streaming = {}
        /\ orphans = {}
        /\ shown = [s \in Symbols |-> {}] /\ price = [s \in Symbols |-> None]
        /\ dropped = {}
        /\ faults = 0

Fault == faults < MaxFaults /\ faults' = faults + 1

-------------------------------------------------------------------------------
(* The exchange.                                                              *)

\* One depth event may carry several updates.
Update(s, n) ==
    /\ exchange[s] + n <= MaxUpdates
    /\ exchange' = [exchange EXCEPT ![s] = @ + n]
    /\ streams' = IF s \in streaming
                  THEN [streams EXCEPT ![s] = Append(@, [first |-> exchange[s] + 1,
                                                         final |-> exchange[s] + n])]
                  ELSE streams
    /\ UNCHANGED <<ticked, wanted, subscribers, books, streaming, orphans, readers, dropped, faults>>

\* The streams of a symbol fall silent; nobody is told.
StreamDies(s) ==
    /\ s \in streaming
    /\ Fault
    /\ streaming' = streaming \ {s}
    /\ streams' = [streams EXCEPT ![s] = <<>>]
    /\ UNCHANGED <<market, wanted, subscribers, books, orphans, readers, dropped>>

\* An event is not sent: the exchange drops them for who is slow.
SkipEvent(s) ==
    /\ streams[s] # <<>>
    /\ Fault
    /\ streams' = [streams EXCEPT ![s] = Tail(@)]
    /\ UNCHANGED <<market, wanted, subscribers, books, streaming, orphans, readers, dropped>>

-------------------------------------------------------------------------------
(* The arbiter.                                                               *)

\* The first subscriber with room gets the subscription. If it has stopped the
\* subscription is in none, and nobody asks for it again.
AddSubscription ==
    /\ wanted # <<>>
    /\ wanted' = Tail(wanted)
    /\ LET s == Head(wanted)
           room == {i \in DOMAIN subscribers : Cardinality(subscribers[i].symbols) < Capacity}
           i == Min(room)
       IN  IF room = {}
           THEN subscribers' = Append(subscribers, Subscriber(s)) /\ UNCHANGED dropped
           ELSE IF subscribers[i].state = "stopped"
           THEN dropped' = dropped \cup {s} /\ UNCHANGED subscribers
           ELSE /\ subscribers' = [subscribers EXCEPT ![i].symbols = @ \cup {s},
                                                      ![i].queue = Append(@, s)]
                /\ UNCHANGED dropped
    /\ UNCHANGED <<market, books, feeds, orphans, readers, faults>>

Stopped == {i \in DOMAIN subscribers : subscribers[i].state = "stopped"}

\* Those that have not stopped remain, in their order.
RemoveStopped ==
    LET kept == DOMAIN subscribers \ Stopped
    IN  \E place \in [1 .. Cardinality(kept) -> kept] :
           /\ \A m, n \in DOMAIN place : m < n => place[m] < place[n]
           /\ subscribers' = [n \in DOMAIN place |-> subscribers[place[n]]]

\* Mutant: what the stopped ones had is not asked for again.
CheckStopped_Forgets ==
    /\ orphans = {} \/ SlowSnapshots
    /\ Stopped # {}
    /\ RemoveStopped
    /\ UNCHANGED <<market, wanted, books, feeds, orphans, readers, dropped, faults>>

\* Subscribers that stopped are removed, and what they had is asked for again.
CheckStopped ==
    /\ orphans = {} \/ SlowSnapshots
    /\ Stopped # {}
    /\ \E order \in SetToSeqs(UNION {subscribers[i].symbols : i \in Stopped}) :
          wanted' = wanted \o order
    /\ RemoveStopped
    /\ UNCHANGED <<market, books, feeds, orphans, readers, dropped, faults>>

-------------------------------------------------------------------------------
(* A book: x is the book with what its readers see, and whether it asked for  *)
(* a snapshot.                                                                *)

\* Asking for a snapshot clears what waits.
Asked(b) == IF b.requested THEN b ELSE [b EXCEPT !.pending = <<>>, !.requested = TRUE]

\* Mutant: an update may be missing.
ApplyUpdate_Gap(x, e) ==
    LET b == x.book
    IN  IF b.last = None \/ e.first > b.last + 2
        THEN [x EXCEPT !.book = [Asked(b) EXCEPT !.pending = Append(@, e)],
                       !.asked = @ \/ ~b.requested]
        ELSE IF e.final < b.last THEN x
        ELSE [x EXCEPT !.book.last = e.final, !.book.fresh = TRUE,
                       !.shown = @ \cup e.first .. e.final]

\* An update that does not follow on the last one waits for a snapshot, one
\* that is older is ignored.
ApplyUpdate(x, e) ==
    LET b == x.book
    IN  IF b.last = None \/ e.first > b.last + 1
        THEN [x EXCEPT !.book = [Asked(b) EXCEPT !.pending = Append(@, e)],
                       !.asked = @ \/ ~b.requested]
        ELSE IF e.final < b.last THEN x
        ELSE [x EXCEPT !.book.last = e.final, !.book.fresh = TRUE,
                       !.shown = @ \cup e.first .. e.final]

\* Events that waited, one after the other.
Replay(x, events) ==
    LET after[n \in 0 .. Len(events)] ==
            IF n = 0 THEN x ELSE ApplyUpdate(after[n - 1], events[n])
    IN  after[Len(events)]

\* Mutant: the number of a later update is kept.
ApplySnapshot_KeepsLast(b, id) ==
    Replay([book |-> [b EXCEPT !.last = Max({@, id}), !.fresh = TRUE, !.requested = FALSE,
                               !.pending = <<>>],
            shown |-> 1 .. id, asked |-> FALSE],
           b.pending)

\* The snapshot overwrites the book, also a later one; then what waits follows.
ApplySnapshot(b, id) ==
    Replay([book |-> [b EXCEPT !.last = id, !.fresh = TRUE, !.requested = FALSE, !.pending = <<>>],
            shown |-> 1 .. id, asked |-> FALSE],
           b.pending)

\* The top of book of a snapshot, when no update waits.
TopOfSnapshot(s, b, id) == IF b.pending = <<>> THEN id ELSE price[s]

-------------------------------------------------------------------------------
(* A subscriber.                                                              *)

Connect(i) ==
    /\ subscribers[i].state = "connecting"
    /\ subscribers' = [subscribers EXCEPT ![i].state = "running"]
    /\ UNCHANGED <<market, wanted, books, feeds, orphans, readers, dropped, faults>>

FailToConnect(i) ==
    /\ subscribers[i].state = "connecting"
    /\ Fault
    /\ subscribers' = [subscribers EXCEPT ![i].state = "stopped", ![i].queue = <<>>]
    /\ UNCHANGED <<market, wanted, books, feeds, orphans, readers, dropped>>

\* The book is added before the streams are subscribed, which may fail.
AddBook(i, subscribed) ==
    /\ subscribers[i].state = "running" /\ subscribers[i].queue # <<>>
    /\ LET s == Head(subscribers[i].queue)
       IN  /\ subscribers' = [subscribers EXCEPT ![i].queue = Tail(@), ![i].books = @ \cup {s}]
           /\ books' = [books EXCEPT ![s] = NewBook]
           /\ IF subscribed
              THEN /\ streaming' = streaming \cup {s}
                   /\ ticked' = [ticked EXCEPT ![s] = exchange[s]]
                   /\ UNCHANGED faults
              ELSE Fault /\ UNCHANGED <<streaming, ticked>>
    /\ UNCHANGED <<exchange, wanted, streams, orphans, readers, dropped>>

Owner(s) == CHOOSE i \in DOMAIN subscribers : s \in subscribers[i].books

\* Book and readers get what x says.
Becomes(s, x) ==
    /\ books' = [books EXCEPT ![s] = x.book]
    /\ shown' = [shown EXCEPT ![s] = x.shown]

ApplyBookUpdate(s) ==
    /\ s \in streaming /\ streams[s] # <<>>
    /\ streams' = [streams EXCEPT ![s] = Tail(@)]
    /\ LET x == ApplyUpdate([book |-> books[s], shown |-> shown[s], asked |-> FALSE], Head(streams[s]))
       IN  /\ Becomes(s, x)
           /\ subscribers' = IF x.asked
                             THEN [subscribers EXCEPT ![Owner(s)].requests = Append(@, s)]
                             ELSE subscribers
    /\ UNCHANGED <<market, wanted, streaming, orphans, price, dropped, faults>>

\* The book ticker is a stream of its own, ahead of the depth or behind it.
ApplyTopUpdate(s) ==
    /\ s \in streaming /\ ticked[s] < exchange[s]
    /\ ticked' = [ticked EXCEPT ![s] = exchange[s]]
    /\ price' = [price EXCEPT ![s] = exchange[s]]
    /\ UNCHANGED <<exchange, wanted, subscribers, books, feeds, orphans, shown, dropped, faults>>

\* No update for stale_timeout.
Expire(s) ==
    /\ books[s].fresh /\ \E i \in DOMAIN subscribers : s \in subscribers[i].books
    /\ books' = [books EXCEPT ![s].fresh = FALSE]
    /\ UNCHANGED <<market, wanted, subscribers, feeds, orphans, readers, dropped, faults>>

Stale(i) == {s \in subscribers[i].books : ~books[s].fresh}
ToRequest(i) == {s \in Stale(i) : ~books[s].requested}

\* Some books are stale: their snapshots are asked for.
CheckStale(i) ==
    /\ subscribers[i].state = "running"
    /\ Stale(i) # subscribers[i].books /\ ToRequest(i) # {}
    /\ books' = [s \in Symbols |-> IF s \in ToRequest(i) THEN Asked(books[s]) ELSE books[s]]
    /\ \E order \in SetToSeqs(ToRequest(i)) :
          subscribers' = [subscribers EXCEPT ![i].requests = @ \o order]
    /\ UNCHANGED <<market, wanted, feeds, orphans, readers, dropped, faults>>

\* All are stale, as when there is none yet: the subscriber stops. Its snapshot
\* loop finishes the call it is in, or still takes the next request.
Reset(i, last) ==
    /\ subscribers[i].state = "running"
    /\ Stale(i) = subscribers[i].books
    /\ LET x == subscribers[i]
           requests == ToSet(x.requests) \cup ToRequest(i)
           Orphan(s, id) == [symbol |-> s, id |-> id, book |-> Asked(books[s])]
       IN  /\ \/ /\ x.inFlight # NoSnapshot /\ ~last
                 /\ orphans' = orphans \cup {Orphan(x.inFlight.symbol, x.inFlight.id)}
              \/ x.inFlight = NoSnapshot /\ ~last /\ orphans' = orphans
              \/ /\ x.inFlight = NoSnapshot /\ last
                 /\ \E s \in requests : orphans' = orphans \cup {Orphan(s, exchange[s])}
           /\ subscribers' = [subscribers EXCEPT ![i] =
                 [x EXCEPT !.state = "stopped", !.queue = <<>>, !.books = {}, !.requests = <<>>,
                           !.inFlight = NoSnapshot]]
           /\ streaming' = streaming \ x.books
           /\ streams' = [s \in Symbols |-> IF s \in x.books THEN <<>> ELSE streams[s]]
           /\ books' = [s \in Symbols |-> IF s \in x.books THEN NewBook ELSE books[s]]
    /\ UNCHANGED <<market, wanted, readers, dropped, faults>>

-------------------------------------------------------------------------------
(* Its snapshot loop, one call at a time.                                     *)

RequestSnapshot(i) ==
    /\ subscribers[i].inFlight = NoSnapshot /\ subscribers[i].requests # <<>>
    /\ LET s == Head(subscribers[i].requests)
       IN  subscribers' = [subscribers EXCEPT
                             ![i].requests = Tail(@),
                             ![i].inFlight = [symbol |-> s, id |-> exchange[s]]]
    /\ UNCHANGED <<market, wanted, books, feeds, orphans, readers, dropped, faults>>

ReceiveSnapshot(i) ==
    /\ subscribers[i].inFlight # NoSnapshot
    /\ LET s == subscribers[i].inFlight.symbol
           id == subscribers[i].inFlight.id
           x == ApplySnapshot(books[s], id)
           served == [subscribers EXCEPT ![i].inFlight = NoSnapshot]
       IN  /\ Becomes(s, x)
           /\ price' = [price EXCEPT ![s] = TopOfSnapshot(s, books[s], id)]
           /\ subscribers' = IF x.asked THEN [served EXCEPT ![i].requests = Append(@, s)] ELSE served
    /\ UNCHANGED <<market, wanted, feeds, orphans, dropped, faults>>

\* The call fails. The book still counts as asked for.
LoseSnapshot(i) ==
    /\ subscribers[i].inFlight # NoSnapshot
    /\ Fault
    /\ subscribers' = [subscribers EXCEPT ![i].inFlight = NoSnapshot]
    /\ UNCHANGED <<market, wanted, books, feeds, orphans, readers, dropped>>

\* A book that is gone publishes its snapshot as any other.
ReceiveOrphan(o) ==
    /\ orphans' = orphans \ {o}
    /\ shown' = [shown EXCEPT ![o.symbol] = ApplySnapshot(o.book, o.id).shown]
    /\ price' = [price EXCEPT ![o.symbol] = TopOfSnapshot(o.symbol, o.book, o.id)]
    /\ UNCHANGED <<market, wanted, subscribers, books, feeds, dropped, faults>>

LoopStep(i) == \/ Connect(i) \/ CheckStale(i) \/ Reset(i, FALSE)
               \/ RequestSnapshot(i) \/ ReceiveSnapshot(i)

Next == \/ \E s \in Symbols : \/ \E n \in 1 .. 2 : Update(s, n)
                              \/ StreamDies(s) \/ SkipEvent(s) \/ ApplyBookUpdate(s) \/ ApplyTopUpdate(s)
                              \/ Expire(s)
        \/ AddSubscription \/ CheckStopped
        \/ \E i \in DOMAIN subscribers : \/ LoopStep(i) \/ Reset(i, TRUE) \/ LoseSnapshot(i)
                                         \/ FailToConnect(i)
                                         \/ \E subscribed \in BOOLEAN : AddBook(i, subscribed)
        \/ \E o \in orphans : ReceiveOrphan(o)

Spec == Init /\ [][Next]_vars

\* Every loop goes on and time passes. select! takes a branch at random, so that
\* no branch that is ready again and again is passed over forever.
Fairness == /\ WF_vars(AddSubscription) /\ WF_vars(CheckStopped)
            /\ WF_vars(\E o \in orphans : ReceiveOrphan(o))
            /\ \A s \in Symbols : WF_vars(ApplyBookUpdate(s)) /\ WF_vars(Expire(s))
            /\ \A i \in 1 .. Cardinality(Symbols) :
                  /\ WF_vars(i \in DOMAIN subscribers /\ LoopStep(i))
                  /\ SF_vars(i \in DOMAIN subscribers /\ AddBook(i, TRUE))
                  /\ SF_vars(i \in DOMAIN subscribers /\ Reset(i, TRUE))
FairSpec == Spec /\ Fairness

-------------------------------------------------------------------------------
(* Properties.                                                                *)

(***************************************************************************)
(* What a book knows of itself is what its readers see: up to its last     *)
(* update nothing is missing, and after it nothing is shown, whatever      *)
(* snapshots arrive late and whatever updates wait for them.               *)
(***************************************************************************)
BookComplete ==
    \A i \in DOMAIN subscribers : \A s \in subscribers[i].books :
        books[s].last # None => shown[s] = 1 .. books[s].last

(***************************************************************************)
(* Every symbol's book, across the subscribers that serve it one after the *)
(* other, is one of the exchange's at some moment.                         *)
(***************************************************************************)
View == INSTANCE BookView WITH traded <- exchange
IsBookView == View!Spec

(***************************************************************************)
(* When an exchange falls quiet, book and price are in the end those of    *)
(* its last update, also for a symbol whose streams or snapshots failed    *)
(* and for one that never had an update: main waits for all prices before  *)
(* it goes on. A subscription handed to a subscriber that has just stopped *)
(* is lost.                                                                *)
(***************************************************************************)
CatchesUp ==
    \A s \in Symbols :
        <>[](s \in dropped \/ (shown[s] = 1 .. exchange[s] /\ price[s] = exchange[s]))
================================================================================
