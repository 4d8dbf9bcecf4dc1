-------------------------------- MODULE Quotes --------------------------------
(* Quotes: the quote request manager (solver/index_quote_manager.rs), the     *)
(* queues of the solver (solver_order/solver_quote.rs) and the thread that    *)
(* runs both (run_quotes_backend). The thread takes one event at a time from  *)
(* the server or from the manager, and solves when neither has any.           *)
EXTENDS Integers, FiniteSets, Bags, SequencesExt

CONSTANTS Clients, QuoteIds, Symbols,
          Known,        \* symbols with a basket
          WaitPeriod,   \* client_quote_wait_period
          MaxRequests,  \* bound: messages from clients
          MaxCancels    \* bound: how many of them cancel

NoQuote == "no quote"

VARIABLES requests,      \* QuoteRequestManager.quote_requests
          quoteEvents,   \* what the manager told the solver
          clientQuotes,  \* SolverClientQuotes.client_quotes
          quoteQueues,   \* client_quotes_queues, <<>> where there is none
          quoteNotify,   \* client_notify_queue
          stuck,         \* the thread waits for a lock that it holds
          acked,         \* bag of the quotes that clients wait for
          wrong,         \* answers nobody waits for
          requested, cancels  \* how much of the bounds is used
vars == <<requests, quoteEvents, clientQuotes, quoteQueues, quoteNotify, stuck,
          acked, wrong, requested, cancels>>

Init == /\ requests = [c \in Clients |-> [s \in Symbols |-> NoQuote]]
        /\ quoteEvents = <<>>
        /\ clientQuotes = <<>>
        /\ quoteQueues = [c \in Clients |-> <<>>]
        /\ quoteNotify = <<>>
        /\ stuck = FALSE
        /\ acked = EmptyBag
        /\ wrong = 0
        /\ requested = 0 /\ cancels = 0

Waiting(c, id, s) == [client |-> c, id |-> id, symbol |-> s]
solving == <<clientQuotes, quoteQueues, quoteNotify, stuck, wrong>>

-------------------------------------------------------------------------------
(* The manager.                                                               *)

Message == /\ ~stuck
           /\ requested < MaxRequests
           /\ requested' = requested + 1
           /\ UNCHANGED solving

\* A quote to sell, for a symbol without basket, or beside one in process.
RefuseQuote(c, s, sell) ==
    /\ Message
    /\ sell \/ s \notin Known \/ requests[c][s] # NoQuote
    /\ UNCHANGED <<requests, quoteEvents, acked, cancels>>

NewQuoteRequest(c, id, s) ==
    /\ Message
    /\ s \in Known
    /\ requests[c][s] = NoQuote
    /\ requests' = [requests EXCEPT ![c][s] = id]
    /\ quoteEvents' = Append(quoteEvents,
                             [type |-> "new", client |-> c, id |-> id, symbol |-> s])
    /\ acked' = acked (+) SetToBag({Waiting(c, id, s)})
    /\ UNCHANGED cancels

\* The quote of the symbol is removed before its id is looked at. Only a cancel
\* that names it is passed on.
CancelQuoteRequest(c, id, s) ==
    /\ Message
    /\ cancels < MaxCancels
    /\ cancels' = cancels + 1
    /\ s \in Known /\ requests[c][s] # NoQuote
    /\ requests' = [requests EXCEPT ![c][s] = NoQuote]
    /\ IF requests[c][s] = id
       THEN /\ quoteEvents' = Append(quoteEvents,
                                     [type |-> "cancel", client |-> c, id |-> id, symbol |-> s])
            /\ acked' = acked (-) SetToBag({Waiting(c, id, s)})
       ELSE UNCHANGED <<quoteEvents, acked>>

-------------------------------------------------------------------------------
(* The solver's queues.                                                       *)

Key(e) == <<e.client, e.id>>

\* Mutant: a quote is queued without a look at the map.
AddClientQuote_Again(e) ==
    /\ clientQuotes' = [k \in DOMAIN clientQuotes \cup {Key(e)} |->
                          IF k = Key(e) THEN [symbol |-> e.symbol, age |-> 0]
                          ELSE clientQuotes[k]]
    /\ quoteQueues' = [quoteQueues EXCEPT ![e.client] = Append(@, e.id)]
    /\ quoteNotify' = IF quoteQueues[e.client] = <<>>
                      THEN Append(quoteNotify, e.client) ELSE quoteNotify

\* A client is notified of when its queue is new, its quote is first of all.
AddClientQuote(e) ==
    IF Key(e) \in DOMAIN clientQuotes
    THEN UNCHANGED <<clientQuotes, quoteQueues, quoteNotify>>
    ELSE /\ clientQuotes' = [k \in DOMAIN clientQuotes \cup {Key(e)} |->
                               IF k = Key(e) THEN [symbol |-> e.symbol, age |-> 0]
                               ELSE clientQuotes[k]]
         /\ quoteQueues' = [quoteQueues EXCEPT ![e.client] = Append(@, e.id)]
         /\ quoteNotify' = IF quoteQueues[e.client] = <<>>
                           THEN Append(quoteNotify, e.client) ELSE quoteNotify

\* Mutant: the client is not notified of again.
CancelClientQuote_Silent(e) ==
    \E i \in DOMAIN quoteQueues[e.client] :
        /\ quoteQueues[e.client][i] = e.id
        /\ clientQuotes' = [k \in DOMAIN clientQuotes \ {Key(e)} |-> clientQuotes[k]]
        /\ quoteQueues' = [quoteQueues EXCEPT ![e.client] = RemoveAt(@, i)]
        /\ UNCHANGED quoteNotify

\* When the first quote of a queue goes, the client is notified of again. (The
\* ids in a queue differ: retain drops one of them.)
CancelClientQuote(e) ==
    IF Key(e) \notin DOMAIN clientQuotes
    THEN UNCHANGED <<clientQuotes, quoteQueues, quoteNotify>>
    ELSE \E i \in DOMAIN quoteQueues[e.client] :
            /\ quoteQueues[e.client][i] = e.id
            /\ clientQuotes' = [k \in DOMAIN clientQuotes \ {Key(e)} |-> clientQuotes[k]]
            /\ quoteQueues' = [quoteQueues EXCEPT ![e.client] = RemoveAt(@, i)]
            /\ quoteNotify' = IF i = 1 /\ Len(quoteQueues[e.client]) > 1
                              THEN Append(quoteNotify, e.client) ELSE quoteNotify

HandleQuoteRequest ==
    /\ ~stuck
    /\ quoteEvents # <<>>
    /\ quoteEvents' = Tail(quoteEvents)
    /\ LET e == Head(quoteEvents)
       IN  \/ e.type = "new" /\ AddClientQuote(e)
           \/ e.type = "cancel" /\ CancelClientQuote(e)
    /\ UNCHANGED <<requests, stuck, acked, wrong, requested, cancels>>

-------------------------------------------------------------------------------
(* Solving.                                                                   *)

\* get_next_client_quote: only the client notified of first is looked at, and it
\* stays there when it has no quote or one that has to wait.
Ready(c) == /\ quoteQueues[c] # <<>>
            /\ clientQuotes[<<c, Head(quoteQueues[c])>>].age = WaitPeriod

Served == LET n == Max({k \in 0 .. Len(quoteNotify) :
                          \A i \in 1 .. k : Ready(quoteNotify[i])})
          IN  SubSeq(quoteNotify, 1, n)

FirstQuote(c) == LET id == Head(quoteQueues[c])
                 IN  [client |-> c, id |-> id, symbol |-> clientQuotes[<<c, id>>].symbol]

\* Mutant: the thread solves before it has taken the manager's events.
Idle_Eager == ~stuck

Idle == ~stuck /\ quoteEvents = <<>>
Popped == quoteNotify' = SubSeq(quoteNotify, Len(Served) + 1, Len(quoteNotify))

\* quotes_solved: every quote is answered, with a quantity or a NAK, and leaves
\* the manager by its symbol; the solver is told to drop it. With no quote to
\* serve a turn changes nothing.
Answer == LET quotes == {FirstQuote(c) : c \in Range(Served)}
              first == [i \in DOMAIN Served |-> FirstQuote(Served[i])]
          IN  /\ requests' = [c \in Clients |-> [s \in Symbols |->
                                 IF \E q \in quotes : q.client = c /\ q.symbol = s
                                 THEN NoQuote ELSE requests[c][s]]]
              /\ quoteEvents' = quoteEvents \o
                    [i \in DOMAIN first |-> [type |-> "cancel", client |-> first[i].client,
                                             id |-> first[i].id, symbol |-> first[i].symbol]]
              /\ acked' = acked (-) SetToBag(quotes)
              /\ wrong' = wrong + Cardinality({q \in quotes : ~BagIn(q, acked)})

SolveQuotes == /\ Idle
               /\ Served # <<>> /\ IsInjective(Served)
               /\ Popped /\ Answer
               /\ UNCHANGED <<clientQuotes, quoteQueues, stuck, requested, cancels>>

\* A client notified of twice has its quote taken twice, and the strategy locks
\* each quote it was given before it looks at any.
SolveTwice == /\ Idle
              /\ ~IsInjective(Served)
              /\ Popped
              /\ stuck' = TRUE
              /\ UNCHANGED <<requests, quoteEvents, clientQuotes, quoteQueues, acked, wrong,
                             requested, cancels>>

\* Time passes; no quote counts it beyond the wait period.
Tick == /\ clientQuotes' = [k \in DOMAIN clientQuotes |->
                             [clientQuotes[k] EXCEPT !.age = IF @ < WaitPeriod THEN @ + 1 ELSE @]]
        /\ clientQuotes' # clientQuotes
        /\ UNCHANGED <<requests, quoteEvents, quoteQueues, quoteNotify, stuck, acked, wrong,
                       requested, cancels>>

Next == \/ \E c \in Clients, s \in Symbols :
             \/ \E sell \in BOOLEAN : RefuseQuote(c, s, sell)
             \/ \E id \in QuoteIds : NewQuoteRequest(c, id, s) \/ CancelQuoteRequest(c, id, s)
        \/ HandleQuoteRequest \/ SolveQuotes \/ SolveTwice \/ Tick

Spec == Init /\ [][Next]_vars

\* The thread takes the manager's events, solves when idle, and time passes.
Fairness == WF_vars(HandleQuoteRequest) /\ WF_vars(SolveQuotes) /\ WF_vars(Tick)
FairSpec == Spec /\ Fairness

-------------------------------------------------------------------------------
(* Properties.                                                                *)

\* Type invariant of the manager and the queues.
TypeOK == /\ requests \in [Clients -> [Symbols -> QuoteIds \cup {NoQuote}]]
          /\ DOMAIN clientQuotes \subseteq Clients \X QuoteIds
          /\ \A k \in DOMAIN clientQuotes :
                clientQuotes[k] \in [symbol : Known, age : 0 .. WaitPeriod]
          /\ quoteQueues \in [Clients -> Seq(QuoteIds)]
          /\ quoteNotify \in Seq(Clients)
          /\ IsABag(acked)
          /\ stuck \in BOOLEAN

(***************************************************************************)
(* A client gets a quantity or a NAK for a quote only while it waits for   *)
(* it: none after its cancel was acknowledged, and none twice. The manager *)
(* forgets the quote before the solver hears of the cancel, and what keeps *)
(* the answer away is that the thread solves only when the manager has no  *)
(* event left (the default branch of run_quotes_backend).                  *)
(***************************************************************************)
AnswersAwaited == wrong = 0

(***************************************************************************)
(* Every quote in a queue is in the solver's map and the other way round:  *)
(* the queue's first entry is what get_next_client_quote looks up.         *)
(***************************************************************************)
QueuesMatchQuotes ==
    /\ DOMAIN clientQuotes = UNION {{<<c, id>> : id \in Range(quoteQueues[c])} : c \in Clients}
    /\ \A c \in Clients : IsInjective(quoteQueues[c])

\* Manager, queues and clients agree on which quotes wait for an answer.
QuotesAgree == TypeOK /\ AnswersAwaited /\ QueuesMatchQuotes

(***************************************************************************)
(* The protocol answers a NewQuoteRequest with an IndexQuoteResponse: a    *)
(* quote that the solver took leaves it again. It does while no client     *)
(* cancels, although a client is notified of only once for all its quotes  *)
(* and the thread solves only when idle. A cancel may leave a client first *)
(* in the notifications that has no quote, and all others behind it.       *)
(***************************************************************************)
EveryQuoteAnswered ==
    \A c \in Clients, id \in QuoteIds :
        <<c, id>> \in DOMAIN clientQuotes ~>
            <<c, id>> \notin DOMAIN clientQuotes \/ cancels > 0
================================================================================
