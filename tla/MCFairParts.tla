------------------------------ MODULE MCFairParts ------------------------------
(***************************************************************************)
(* Components that must get on, and share no state: part says which of     *)
(* them moves, the others stay where they begin.  Each is an instance of   *)
(* its module under the fairness of the threads and tasks that drive it;   *)
(* the subscript names the variables of that component, so that a step of  *)
(* another part is none of its steps.                                      *)
(***************************************************************************)
EXTENDS Integers, Sequences, FiniteSets
CONSTANTS Null, OrderIds, Arcs, MaxBatchSize, ReuseIds, AllowUpdates, MaxNotify, MaxInflight,
          Clients, QuoteIds, Symbols, Known, WaitPeriod, MaxRequests, MaxCancels,
          Accounts, FirstBlock, MaxBlocks, Window, WordSize, WebSocket, Attempts, MaxSends,
          MaxPolls, MaxRpcFaults,
          Modes, MaxEvents, MaxRejects,
          Listed, Capacity, SlowSnapshots, MaxUpdates, MaxFaults
VARIABLES part,
          order, client_orders, client_order_queues, client_notify_queue, ready_orders, engaged,
          inflight, used, phase,
          requests, quoteEvents, clientQuotes, quoteQueues, quoteNotify, stuck, acked, wrong,
          requested, cancels,
          head, deposits, chainSession, senderTurn, commandQueue, attempt, pollQueue, cursor,
          subscribedAt, streamed, streaming, deposited, missed, connection, executed,
          commandAnswer, sends, rpcFaults,
          mode, mainAt, solverStatus, loop, solveStatus, stopSolver, threads, senderOn,
          serverOn, accepts, prices, activeBatches, ordersIn, fillsIn, solverIn, memory,
          disk, rejected, events,
          exchange, ticked, wanted, subscribers, books, streams, depthStreams, orphans, shown,
          price, dropped, faults

S == INSTANCE SolverClientOrders
Q == INSTANCE Quotes
C == INSTANCE ChainConnector
L == INSTANCE SolverLifecycle
M == INSTANCE MarketDataProofs WITH Symbols <- Listed, streaming <- depthStreams

\* The head of the chain is beyond the window a poll looks back from the start
\* (issuer_stream.rs:105 subtracts without a check, so that on a younger chain the
\* difference wraps), and block numbers do not reach the end of their 64 bits.
ChainParameters ==
    /\ Window \in Nat /\ FirstBlock \in Nat /\ MaxBlocks \in Nat /\ WordSize \in Nat
    /\ MaxSends \in Nat
    /\ Window <= FirstBlock /\ FirstBlock + MaxBlocks < WordSize

\* What the proofs about the parts ask of the constants.
ASSUME Parameters == WaitPeriod \in Nat /\ ChainParameters /\ IsFiniteSet(Listed)

orderVars == <<order, client_orders, client_order_queues, client_notify_queue, ready_orders,
               engaged, inflight, used, phase>>
quoteVars == <<requests, quoteEvents, clientQuotes, quoteQueues, quoteNotify, stuck, acked,
               wrong, requested, cancels>>
chainVars == <<head, deposits, chainSession, senderTurn, commandQueue, attempt, pollQueue,
               cursor, subscribedAt, streamed, streaming, deposited, missed, connection,
               executed, commandAnswer, sends, rpcFaults>>
lifecycleVars == <<mode, mainAt, solverStatus, loop, solveStatus, stopSolver, threads,
                   senderOn, serverOn, accepts, prices, activeBatches, ordersIn, fillsIn,
                   solverIn, memory, disk, rejected, events>>
marketVars == <<exchange, ticked, wanted, subscribers, books, streams, depthStreams, orphans,
                shown, price, dropped, faults>>
vars == <<part, orderVars, quoteVars, chainVars, lifecycleVars, marketVars>>

Init == /\ part \in {"orders", "quotes", "chain", "lifecycle", "market"}
        /\ S!Init /\ Q!Init /\ C!Init /\ L!Init /\ M!Init
        /\ part = "lifecycle" \/ mode = "orders"

Next == \/ /\ part = "orders" /\ S!Next
           /\ UNCHANGED <<part, quoteVars, chainVars, lifecycleVars, marketVars>>
        \/ /\ part = "quotes" /\ Q!Next
           /\ UNCHANGED <<part, orderVars, chainVars, lifecycleVars, marketVars>>
        \/ /\ part = "chain" /\ C!Next
           /\ UNCHANGED <<part, orderVars, quoteVars, lifecycleVars, marketVars>>
        \/ /\ part = "lifecycle" /\ L!Next
           /\ UNCHANGED <<part, orderVars, quoteVars, chainVars, marketVars>>
        \/ /\ part = "market" /\ M!Next
           /\ UNCHANGED <<part, orderVars, quoteVars, chainVars, lifecycleVars>>

\* The solver ticks and time passes, requests are handled, tasks of the chain
\* and market data connectors run on, threads end when they are told to.
Fairness ==
    /\ WF_orderVars(part = "orders" /\ S!BeginSolve)
    /\ WF_orderVars(part = "orders" /\ S!ServeNextClient)
    /\ WF_orderVars(part = "orders" /\ S!EndServe)
    /\ WF_orderVars(part = "orders" /\ S!EngageAny)
    /\ SF_orderVars(part = "orders" /\ S!Clock)
    /\ WF_quoteVars(part = "quotes" /\ Q!HandleQuoteRequest)
    /\ WF_quoteVars(part = "quotes" /\ Q!SolveQuotes)
    /\ WF_quoteVars(part = "quotes" /\ Q!Tick)
    /\ \A a \in Accounts : /\ WF_chainVars(part = "chain" /\ C!StartStep(a))
                           /\ WF_chainVars(part = "chain" /\ C!CommandStep(a))
    /\ WF_lifecycleVars(part = "lifecycle" /\ L!MainStep)
    /\ WF_lifecycleVars(part = "lifecycle" /\ L!MarketDataEvent)
    /\ WF_lifecycleVars(part = "lifecycle" /\ L!LoopStep)
    /\ SF_lifecycleVars(part = "lifecycle" /\ L!SolverStops)
    /\ \A t \in {"orders", "quotes", "market"} :
          WF_lifecycleVars(part = "lifecycle" /\ L!ThreadStops(t))
    /\ WF_marketVars(part = "market" /\ M!AddSubscription)
    /\ WF_marketVars(part = "market" /\ M!CheckStopped)
    /\ WF_marketVars(part = "market" /\ \E o \in orphans : M!ReceiveOrphan(o))
    /\ \A s \in Listed : /\ WF_marketVars(part = "market" /\ M!ApplyBookUpdate(s))
                         /\ WF_marketVars(part = "market" /\ M!Expire(s))
    /\ \A i \in 1 .. 1 :
          /\ WF_marketVars(part = "market" /\ i \in DOMAIN subscribers /\ M!LoopStep(i))
          /\ SF_marketVars(part = "market" /\ i \in DOMAIN subscribers /\ M!AddBook(i, TRUE))
          /\ SF_marketVars(part = "market" /\ i \in DOMAIN subscribers /\ M!Reset(i, TRUE))

Spec == Init /\ [][Next]_vars /\ Fairness

-------------------------------------------------------------------------------
(* Properties, each of the module it comes from.                              *)

\* A client whose due order waits for ever waits behind the notification of a
\* client that cancelled all its orders (put_back, peek_next_client_order).
StarvesOnlyBehindStale == S!StarvesOnlyBehindStale

\* Manager, queues and clients agree on which quotes wait for an answer: none is
\* answered after its cancel or twice (QuoteRequestManager, solve_quotes).
QuotesAgree == Q!QuotesAgree

\* Every quote that the solver took leaves it again, unless a client cancels
\* (solve_quotes, get_next_client_quote).
EveryQuoteAnswered == Q!EveryQuoteAnswered

\* Deposits are reported by the polls of a session, and transfers to the router,
\* when they happened and once, though providers fail and calls are repeated
\* (issuer_stream.rs, custody_session.rs, multiprovider.rs).
ChainAccounted == C!ChainAccounted

\* Every command that a session has is answered unless the session ends
\* (session.rs).
CommandsAnswered == C!CommandsAnswered

\* After a graceful stop the disk holds what the managers know, whatever came
\* in meanwhile, and in mode orders the application panics only after a rejected
\* order (SolverConfig::stop).
StopsInOrder == L!StopsInOrder

\* A stop that has begun ends, whatever is still active (SolverConfig::stop).
StopEnds == L!StopEnds

\* A solver that shuts down in mode orders does not come back, and a chain
\* session that was stopped reports nothing any more (complete_warming_up,
\* session.rs).
StopsStay == L!ShutdownSticks /\ C!QuietWhenStopped

\* A symbol's book is always one that the exchange had, across the subscribers
\* that serve the symbol (binance_subscriber.rs, order_book_manager.rs).
IsBookView == M!IsBookView

\* When the exchange falls quiet, book and price are in the end those of its
\* last update (Book::apply_update, PriceTracker, Subscriptions).
CatchesUp == part = "market" => M!CatchesUp
================================================================================
