--------------------------- MODULE SolverLifecycle ---------------------------
(* Start, run and graceful stop of the application (main.rs, app/solver.rs):  *)
(* the main task, the dispatch loop of the solver, the threads for orders,    *)
(* quotes and market data with their channels, and what Solver::store writes  *)
(* at the end. What an event changes is counted, not modelled.                *)
EXTENDS Integers, Sequences

CONSTANTS Modes,      \* "orders" or "quotes": run or run_quotes
          MaxEvents,  \* bound: messages of clients and fills of the exchange
          MaxRejects  \* bound: orders the exchange rejects

VARIABLES mode,
          mainAt,       \* what the main task does next
          solverStatus, \* Solver.status
          loop,         \* dispatch loop: off, select, solve, exited
          solveStatus,  \* the status solve() has read
          stopSolver,   \* a message in stop_solver
          threads,      \* "off", "on", "stopping", "stopped" of the other threads
          senderOn, serverOn, accepts, \* order sender, FIX server, its door
          prices,       \* the market data thread has a price of every asset
          activeBatches,
          ordersIn, fillsIn,       \* channels of the orders thread
          solverIn,     \* channels of the dispatch loop: a bag of kinds
          memory, disk, \* how often each part changed, and what is stored
          rejected, events \* how much of the bounds is used
vars == <<mode, mainAt, solverStatus, loop, solveStatus, stopSolver, threads, senderOn,
          serverOn, accepts, prices, activeBatches, ordersIn, fillsIn, solverIn, memory,
          disk, rejected, events>>
dispatch == <<solverStatus, loop, solveStatus>>
channels == <<ordersIn, fillsIn, solverIn>>
outside == <<senderOn, serverOn, accepts>>
state == <<memory, disk, activeBatches>>
counts == <<rejected, events>>

\* What Solver::store stores.
Parts == {"index orders", "collateral", "batches", "inventory", "solver"}
EventKinds == {"order", "fill", "reject"}

Init == /\ mode \in Modes
        /\ mainAt = "run_orders_backend"
        /\ solverStatus = "Created" /\ loop = "off" /\ solveStatus = "Created"
        /\ stopSolver = FALSE
        /\ threads = [t \in {"orders", "quotes", "market"} |-> "off"]
        /\ senderOn = FALSE /\ serverOn = FALSE /\ accepts = TRUE
        /\ prices = FALSE
        /\ activeBatches = 0
        /\ ordersIn = 0 /\ fillsIn = <<>> /\ solverIn = [k \in EventKinds |-> 0]
        /\ memory = [p \in Parts |-> 0] /\ disk = memory
        /\ rejected = 0 /\ events = 0

Change(ps) == memory' = [p \in Parts |-> IF p \in ps THEN memory[p] + 1 ELSE memory[p]]
Store(ps) == disk' = [p \in Parts |-> IF p \in ps THEN memory[p] ELSE disk[p]]
Tell(kind) == solverIn' = [solverIn EXCEPT ![kind] = @ + 1]

-------------------------------------------------------------------------------
(* The main task: the start.                                                  *)

Main(at, next) == mainAt = at /\ mainAt' = next
StartThread(t) == threads' = [threads EXCEPT ![t] = "on"]

\* run_quotes has no orders thread, and so no order sender.
RunOrdersBackend ==
    /\ Main("run_orders_backend", "run_quotes_backend")
    /\ IF mode = "orders" THEN StartThread("orders") /\ senderOn' = TRUE
                          ELSE UNCHANGED <<threads, senderOn>>
    /\ UNCHANGED <<mode, dispatch, stopSolver, serverOn, accepts, prices, channels, state, counts>>

RunQuotesBackend ==
    /\ Main("run_quotes_backend", "run_market_data")
    /\ StartThread("quotes")
    /\ UNCHANGED <<mode, dispatch, stopSolver, outside, prices, channels, state, counts>>

RunMarketData ==
    /\ Main("run_market_data", "run_solver")
    /\ StartThread("market")
    /\ UNCHANGED <<mode, dispatch, stopSolver, outside, prices, channels, state, counts>>

RunSolver ==
    /\ Main("run_solver", "start server")
    /\ loop' = "select"
    /\ UNCHANGED <<mode, solverStatus, solveStatus, stopSolver, threads, outside, prices,
                   channels, state, counts>>

StartServer ==
    /\ Main("start server", "await prices")
    /\ serverOn' = TRUE
    /\ UNCHANGED <<mode, dispatch, stopSolver, threads, senderOn, accepts, prices, channels,
                   state, counts>>

AwaitMarketData ==
    /\ prices
    /\ Main("await prices", "select")
    /\ UNCHANGED <<mode, dispatch, stopSolver, threads, outside, prices, channels, state, counts>>

-------------------------------------------------------------------------------
(* The main task: the stop. In mode "orders" the steps of SolverConfig::stop,  *)
(* in mode "quotes" those of stop_quotes.                                     *)

CheckSolverStopped ==
    /\ loop = "exited"
    /\ Main("select", "panicked")
    /\ UNCHANGED <<mode, dispatch, stopSolver, threads, outside, prices, channels, state, counts>>

\* A signal. No connection is accepted from here on; those that are open go on.
InitializeShutdown ==
    /\ Main("select", IF mode = "orders" THEN "stop_solver" ELSE "stop quotes")
    /\ accepts' = FALSE
    /\ solverStatus' = IF mode = "quotes" THEN "ShuttingDown" ELSE solverStatus
    /\ UNCHANGED <<mode, loop, solveStatus, stopSolver, threads, senderOn, serverOn, prices,
                   channels, state, counts>>

\* The message cannot be sent to a loop that exited: main ends there, with
\* nothing stored.
StopSolver ==
    /\ IF loop = "exited" THEN Main("stop_solver", "panicked") /\ UNCHANGED stopSolver
                          ELSE Main("stop_solver", "await solver") /\ stopSolver' = TRUE
    /\ UNCHANGED <<mode, dispatch, threads, outside, prices, channels, state, counts>>

AwaitSolver ==
    /\ loop = "exited"
    /\ Main("await solver", IF mode = "orders" THEN "stop sender" ELSE "stop market")
    /\ UNCHANGED <<mode, dispatch, stopSolver, threads, outside, prices, channels, state, counts>>

StopOrderSender ==
    /\ Main("stop sender", "stop orders")
    /\ senderOn' = FALSE
    /\ UNCHANGED <<mode, dispatch, stopSolver, threads, serverOn, accepts, prices, channels,
                   state, counts>>

\* The order in which the threads are stopped, and what comes after them.
NextStop == [orders |-> "stop quotes",
             quotes |-> IF mode = "orders" THEN "stop market" ELSE "stop_solver",
             market |-> IF mode = "orders" THEN "store" ELSE "stop server"]

StopThread(t) ==
    /\ mainAt = CASE t = "orders" -> "stop orders" [] t = "quotes" -> "stop quotes"
                  [] t = "market" -> "stop market"
    /\ \/ /\ threads[t] = "on"
          /\ threads' = [threads EXCEPT ![t] = "stopping"]
          /\ UNCHANGED mainAt
       \/ /\ threads[t] = "stopped"
          /\ mainAt' = NextStop[t]
          /\ UNCHANGED threads
    /\ UNCHANGED <<mode, dispatch, stopSolver, outside, prices, channels, state, counts>>

\* Solver::store, part after part, with nothing that could come between.
StoreState ==
    /\ mainAt = "store" /\ mainAt' = "stop server"
    /\ Store(Parts)
    /\ UNCHANGED <<mode, dispatch, stopSolver, threads, outside, prices, channels, memory,
                   activeBatches, counts>>

StopServer ==
    /\ Main("stop server", "exited")
    /\ serverOn' = FALSE
    /\ UNCHANGED <<mode, dispatch, stopSolver, threads, senderOn, accepts, prices, channels,
                   state, counts>>

-------------------------------------------------------------------------------
(* The threads and what comes from outside.                                   *)

\* An order on an open session: to a thread that no longer reads it is lost.
ClientOrder ==
    /\ serverOn /\ mode = "orders" /\ events < MaxEvents
    /\ events' = events + 1
    /\ ordersIn' = ordersIn + 1
    /\ UNCHANGED <<mode, mainAt, dispatch, stopSolver, threads, outside, prices, fillsIn,
                   solverIn, state, rejected>>

ExchangeReports(kind) ==
    /\ senderOn /\ activeBatches > 0
    /\ events < MaxEvents
    /\ events' = events + 1
    /\ kind = "reject" => rejected < MaxRejects
    /\ rejected' = IF kind = "reject" THEN rejected + 1 ELSE rejected
    /\ fillsIn' = Append(fillsIn, kind)
    /\ UNCHANGED <<mode, mainAt, dispatch, stopSolver, threads, outside, prices, ordersIn,
                   solverIn, state>>

\* Mutant: a thread goes on after stop() has returned.
Running_Detached(t) == threads[t] # "off"

\* The thread's select takes any of its channels that is ready.
Running(t) == threads[t] \in {"on", "stopping"}

BackendOrder ==
    /\ Running("orders") /\ ordersIn > 0
    /\ ordersIn' = ordersIn - 1
    /\ Change({"index orders"})
    /\ Tell("order")
    /\ UNCHANGED <<mode, mainAt, dispatch, stopSolver, threads, outside, prices, fillsIn,
                   disk, activeBatches, counts>>

BackendFill ==
    /\ Running("orders") /\ fillsIn # <<>>
    /\ fillsIn' = Tail(fillsIn)
    /\ Change({"inventory"})
    /\ Tell(Head(fillsIn))
    /\ UNCHANGED <<mode, mainAt, dispatch, stopSolver, threads, outside, prices, ordersIn,
                   disk, activeBatches, counts>>

MarketDataEvent ==
    /\ Running("market") /\ ~prices
    /\ prices' = TRUE
    /\ UNCHANGED <<mode, mainAt, dispatch, stopSolver, threads, outside, channels, state, counts>>

\* What its channels hold is left there.
ThreadStops(t) ==
    /\ threads[t] = "stopping"
    /\ threads' = [threads EXCEPT ![t] = "stopped"]
    /\ UNCHANGED <<mode, mainAt, dispatch, stopSolver, outside, prices, channels, state, counts>>

-------------------------------------------------------------------------------
(* The dispatch loop.                                                         *)

\* stop_solver: the quotes solver leaves, the other begins to shut down.
SolverStops ==
    /\ loop = "select" /\ stopSolver
    /\ stopSolver' = FALSE
    /\ IF mode = "quotes" THEN loop' = "exited" /\ UNCHANGED solverStatus
                          ELSE solverStatus' = "ShuttingDown" /\ UNCHANGED loop
    /\ UNCHANGED <<mode, mainAt, solveStatus, threads, outside, prices, channels, state, counts>>

\* Mutant: a client order that fails shuts the solver down as well.
SolverEvent_Fails(kind) ==
    /\ loop = "select" /\ solverIn[kind] > 0
    /\ solverIn' = [solverIn EXCEPT ![kind] = @ - 1]
    /\ solverStatus' \in IF kind = "fill" THEN {solverStatus} ELSE {"ShuttingDown"}
    /\ UNCHANGED <<mode, mainAt, loop, solveStatus, stopSolver, threads, outside, prices,
                   ordersIn, fillsIn, memory, activeBatches, disk, counts>>

\* A fill may complete a batch. A rejected order shuts the solver down.
SolverEvent(kind) ==
    /\ loop = "select" /\ solverIn[kind] > 0
    /\ solverIn' = [solverIn EXCEPT ![kind] = @ - 1]
    /\ CASE kind = "order" -> Change({"solver"}) /\ UNCHANGED <<activeBatches, solverStatus>>
         [] kind = "fill" -> /\ Change({"batches", "solver"})
                             /\ activeBatches' \in {activeBatches, 0}
                             /\ UNCHANGED solverStatus
         [] kind = "reject" -> /\ solverStatus' = "ShuttingDown"
                               /\ UNCHANGED <<memory, activeBatches>>
    /\ UNCHANGED <<mode, mainAt, loop, solveStatus, stopSolver, threads, outside, prices,
                   ordersIn, fillsIn, disk, counts>>

\* With no event for the length of a tick the loop calls solve.
Tick ==
    /\ loop = "select" /\ ~stopSolver /\ \A k \in EventKinds : solverIn[k] = 0
    /\ loop' = "solve"
    /\ solveStatus' = solverStatus
    /\ UNCHANGED <<mode, mainAt, solverStatus, stopSolver, threads, outside, prices, channels,
                   state, counts>>

\* Solver::solve works on the status it read, and its caller on the one that
\* solve returns.
Solve(status) == /\ loop = "solve" /\ solveStatus = status
                 /\ loop' = "select"
                 /\ UNCHANGED <<mode, mainAt, solveStatus, stopSolver, threads, outside,
                                prices, channels, counts>>

BeginWarmingUp == /\ Solve("Created")
                  /\ solverStatus' = "WarmingUp"
                  /\ UNCHANGED state

\* Mutant: the solver is running whenever all prices are known.
CompleteWarmingUp_Always ==
    /\ loop = "solve" /\ solveStatus \in {"WarmingUp", "ShuttingDown"}
    /\ loop' = "select"
    /\ solverStatus' = IF prices THEN "Running" ELSE solverStatus
    /\ UNCHANGED <<mode, mainAt, solveStatus, stopSolver, threads, outside, prices, channels,
                   state, counts>>

CompleteWarmingUp == /\ Solve("WarmingUp")
                     /\ solverStatus' = IF prices THEN "Running" ELSE solverStatus
                     /\ UNCHANGED state

\* With orders served since the last batch one is engaged, and the index orders
\* and batches are stored, as of then.
SolveRunning ==
    /\ Solve("Running")
    /\ UNCHANGED solverStatus
    /\ \/ UNCHANGED state
       \/ /\ activeBatches = 0 /\ memory["solver"] > memory["batches"]
          /\ activeBatches' = 1
          /\ Change({"index orders", "batches", "solver"})
          /\ disk' = [disk EXCEPT !["index orders"] = memory'["index orders"],
                                  !["batches"] = memory'["batches"]]

\* Mutant: the solver stops when its batches are complete.
CompleteShutdown_Awaits ==
    /\ Solve("ShuttingDown")
    /\ solverStatus' = IF activeBatches = 0 THEN "Stopped" ELSE solverStatus
    /\ UNCHANGED state

\* Batches are processed once more; the solver stops whether or not any is left.
CompleteShutdown == /\ Solve("ShuttingDown")
                    /\ solverStatus' = "Stopped"
                    /\ UNCHANGED state

LoopExits == /\ loop = "solve" /\ solveStatus = "Stopped"
             /\ loop' = "exited"
             /\ UNCHANGED <<mode, mainAt, solverStatus, solveStatus, stopSolver, threads,
                            outside, prices, channels, state, counts>>

LoopStep == \/ SolverStops \/ Tick \/ BeginWarmingUp \/ CompleteWarmingUp
            \/ SolveRunning \/ CompleteShutdown \/ LoopExits
            \/ \E kind \in EventKinds : SolverEvent(kind)

MainStep == \/ RunOrdersBackend \/ RunQuotesBackend \/ RunMarketData \/ RunSolver
            \/ StartServer \/ AwaitMarketData
            \/ StopSolver \/ AwaitSolver \/ StopOrderSender
            \/ \E t \in DOMAIN threads : StopThread(t)
            \/ StoreState \/ StopServer

Next == \/ MainStep \/ CheckSolverStopped \/ InitializeShutdown
        \/ ClientOrder \/ (\E kind \in {"fill", "reject"} : ExchangeReports(kind))
        \/ BackendOrder \/ BackendFill \/ MarketDataEvent
        \/ \E t \in DOMAIN threads : ThreadStops(t)
        \/ LoopStep

Spec == Init /\ [][Next]_vars

\* Every thread goes on. A select that has a stop message takes it in the end,
\* among other events (a channel is chosen at random).
Fairness == /\ WF_vars(MainStep) /\ WF_vars(MarketDataEvent)
            /\ WF_vars(LoopStep) /\ SF_vars(SolverStops)
            /\ \A t \in {"orders", "quotes", "market"} : WF_vars(ThreadStops(t))
FairSpec == Spec /\ Fairness

-------------------------------------------------------------------------------
(* Properties.                                                                *)

(***************************************************************************)
(* A graceful stop that completes leaves on disk what every manager knows: *)
(* whatever comes in while threads are being stopped, nothing changes the  *)
(* managers once the first of them is stored, also not the FIX server,     *)
(* which is stopped last.                                                  *)
(***************************************************************************)
StoredAtStop ==
    mode = "orders" /\ mainAt \in {"stop server", "exited"} => disk = memory

(***************************************************************************)
(* A solver that shuts down does not come back: solve works on a status it *)
(* read before. In mode "orders" only the thread of the loop changes it.   *)
(* (stop_quotes changes it from the main task.)                            *)
(***************************************************************************)
ShutdownSticks ==
    [][mode = "orders" /\ solverStatus \in {"ShuttingDown", "Stopped"} =>
          solverStatus' \in {"ShuttingDown", "Stopped"}]_vars

(***************************************************************************)
(* Once stopping, the application ends, whether batches are left, orders   *)
(* come in or the loop has exited by itself: no thread waits for another   *)
(* that is gone.                                                           *)
(***************************************************************************)
StopEnds == mainAt \in {"stop_solver", "stop quotes"} ~> mainAt \in {"exited", "panicked"}

(***************************************************************************)
(* Main panics, with nothing stored, only when the exchange rejected an    *)
(* order. (Or in mode "quotes", where stop_quotes lets the loop exit       *)
(* before it sends the message that the loop has to receive.)              *)
(***************************************************************************)
PanicExplained == mainAt = "panicked" => rejected > 0 \/ mode = "quotes"

\* The application ends in order, with everything stored, or for a known reason.
StopsInOrder == StoredAtStop /\ PanicExplained

\* The comment on SolverConfig::stop: the solver awaits pending batches before
\* it stops. complete_shutdown stops whatever process_batches returns.
BatchesAwaited == solverStatus = "Stopped" => activeBatches = 0
================================================================================
