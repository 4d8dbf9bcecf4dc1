---------------------------- MODULE FairPartsProofs ----------------------------
(***************************************************************************)
(* What the proofs of the parts say of the application that MCFairParts    *)
(* puts together: the parts share no variable, so that a step of one is a  *)
(* stutter of the others, and each part keeps its own specification. The   *)
(* life cycle, the quotes and the chain connector are proved here, market  *)
(* data in a module of its own.                                            *)
(***************************************************************************)
EXTENDS MCFairParts, SequenceTheorems, CollectionTheorems, TLAPS

-------------------------------------------------------------------------------
(* The life cycle: the inductive invariant, for every number of events and    *)
(* rejected orders, in both modes.                                            *)

Threads == {"orders", "quotes", "market"}

\* What the variables hold.
LifecycleTyped ==
         /\ threads \in [Threads -> {"off", "on", "stopping", "stopped"}]
         /\ fillsIn \in Seq(L!EventKinds)
         /\ solverIn \in [L!EventKinds -> Nat]
         /\ memory \in [L!Parts -> Nat]
         /\ disk \in [L!Parts -> Nat]
         /\ rejected \in Nat

\* In mode "orders" main has waited for the loop before it stops the sender.
AfterLoop == {"stop sender", "stop orders", "stop quotes", "stop market", "store",
              "stop server", "exited"}
LoopGone == /\ mode = "orders" /\ mainAt \in AfterLoop => loop = "exited"
            /\ mainAt \in {"stop sender", "stop orders"} => mode = "orders"

\* And for the orders thread before it stops the next.
AfterOrders == {"stop quotes", "stop market", "store", "stop server", "exited"}
OrdersGone == mode = "orders" /\ mainAt \in AfterOrders => threads["orders"] = "stopped"

\* In mode "orders" nobody changes the status while solve works on it.
StatusRead == mode = "orders" /\ loop = "solve" => solveStatus = solverStatus

\* A rejected order is counted before anybody sees it.
Rejects == rejected = 0 => /\ solverIn["reject"] = 0
                           /\ \A i \in 1 .. Len(fillsIn) : fillsIn[i] # "reject"

\* Main has not yet sent the message that stops the solver.
BeforeStop == \/ mainAt \in {"run_orders_backend", "run_quotes_backend", "run_market_data",
                             "run_solver", "start server", "await prices", "select",
                             "stop_solver"}
              \/ mode # "orders" /\ mainAt = "stop quotes"

\* Until then, and with no order rejected, the solver does not shut down.
Serving == mode # "quotes" /\ rejected = 0 /\ BeforeStop =>
              /\ loop # "exited" /\ stopSolver = FALSE
              /\ solverStatus \notin {"ShuttingDown", "Stopped"}
              /\ loop = "solve" => solveStatus \notin {"ShuttingDown", "Stopped"}

\* The inductive invariant of the life cycle.
LifecycleInv ==
       /\ LifecycleTyped /\ LoopGone /\ OrdersGone /\ StatusRead /\ Rejects /\ Serving
       /\ L!StoredAtStop /\ L!PanicExplained

-------------------------------------------------------------------------------
(* What the helpers do.                                                       *)

\* A change of some managers leaves every count of changes a number (memory).
LEMMA ChangeTyped ==
    ASSUME memory \in [L!Parts -> Nat], NEW ps, L!Change(ps)
    PROVE  memory' \in [L!Parts -> Nat]
<1>1. ASSUME NEW p \in L!Parts
      PROVE  (IF p \in ps THEN memory[p] + 1 ELSE memory[p]) \in Nat
  BY SMT
<1> QED  BY <1>1 DEF L!Change

\* A message to the dispatch loop is one more of its kind, the others stay.
LEMMA TellTyped ==
    ASSUME solverIn \in [L!EventKinds -> Nat], NEW kind \in L!EventKinds, L!Tell(kind)
    PROVE  /\ solverIn' \in [L!EventKinds -> Nat]
           /\ kind # "reject" => solverIn'["reject"] = solverIn["reject"]
  BY DEF L!Tell, L!EventKinds

\* A message that the loop takes is one less of its kind.
LEMMA TakeTyped ==
    ASSUME solverIn \in [L!EventKinds -> Nat], NEW kind \in L!EventKinds, solverIn[kind] > 0,
           solverIn' = [solverIn EXCEPT ![kind] = @ - 1]
    PROVE  /\ solverIn' \in [L!EventKinds -> Nat]
           /\ solverIn["reject"] = 0 => kind # "reject" /\ solverIn'["reject"] = 0
  BY DEF L!EventKinds

\* Reports of the exchange queue up at the end of the fills channel.
LEMMA Queued ==
    ASSUME fillsIn \in Seq(L!EventKinds), NEW kind \in L!EventKinds,
           fillsIn' = Append(fillsIn, kind)
    PROVE  fillsIn' \in Seq(L!EventKinds)
  BY AppendProperties

\* The orders thread takes the first of them, and moves the others up.
LEMMA Dequeued ==
    ASSUME fillsIn \in Seq(L!EventKinds), fillsIn # <<>>, fillsIn' = Tail(fillsIn)
    PROVE  /\ fillsIn' \in Seq(L!EventKinds)
           /\ Head(fillsIn) \in L!EventKinds
           /\ Head(fillsIn) = fillsIn[1]
           /\ 1 \in 1 .. Len(fillsIn)
           /\ \A i \in 1 .. Len(fillsIn') : i + 1 \in 1 .. Len(fillsIn) /\ fillsIn'[i] = fillsIn[i + 1]
  BY HeadTailProperties, LenProperties, EmptySeq, ElementOfSeq

\* All that is stored is all there is: store() leaves out no manager.
LEMMA StoresAll ==
    ASSUME memory \in [L!Parts -> Nat], L!Store(L!Parts)
    PROVE  disk' = memory
  BY DEF L!Store

-------------------------------------------------------------------------------
(* The invariant holds in the initial states.                                 *)

\* Init establishes the invariant: nothing runs yet, and no order is rejected.
LEMMA LifecycleInit == L!Init => LifecycleInv
<1> SUFFICES ASSUME L!Init PROVE LifecycleInv  OBVIOUS
<1>1. LifecycleTyped
  BY EmptySeq DEF L!Init, LifecycleTyped, Threads, L!EventKinds, L!Parts
<1>2. /\ LoopGone /\ OrdersGone /\ StatusRead /\ L!StoredAtStop /\ L!PanicExplained
  BY DEF L!Init, LoopGone, OrdersGone, StatusRead, L!StoredAtStop, L!PanicExplained, AfterLoop,
         AfterOrders
<1>3. Rejects /\ Serving
  BY DEF L!Init, Rejects, Serving, L!EventKinds
<1> QED  BY <1>1, <1>2, <1>3 DEF LifecycleInv

-------------------------------------------------------------------------------
(* Every step keeps it.                                                       *)

\* Main starts the orders thread, with the order sender.
LEMMA RunOrdersBackendStep ==
    ASSUME LifecycleInv, L!RunOrdersBackend
    PROVE  LifecycleInv'
<1> USE DEF LifecycleInv, L!dispatch, L!channels, L!outside, L!state, L!counts
<1>1. LifecycleTyped'
  BY DEF L!RunOrdersBackend, L!Main, L!StartThread, LifecycleTyped, Threads
<1>2. LoopGone' /\ OrdersGone' /\ Serving'
    BY DEF L!RunOrdersBackend, L!Main, L!StartThread, LoopGone, AfterLoop, OrdersGone,
     AfterOrders, LifecycleTyped, Threads, Serving, BeforeStop
<1>3. StatusRead' /\ Rejects' /\ L!StoredAtStop' /\ L!PanicExplained'
  BY DEF L!RunOrdersBackend, L!Main, L!StartThread, StatusRead, Rejects, L!StoredAtStop,
         L!PanicExplained
<1> QED  BY <1>1, <1>2, <1>3

\* Main starts the quotes thread.
LEMMA RunQuotesBackendStep ==
    ASSUME LifecycleInv, L!RunQuotesBackend
    PROVE  LifecycleInv'
<1> USE DEF LifecycleInv, L!dispatch, L!channels, L!outside, L!state, L!counts
<1>1. LifecycleTyped'
  BY DEF L!RunQuotesBackend, L!Main, L!StartThread, LifecycleTyped, Threads
<1>2. LoopGone' /\ OrdersGone' /\ Serving'
    BY DEF L!RunQuotesBackend, L!Main, L!StartThread, LoopGone, AfterLoop, OrdersGone,
     AfterOrders, LifecycleTyped, Threads, Serving, BeforeStop
<1>3. StatusRead' /\ Rejects' /\ L!StoredAtStop' /\ L!PanicExplained'
  BY DEF L!RunQuotesBackend, L!Main, L!StartThread, StatusRead, Rejects, L!StoredAtStop,
         L!PanicExplained
<1> QED  BY <1>1, <1>2, <1>3

\* Main starts the thread of the market data.
LEMMA RunMarketDataStep ==
    ASSUME LifecycleInv, L!RunMarketData
    PROVE  LifecycleInv'
<1> USE DEF LifecycleInv, L!dispatch, L!channels, L!outside, L!state, L!counts
<1>1. LifecycleTyped'
  BY DEF L!RunMarketData, L!Main, L!StartThread, LifecycleTyped, Threads
<1>2. LoopGone' /\ OrdersGone' /\ Serving'
    BY DEF L!RunMarketData, L!Main, L!StartThread, LoopGone, AfterLoop, OrdersGone, AfterOrders,
     LifecycleTyped, Threads, Serving, BeforeStop
<1>3. StatusRead' /\ Rejects' /\ L!StoredAtStop' /\ L!PanicExplained'
  BY DEF L!RunMarketData, L!Main, L!StartThread, StatusRead, Rejects, L!StoredAtStop,
         L!PanicExplained
<1> QED  BY <1>1, <1>2, <1>3

\* Main starts the dispatch loop, long before anything is stopped.
LEMMA RunSolverStep ==
    ASSUME LifecycleInv, L!RunSolver
    PROVE  LifecycleInv'
<1> USE DEF LifecycleInv, L!dispatch, L!channels, L!outside, L!state, L!counts
<1>1. LoopGone' /\ OrdersGone' /\ Serving'
    BY DEF L!RunSolver, L!Main, LoopGone, AfterLoop, OrdersGone, AfterOrders, LifecycleTyped,
           Threads,
     Serving, BeforeStop
<1>2. L!StoredAtStop'
  BY DEF L!RunSolver, L!Main, L!StoredAtStop
<1>3. L!PanicExplained'
  BY DEF L!RunSolver, L!Main, L!PanicExplained
<1>4. LifecycleTyped' /\ StatusRead' /\ Rejects'
  BY DEF L!RunSolver, L!Main, LifecycleTyped, Threads, StatusRead, Rejects
<1> QED  BY <1>1, <1>2, <1>3, <1>4

\* The FIX server opens.
LEMMA StartServerStep ==
    ASSUME LifecycleInv, L!StartServer
    PROVE  LifecycleInv'
<1> USE DEF LifecycleInv, L!dispatch, L!channels, L!outside, L!state, L!counts
<1>1. LoopGone' /\ OrdersGone' /\ Serving'
    BY DEF L!StartServer, L!Main, LoopGone, AfterLoop, OrdersGone, AfterOrders, LifecycleTyped,
           Threads,
     Serving, BeforeStop
<1>2. L!StoredAtStop'
  BY DEF L!StartServer, L!Main, L!StoredAtStop
<1>3. L!PanicExplained'
  BY DEF L!StartServer, L!Main, L!PanicExplained
<1>4. LifecycleTyped' /\ StatusRead' /\ Rejects'
  BY DEF L!StartServer, L!Main, LifecycleTyped, Threads, StatusRead, Rejects
<1> QED  BY <1>1, <1>2, <1>3, <1>4

\* Main waits for a price of every asset, before any signal.
LEMMA AwaitMarketDataStep ==
    ASSUME LifecycleInv, L!AwaitMarketData
    PROVE  LifecycleInv'
<1> USE DEF LifecycleInv, L!dispatch, L!channels, L!outside, L!state, L!counts
<1>1. LoopGone' /\ OrdersGone' /\ Serving'
    BY DEF L!AwaitMarketData, L!Main, LoopGone, AfterLoop, OrdersGone, AfterOrders, LifecycleTyped,
     Threads, Serving, BeforeStop
<1>2. L!StoredAtStop'
  BY DEF L!AwaitMarketData, L!Main, L!StoredAtStop
<1>3. L!PanicExplained'
  BY DEF L!AwaitMarketData, L!Main, L!PanicExplained
<1>4. LifecycleTyped' /\ StatusRead' /\ Rejects'
  BY DEF L!AwaitMarketData, L!Main, LifecycleTyped, Threads, StatusRead, Rejects
<1> QED  BY <1>1, <1>2, <1>3, <1>4

\* Main finds the loop gone by itself, and panics: an order was rejected.
LEMMA CheckSolverStoppedStep ==
    ASSUME LifecycleInv, L!CheckSolverStopped
    PROVE  LifecycleInv'
<1> USE DEF LifecycleInv, L!dispatch, L!channels, L!outside, L!state, L!counts
<1>1. LoopGone' /\ OrdersGone' /\ Serving'
    BY DEF L!CheckSolverStopped, L!Main, LoopGone, AfterLoop, OrdersGone, AfterOrders,
           LifecycleTyped,
     Threads, Serving, BeforeStop
<1>2. L!StoredAtStop'
  BY DEF L!CheckSolverStopped, L!Main, L!StoredAtStop
<1>3. L!PanicExplained'
  <2>1. UNCHANGED <<mode, rejected>> /\ rejected \in Nat
    BY DEF L!CheckSolverStopped, LifecycleTyped
  <2>2. mainAt' = "panicked" => loop = "exited" /\ mainAt \in {"select", "stop_solver"}
    BY DEF L!CheckSolverStopped, L!Main
  <2>3. loop = "exited" /\ mainAt \in {"select", "stop_solver"} => rejected # 0 \/ mode = "quotes"
    BY DEF Serving, BeforeStop
  <2> QED  BY <2>1, <2>2, <2>3 DEF L!PanicExplained
<1>4. LifecycleTyped' /\ StatusRead' /\ Rejects'
  BY DEF L!CheckSolverStopped, L!Main, LifecycleTyped, Threads, StatusRead, Rejects
<1> QED  BY <1>1, <1>2, <1>3, <1>4

\* A signal: in mode quotes main sets the status, in mode orders the loop will.
LEMMA InitializeShutdownStep ==
    ASSUME LifecycleInv, L!InitializeShutdown
    PROVE  LifecycleInv'
<1> USE DEF LifecycleInv, L!dispatch, L!channels, L!outside, L!state, L!counts
<1>1. LoopGone' /\ OrdersGone' /\ Serving'
    BY DEF L!InitializeShutdown, L!Main, LoopGone, AfterLoop, OrdersGone, AfterOrders,
           LifecycleTyped,
     Threads, Serving, BeforeStop
<1>2. L!StoredAtStop'
  BY DEF L!InitializeShutdown, L!Main, L!StoredAtStop
<1>3. L!PanicExplained'
  BY DEF L!InitializeShutdown, L!Main, L!PanicExplained
<1>4. LifecycleTyped' /\ StatusRead' /\ Rejects'
  BY DEF L!InitializeShutdown, L!Main, LifecycleTyped, Threads, StatusRead, Rejects
<1> QED  BY <1>1, <1>2, <1>3, <1>4

\* The message that stops the solver, to a loop that may be gone.
LEMMA StopSolverStep ==
    ASSUME LifecycleInv, L!StopSolver
    PROVE  LifecycleInv'
<1> USE DEF LifecycleInv, L!dispatch, L!channels, L!outside, L!state, L!counts
<1>1. LoopGone' /\ OrdersGone' /\ Serving'
    BY DEF L!StopSolver, L!Main, LoopGone, AfterLoop, OrdersGone, AfterOrders, LifecycleTyped,
           Threads,
     Serving, BeforeStop
<1>2. L!StoredAtStop'
  BY DEF L!StopSolver, L!Main, L!StoredAtStop
<1>3. L!PanicExplained'
  <2>1. UNCHANGED <<mode, rejected>> /\ rejected \in Nat
    BY DEF L!StopSolver, LifecycleTyped
  <2>2. mainAt' = "panicked" => loop = "exited" /\ mainAt \in {"select", "stop_solver"}
    BY DEF L!StopSolver, L!Main
  <2>3. loop = "exited" /\ mainAt \in {"select", "stop_solver"} => rejected # 0 \/ mode = "quotes"
    BY DEF Serving, BeforeStop
  <2> QED  BY <2>1, <2>2, <2>3 DEF L!PanicExplained
<1>4. LifecycleTyped' /\ StatusRead' /\ Rejects'
  BY DEF L!StopSolver, L!Main, LifecycleTyped, Threads, StatusRead, Rejects
<1> QED  BY <1>1, <1>2, <1>3, <1>4

\* Main goes on when the loop is gone: from here on no event is handled.
LEMMA AwaitSolverStep ==
    ASSUME LifecycleInv, L!AwaitSolver
    PROVE  LifecycleInv'
<1> USE DEF LifecycleInv, L!dispatch, L!channels, L!outside, L!state, L!counts
<1>1. LoopGone' /\ OrdersGone' /\ Serving'
    BY DEF L!AwaitSolver, L!Main, LoopGone, AfterLoop, OrdersGone, AfterOrders, LifecycleTyped,
           Threads,
     Serving, BeforeStop
<1>2. L!StoredAtStop'
  BY DEF L!AwaitSolver, L!Main, L!StoredAtStop
<1>3. L!PanicExplained'
  BY DEF L!AwaitSolver, L!Main, L!PanicExplained
<1>4. LifecycleTyped' /\ StatusRead' /\ Rejects'
  BY DEF L!AwaitSolver, L!Main, LifecycleTyped, Threads, StatusRead, Rejects
<1> QED  BY <1>1, <1>2, <1>3, <1>4

\* The sender stops, after the loop and before the orders thread.
LEMMA StopOrderSenderStep ==
    ASSUME LifecycleInv, L!StopOrderSender
    PROVE  LifecycleInv'
<1> USE DEF LifecycleInv, L!dispatch, L!channels, L!outside, L!state, L!counts
<1>1. LoopGone' /\ OrdersGone' /\ Serving'
    BY DEF L!StopOrderSender, L!Main, LoopGone, AfterLoop, OrdersGone, AfterOrders, LifecycleTyped,
     Threads, Serving, BeforeStop
<1>2. L!StoredAtStop'
  BY DEF L!StopOrderSender, L!Main, L!StoredAtStop
<1>3. L!PanicExplained'
  BY DEF L!StopOrderSender, L!Main, L!PanicExplained
<1>4. LifecycleTyped' /\ StatusRead' /\ Rejects'
  BY DEF L!StopOrderSender, L!Main, LifecycleTyped, Threads, StatusRead, Rejects
<1> QED  BY <1>1, <1>2, <1>3, <1>4

\* The FIX server stops last: its sessions could still send orders, to nobody.
LEMMA StopServerStep ==
    ASSUME LifecycleInv, L!StopServer
    PROVE  LifecycleInv'
<1> USE DEF LifecycleInv, L!dispatch, L!channels, L!outside, L!state, L!counts
<1>1. LoopGone' /\ OrdersGone' /\ Serving'
    BY DEF L!StopServer, L!Main, LoopGone, AfterLoop, OrdersGone, AfterOrders, LifecycleTyped,
           Threads,
     Serving, BeforeStop
<1>2. L!StoredAtStop'
  BY DEF L!StopServer, L!Main, L!StoredAtStop
<1>3. L!PanicExplained'
  BY DEF L!StopServer, L!Main, L!PanicExplained
<1>4. LifecycleTyped' /\ StatusRead' /\ Rejects'
  BY DEF L!StopServer, L!Main, LifecycleTyped, Threads, StatusRead, Rejects
<1> QED  BY <1>1, <1>2, <1>3, <1>4

\* Main tells a thread to stop, and goes on when it has stopped.
LEMMA StopThreadStep ==
    ASSUME LifecycleInv, NEW t \in Threads, L!StopThread(t)
    PROVE  LifecycleInv'
<1> USE DEF LifecycleInv, L!dispatch, L!channels, L!outside, L!state, L!counts
<1>1. LifecycleTyped'
  BY DEF L!StopThread, LifecycleTyped, Threads
<1>2. LoopGone'
  <2>1. \/ mainAt' = mainAt
        \/ mainAt \in {"stop orders", "stop quotes", "stop market"} /\ mainAt' = L!NextStop[t]
    BY DEF L!StopThread, Threads
  <2>2. L!NextStop[t] \notin {"stop sender", "stop orders"}
    <3>1. CASE t = "orders"  BY <3>1 DEF L!NextStop
    <3>2. CASE t = "quotes"  BY <3>2 DEF L!NextStop
    <3>3. CASE t = "market"  BY <3>3 DEF L!NextStop
    <3> QED  BY <3>1, <3>2, <3>3 DEF Threads
  <2>3. UNCHANGED <<mode, loop>>  BY DEF L!StopThread
  <2> QED  BY <2>1, <2>2, <2>3 DEF LoopGone, AfterLoop
<1>3. OrdersGone' /\ Serving' /\ L!StoredAtStop' /\ L!PanicExplained'
  <2>1. CASE threads[t] = "on" /\ threads' = [threads EXCEPT ![t] = "stopping"] /\ mainAt' = mainAt
    <3>1. mode = "orders" /\ mainAt \in AfterOrders => t # "orders" /\ threads'["orders"] = threads["orders"]
      BY <2>1 DEF LifecycleTyped, Threads, OrdersGone
    <3>2. UNCHANGED <<mode, mainAt, loop, stopSolver, solverStatus, solveStatus, rejected,
                      memory, disk>>
      BY <2>1 DEF L!StopThread
    <3>3. OrdersGone'  BY <3>1, <3>2 DEF OrdersGone, AfterOrders
    <3> QED  BY <3>2, <3>3 DEF Serving, BeforeStop, L!StoredAtStop, L!PanicExplained
  <2>2. CASE threads[t] = "stopped" /\ mainAt' = L!NextStop[t] /\ threads' = threads
    <3>1. UNCHANGED <<mode, loop, stopSolver, solverStatus, solveStatus, rejected, memory, disk>>
      BY DEF L!StopThread
    <3>2. CASE t = "orders"
      <4>1. mainAt' = "stop quotes" /\ mainAt = "stop orders"
        BY <2>2, <3>2 DEF L!NextStop, L!StopThread
      <4>2. OrdersGone'
        BY <2>2, <3>2 DEF OrdersGone
      <4>3. Serving'
        BY <3>1, <4>1 DEF Serving, BeforeStop, LoopGone
      <4>4. L!StoredAtStop' /\ L!PanicExplained'
        BY <3>1, <4>1 DEF L!StoredAtStop, L!PanicExplained
      <4> QED  BY <4>2, <4>3, <4>4
    <3>3. CASE t = "quotes"
      <4>1. /\ mainAt = "stop quotes"
            /\ mainAt' = IF mode = "orders" THEN "stop market" ELSE "stop_solver"
        BY <2>2, <3>3 DEF L!NextStop, L!StopThread
      <4>2. OrdersGone' /\ L!StoredAtStop' /\ L!PanicExplained'
        BY <2>2, <3>1, <4>1 DEF OrdersGone, AfterOrders, L!StoredAtStop, L!PanicExplained
      <4>3. Serving'
        BY <3>1, <4>1 DEF Serving, BeforeStop
      <4> QED  BY <4>2, <4>3
    <3>4. CASE t = "market"
      <4>1. /\ mainAt = "stop market"
            /\ mainAt' = IF mode = "orders" THEN "store" ELSE "stop server"
        BY <2>2, <3>4 DEF L!NextStop, L!StopThread
      <4>2. OrdersGone' /\ Serving'
        BY <2>2, <3>1, <4>1 DEF OrdersGone, AfterOrders, Serving, BeforeStop
      <4>3. L!StoredAtStop' /\ L!PanicExplained'
        BY <3>1, <4>1 DEF L!StoredAtStop, L!PanicExplained
      <4> QED  BY <4>2, <4>3
    <3> QED  BY <3>2, <3>3, <3>4 DEF Threads
  <2> QED  BY <2>1, <2>2 DEF L!StopThread
<1>4. StatusRead' /\ Rejects'
  BY DEF L!StopThread, StatusRead, Rejects
<1> QED  BY <1>1, <1>2, <1>3, <1>4

\* All managers are stored.
LEMMA StoreStateStep ==
    ASSUME LifecycleInv, L!StoreState
    PROVE  LifecycleInv'
<1> USE DEF LifecycleInv, L!dispatch, L!channels, L!outside, L!state, L!counts
<1>1. LifecycleTyped'
  BY StoresAll DEF L!StoreState, LifecycleTyped, Threads
<1>2. LoopGone' /\ OrdersGone' /\ Serving'
    BY DEF L!StoreState, LoopGone, AfterLoop, OrdersGone, AfterOrders, LifecycleTyped, Threads,
     Serving, BeforeStop
<1>3. L!StoredAtStop' /\ L!PanicExplained'
  BY StoresAll DEF L!StoreState, L!StoredAtStop, L!PanicExplained, LifecycleTyped
<1>4. StatusRead' /\ Rejects'
  BY DEF L!StoreState, StatusRead, Rejects
<1> QED  BY <1>1, <1>2, <1>3, <1>4

\* An order arrives, at a thread that may be gone.
LEMMA ClientOrderStep ==
    ASSUME LifecycleInv, L!ClientOrder
    PROVE  LifecycleInv'
<1> USE DEF LifecycleInv, L!dispatch, L!channels, L!outside, L!state, L!counts
<1>1. Serving'
  BY DEF L!ClientOrder, Serving, BeforeStop, StatusRead
<1>2. LifecycleTyped' /\ LoopGone' /\ OrdersGone' /\ StatusRead' /\ Rejects' /\ L!StoredAtStop' /\
      L!PanicExplained'
    BY DEF L!ClientOrder, LifecycleTyped, Threads, LoopGone, AfterLoop, OrdersGone, AfterOrders,
     StatusRead, Rejects, L!StoredAtStop, L!PanicExplained
<1> QED  BY <1>1, <1>2

\* The last price arrives.
LEMMA MarketDataEventStep ==
    ASSUME LifecycleInv, L!MarketDataEvent
    PROVE  LifecycleInv'
<1> USE DEF LifecycleInv, L!dispatch, L!channels, L!outside, L!state, L!counts
<1>1. Serving'
  BY DEF L!MarketDataEvent, Serving, BeforeStop, StatusRead
<1>2. LifecycleTyped' /\ LoopGone' /\ OrdersGone' /\ StatusRead' /\ Rejects' /\ L!StoredAtStop' /\
      L!PanicExplained'
    BY DEF L!MarketDataEvent, LifecycleTyped, Threads, LoopGone, AfterLoop, OrdersGone, AfterOrders,
     StatusRead, Rejects, L!StoredAtStop, L!PanicExplained
<1> QED  BY <1>1, <1>2

\* The loop takes the message that stops it.
LEMMA SolverStopsStep ==
    ASSUME LifecycleInv, L!SolverStops
    PROVE  LifecycleInv'
<1> USE DEF LifecycleInv, L!dispatch, L!channels, L!outside, L!state, L!counts
<1>1. Serving'
  BY DEF L!SolverStops, Serving, BeforeStop, StatusRead
<1>2. LifecycleTyped' /\ LoopGone' /\ OrdersGone' /\ StatusRead' /\ Rejects' /\ L!StoredAtStop' /\
      L!PanicExplained'
    BY DEF L!SolverStops, LifecycleTyped, Threads, LoopGone, AfterLoop, OrdersGone, AfterOrders,
     StatusRead, Rejects, L!StoredAtStop, L!PanicExplained
<1> QED  BY <1>1, <1>2

\* The loop calls solve, which reads the status.
LEMMA TickStep ==
    ASSUME LifecycleInv, L!Tick
    PROVE  LifecycleInv'
<1> USE DEF LifecycleInv, L!dispatch, L!channels, L!outside, L!state, L!counts
<1>1. Serving'
  BY DEF L!Tick, Serving, BeforeStop, StatusRead
<1>2. LifecycleTyped' /\ LoopGone' /\ OrdersGone' /\ StatusRead' /\ Rejects' /\ L!StoredAtStop' /\
      L!PanicExplained'
    BY DEF L!Tick, LifecycleTyped, Threads, LoopGone, AfterLoop, OrdersGone, AfterOrders,
           StatusRead,
     Rejects, L!StoredAtStop, L!PanicExplained
<1> QED  BY <1>1, <1>2

\* solve() of a new solver.
LEMMA BeginWarmingUpStep ==
    ASSUME LifecycleInv, L!BeginWarmingUp
    PROVE  LifecycleInv'
<1> USE DEF LifecycleInv, L!dispatch, L!channels, L!outside, L!state, L!counts
<1>1. Serving'
  BY DEF L!BeginWarmingUp, L!Solve, Serving, BeforeStop, StatusRead
<1>2. LifecycleTyped' /\ LoopGone' /\ OrdersGone' /\ StatusRead' /\ Rejects' /\ L!StoredAtStop' /\
      L!PanicExplained'
    BY DEF L!BeginWarmingUp, L!Solve, LifecycleTyped, Threads, LoopGone, AfterLoop, OrdersGone,
     AfterOrders, StatusRead, Rejects, L!StoredAtStop, L!PanicExplained
<1> QED  BY <1>1, <1>2

\* solve() while prices are missing, on the status it read.
LEMMA CompleteWarmingUpStep ==
    ASSUME LifecycleInv, L!CompleteWarmingUp
    PROVE  LifecycleInv'
<1> USE DEF LifecycleInv, L!dispatch, L!channels, L!outside, L!state, L!counts
<1>1. Serving'
  BY DEF L!CompleteWarmingUp, L!Solve, Serving, BeforeStop, StatusRead
<1>2. LifecycleTyped' /\ LoopGone' /\ OrdersGone' /\ StatusRead' /\ Rejects' /\ L!StoredAtStop' /\
      L!PanicExplained'
    BY DEF L!CompleteWarmingUp, L!Solve, LifecycleTyped, Threads, LoopGone, AfterLoop, OrdersGone,
     AfterOrders, StatusRead, Rejects, L!StoredAtStop, L!PanicExplained
<1> QED  BY <1>1, <1>2

\* solve() of a solver that shuts down.
LEMMA CompleteShutdownStep ==
    ASSUME LifecycleInv, L!CompleteShutdown
    PROVE  LifecycleInv'
<1> USE DEF LifecycleInv, L!dispatch, L!channels, L!outside, L!state, L!counts
<1>1. Serving'
  BY DEF L!CompleteShutdown, L!Solve, Serving, BeforeStop, StatusRead
<1>2. LifecycleTyped' /\ LoopGone' /\ OrdersGone' /\ StatusRead' /\ Rejects' /\ L!StoredAtStop' /\
      L!PanicExplained'
    BY DEF L!CompleteShutdown, L!Solve, LifecycleTyped, Threads, LoopGone, AfterLoop, OrdersGone,
     AfterOrders, StatusRead, Rejects, L!StoredAtStop, L!PanicExplained
<1> QED  BY <1>1, <1>2

\* solve() found the solver stopped.
LEMMA LoopExitsStep ==
    ASSUME LifecycleInv, L!LoopExits
    PROVE  LifecycleInv'
<1> USE DEF LifecycleInv, L!dispatch, L!channels, L!outside, L!state, L!counts
<1>1. Serving'
  BY DEF L!LoopExits, Serving, BeforeStop, StatusRead
<1>2. LifecycleTyped' /\ LoopGone' /\ OrdersGone' /\ StatusRead' /\ Rejects' /\ L!StoredAtStop' /\
      L!PanicExplained'
    BY DEF L!LoopExits, LifecycleTyped, Threads, LoopGone, AfterLoop, OrdersGone, AfterOrders,
     StatusRead, Rejects, L!StoredAtStop, L!PanicExplained
<1> QED  BY <1>1, <1>2

\* The exchange reports a fill, or rejects an order, which is counted.
LEMMA ExchangeReportsStep ==
    ASSUME LifecycleInv, NEW kind \in {"fill", "reject"}, L!ExchangeReports(kind)
    PROVE  LifecycleInv'
<1> USE DEF LifecycleInv, L!dispatch, L!channels, L!outside, L!state, L!counts
<1>1. LifecycleTyped'
  BY Queued DEF L!ExchangeReports, LifecycleTyped, Threads, L!EventKinds
<1>2. Rejects'
  <2>1. CASE kind = "reject"
    <3>1. rejected' = rejected + 1 /\ rejected \in Nat  BY <2>1 DEF L!ExchangeReports,
                                                               LifecycleTyped
    <3> QED  BY <3>1 DEF Rejects
  <2>2. CASE kind = "fill"
    <3>1. fillsIn' = Append(fillsIn, kind) /\ fillsIn \in Seq(L!EventKinds)
      BY DEF L!ExchangeReports, LifecycleTyped
    <3>2. \A i \in 1 .. Len(fillsIn') : \/ i \in 1 .. Len(fillsIn) /\ fillsIn'[i] = fillsIn[i]
                                        \/ fillsIn'[i] = kind
      BY <3>1, AppendProperties, LenProperties
    <3>3. solverIn' = solverIn /\ rejected' = rejected
      BY <2>2 DEF L!ExchangeReports
    <3> QED  BY <2>2, <3>2, <3>3 DEF Rejects
  <2> QED  BY <2>1, <2>2
<1>3. StatusRead' /\ LoopGone' /\ OrdersGone'
    BY DEF L!ExchangeReports, StatusRead, LoopGone, AfterLoop, OrdersGone, AfterOrders,
           LifecycleTyped,
     Threads
<1>4. Serving' /\ L!PanicExplained'
  <2>1. rejected \in Nat /\ (rejected' = rejected \/ rejected' = rejected + 1)
    BY DEF L!ExchangeReports, LifecycleTyped
  <2>2. UNCHANGED <<mode, mainAt, loop, stopSolver, solverStatus, solveStatus>>
    BY DEF L!ExchangeReports
  <2>3. Serving'
    <3>1. rejected' = 0 => rejected = 0  BY <2>1
    <3>2. BeforeStop' = BeforeStop  BY <2>2 DEF BeforeStop
    <3> QED  BY <2>2, <3>1, <3>2 DEF Serving
  <2>4. L!PanicExplained'
    BY <2>1, <2>2 DEF L!PanicExplained
  <2> QED  BY <2>3, <2>4
<1>5. L!StoredAtStop'
  BY DEF L!ExchangeReports, L!StoredAtStop
<1> QED  BY <1>1, <1>2, <1>3, <1>4, <1>5

\* The orders thread passes an order on: never once the state is stored.
LEMMA BackendOrderStep ==
    ASSUME LifecycleInv, L!BackendOrder
    PROVE  LifecycleInv'
<1> USE DEF LifecycleInv, L!dispatch, L!channels, L!outside, L!state, L!counts
<1>1. LifecycleTyped'
  BY ChangeTyped, TellTyped DEF L!BackendOrder, LifecycleTyped, Threads, L!EventKinds
<1>2. Rejects'
  BY TellTyped DEF L!BackendOrder, Rejects, LifecycleTyped, L!EventKinds
<1>3. L!StoredAtStop'
  BY DEF L!BackendOrder, L!StoredAtStop, L!Running, OrdersGone, AfterOrders, LifecycleTyped
<1>4. LoopGone' /\ OrdersGone' /\ StatusRead' /\ Serving' /\ L!PanicExplained'
    BY DEF L!BackendOrder, LoopGone, AfterLoop, OrdersGone, AfterOrders, LifecycleTyped, Threads,
     StatusRead, Serving, BeforeStop, L!PanicExplained
<1> QED  BY <1>1, <1>2, <1>3, <1>4

\* The orders thread passes a report on: never once the state is stored.
LEMMA BackendFillStep ==
    ASSUME LifecycleInv, L!BackendFill
    PROVE  LifecycleInv'
<1> USE DEF LifecycleInv, L!dispatch, L!channels, L!outside, L!state, L!counts
<1>1. LifecycleTyped'
  BY ChangeTyped, Dequeued, TellTyped DEF L!BackendFill, LifecycleTyped, Threads
<1>2. Rejects'
  <2>1. /\ fillsIn \in Seq(L!EventKinds) /\ fillsIn # <<>> /\ fillsIn' = Tail(fillsIn)
        /\ solverIn \in [L!EventKinds -> Nat] /\ L!Tell(Head(fillsIn)) /\ rejected' = rejected
    BY DEF L!BackendFill, LifecycleTyped
  <2> SUFFICES ASSUME rejected = 0
               PROVE  solverIn'["reject"] = 0 /\ \A i \in 1 .. Len(fillsIn') : fillsIn'[i] # "reject"
    BY <2>1 DEF Rejects
  <2>2. Head(fillsIn) # "reject" /\ \A i \in 1 .. Len(fillsIn') : fillsIn'[i] # "reject"
    BY <2>1, Dequeued DEF Rejects
  <2> QED  BY <2>1, <2>2, Dequeued, TellTyped DEF Rejects
<1>3. L!StoredAtStop'
  BY DEF L!BackendFill, L!StoredAtStop, L!Running, OrdersGone, AfterOrders, LifecycleTyped
<1>4. LoopGone' /\ OrdersGone' /\ StatusRead' /\ Serving' /\ L!PanicExplained'
    BY DEF L!BackendFill, LoopGone, AfterLoop, OrdersGone, AfterOrders, LifecycleTyped, Threads,
     StatusRead, Serving, BeforeStop, L!PanicExplained
<1> QED  BY <1>1, <1>2, <1>3, <1>4

\* A thread stops, and stays so.
LEMMA ThreadStopsStep ==
    ASSUME LifecycleInv, NEW t \in Threads, L!ThreadStops(t)
    PROVE  LifecycleInv'
<1> USE DEF LifecycleInv, L!dispatch, L!channels, L!outside, L!state, L!counts
<1>1. LifecycleTyped'
  BY DEF L!ThreadStops, LifecycleTyped, Threads
<1>2. OrdersGone'
  BY DEF L!ThreadStops, OrdersGone, AfterOrders, LifecycleTyped, Threads
<1>3. LoopGone' /\ StatusRead' /\ Rejects' /\ Serving' /\ L!StoredAtStop' /\ L!PanicExplained'
    BY DEF L!ThreadStops, LoopGone, AfterLoop, StatusRead, Rejects, Serving, BeforeStop,
     L!StoredAtStop, L!PanicExplained
<1> QED  BY <1>1, <1>2, <1>3

\* solve() engages and stores a batch: never once the state is stored at the stop.
LEMMA SolveRunningStep ==
    ASSUME LifecycleInv, L!SolveRunning
    PROVE  LifecycleInv'
<1> USE DEF LifecycleInv, L!dispatch, L!channels, L!outside, L!state, L!counts
<1>1. LifecycleTyped'
  <2>1. CASE UNCHANGED L!state
    BY <2>1 DEF L!SolveRunning, L!Solve, LifecycleTyped
  <2>2. CASE /\ L!Change({"index orders", "batches", "solver"})
             /\ disk' = [disk EXCEPT !["index orders"] = memory'["index orders"],
                                     !["batches"] = memory'["batches"]]
    <3>1. memory' \in [L!Parts -> Nat]  BY <2>2, ChangeTyped DEF LifecycleTyped
    <3>2. disk' \in [L!Parts -> Nat]  BY <2>2, <3>1 DEF LifecycleTyped, L!Parts
    <3> QED  BY <3>1, <3>2 DEF LifecycleTyped, L!SolveRunning, L!Solve
  <2> QED  BY <2>1, <2>2 DEF L!SolveRunning
<1>2. Serving'
  BY DEF L!SolveRunning, L!Solve, Serving, BeforeStop, StatusRead
<1>3. L!StoredAtStop'
  BY DEF L!SolveRunning, L!Solve, L!StoredAtStop, LoopGone, AfterLoop
<1>4. LoopGone' /\ OrdersGone' /\ StatusRead' /\ Rejects' /\ L!PanicExplained'
    BY DEF L!SolveRunning, L!Solve, LoopGone, AfterLoop, OrdersGone, AfterOrders, LifecycleTyped,
     Threads, StatusRead, Rejects, L!PanicExplained
<1> QED  BY <1>1, <1>2, <1>3, <1>4

\* The loop handles an event: a reject, which was counted, shuts the solver down.
LEMMA SolverEventStep ==
    ASSUME LifecycleInv, NEW kind \in L!EventKinds, L!SolverEvent(kind)
    PROVE  LifecycleInv'
<1> USE DEF LifecycleInv, L!dispatch, L!channels, L!outside, L!state, L!counts
<1>1. LifecycleTyped' /\ Rejects'
  <2>1. solverIn \in [L!EventKinds -> Nat] /\ memory \in [L!Parts -> Nat]  BY DEF LifecycleTyped
  <2>2. solverIn[kind] > 0 /\ solverIn' = [solverIn EXCEPT ![kind] = @ - 1]  BY DEF L!SolverEvent
  <2>3. memory' \in [L!Parts -> Nat]
    <3>1. kind \in {"order", "fill", "reject"}  BY DEF L!EventKinds
    <3>2. CASE kind = "order"  BY <3>2, <2>1, ChangeTyped DEF L!SolverEvent
    <3>3. CASE kind = "fill"  BY <3>3, <2>1, ChangeTyped DEF L!SolverEvent
    <3>4. CASE kind = "reject"  BY <3>4, <2>1 DEF L!SolverEvent
    <3> QED  BY <3>1, <3>2, <3>3, <3>4
  <2>4. UNCHANGED <<threads, fillsIn, disk, rejected>>  BY DEF L!SolverEvent
  <2> QED  BY <2>1, <2>2, <2>3, <2>4, TakeTyped DEF LifecycleTyped, Rejects
<1>2. Serving'
  <2>1. rejected = 0 => kind # "reject"
    <3>1. rejected = 0 => solverIn["reject"] = 0  BY DEF Rejects
    <3>2. solverIn[kind] > 0  BY DEF L!SolverEvent
    <3> QED  BY <3>1, <3>2
  <2>2. UNCHANGED <<mode, mainAt, rejected, stopSolver, loop, solveStatus>>  BY DEF L!SolverEvent
  <2>3. kind # "reject" => solverStatus' = solverStatus  BY DEF L!SolverEvent, L!EventKinds
  <2> QED  BY <2>1, <2>2, <2>3 DEF Serving, BeforeStop
<1>3. LoopGone' /\ OrdersGone' /\ StatusRead' /\ L!PanicExplained'
    BY DEF L!SolverEvent, LoopGone, AfterLoop, OrdersGone, AfterOrders, LifecycleTyped, Threads,
     StatusRead, L!PanicExplained
<1>4. L!StoredAtStop'
  BY DEF L!SolverEvent, L!StoredAtStop, LoopGone, AfterLoop
<1> QED  BY <1>1, <1>2, <1>3, <1>4

\* Every step of main, of a thread or from outside keeps the invariant.
LEMMA LifecycleStep == LifecycleInv /\ [L!Next]_(L!vars) => LifecycleInv'
<1> SUFFICES ASSUME LifecycleInv, [L!Next]_(L!vars) PROVE LifecycleInv'  OBVIOUS
<1>1. CASE UNCHANGED L!vars
  BY <1>1 DEF L!vars, LifecycleInv, LifecycleTyped, LoopGone, OrdersGone, StatusRead, Rejects,
         Serving, BeforeStop,
              L!StoredAtStop, L!PanicExplained
<1>2. CASE L!MainStep
  <2>1. DOMAIN threads = Threads  BY DEF LifecycleInv, LifecycleTyped
  <2> QED  BY <1>2, <2>1, RunOrdersBackendStep, RunQuotesBackendStep, RunMarketDataStep,
              RunSolverStep, StartServerStep, AwaitMarketDataStep, StopSolverStep,
              AwaitSolverStep, StopOrderSenderStep, StopThreadStep, StoreStateStep,
              StopServerStep DEF L!MainStep
<1>3. CASE L!LoopStep
  BY <1>3, SolverStopsStep, TickStep, BeginWarmingUpStep, CompleteWarmingUpStep,
     SolveRunningStep, CompleteShutdownStep, LoopExitsStep, SolverEventStep DEF L!LoopStep
<1>4. CASE L!CheckSolverStopped \/ L!InitializeShutdown
  BY <1>4, CheckSolverStoppedStep, InitializeShutdownStep
<1>5. CASE L!ClientOrder \/ \E kind \in {"fill", "reject"} : L!ExchangeReports(kind)
  BY <1>5, ClientOrderStep, ExchangeReportsStep
<1>6. CASE L!BackendOrder \/ L!BackendFill \/ L!MarketDataEvent
  BY <1>6, BackendOrderStep, BackendFillStep, MarketDataEventStep
<1>7. CASE \E t \in DOMAIN threads : L!ThreadStops(t)
  <2>1. DOMAIN threads = Threads  BY DEF LifecycleInv, LifecycleTyped
  <2> QED  BY <1>7, <2>1, ThreadStopsStep
<1> QED  BY <1>1, <1>2, <1>3, <1>4, <1>5, <1>6, <1>7 DEF L!Next

\* The invariant holds throughout, for every number of events and rejects.
THEOREM LifecycleHolds == L!Spec => []LifecycleInv
<1>1. L!Init => LifecycleInv  BY LifecycleInit
<1>2. LifecycleInv /\ [L!Next]_(L!vars) => LifecycleInv'  BY LifecycleStep
<1> QED  BY <1>1, <1>2, PTL DEF L!Spec

-------------------------------------------------------------------------------
(* The theorems.                                                              *)

(***************************************************************************)
(* A stop that completes leaves on disk what every manager knows, whatever *)
(* came in meanwhile, and in mode "orders" main panics only when the       *)
(* exchange rejected an order (SolverConfig::stop, Solver::store).         *)
(***************************************************************************)
THEOREM Stops == L!Spec => []L!StopsInOrder
<1>1. LifecycleInv => L!StopsInOrder  BY DEF LifecycleInv, L!StopsInOrder
<1> QED  BY <1>1, LifecycleHolds, PTL

\* No step takes the status back: solve() worked on the status that still holds.
LEMMA StepSticks ==
    ASSUME LifecycleInv, [L!Next]_(L!vars), mode = "orders", solverStatus \in {"ShuttingDown", "Stopped"}
    PROVE  solverStatus' \in {"ShuttingDown", "Stopped"}
<1> USE DEF LifecycleInv
<1>1. CASE L!LoopStep
  <2>1. CASE L!SolverStops \/ L!Tick \/ L!LoopExits  BY <1>1, <2>1 DEF L!SolverStops, L!Tick,
                                                            L!LoopExits
  <2>2. CASE L!BeginWarmingUp \/ L!CompleteWarmingUp
    <3>1. loop = "solve" /\ solveStatus \in {"Created", "WarmingUp"}
      BY <2>2 DEF L!BeginWarmingUp, L!CompleteWarmingUp, L!Solve
    <3>2. FALSE  BY <3>1 DEF StatusRead
    <3> QED  BY <3>2
  <2>3. CASE L!SolveRunning \/ L!CompleteShutdown  BY <2>3 DEF L!SolveRunning, L!CompleteShutdown
  <2>4. CASE \E kind \in L!EventKinds : L!SolverEvent(kind)
    BY <2>4 DEF L!SolverEvent, L!EventKinds
  <2> QED  BY <1>1, <2>1, <2>2, <2>3, <2>4 DEF L!LoopStep
<1>2. CASE L!MainStep
  BY <1>2 DEF L!MainStep, L!RunOrdersBackend, L!RunQuotesBackend, L!RunMarketData, L!RunSolver,
     L!StartServer, L!AwaitMarketData, L!StopSolver, L!AwaitSolver, L!StopOrderSender, L!StopThread,
     L!StoreState, L!StopServer, L!dispatch
<1>3. CASE L!CheckSolverStopped \/ L!InitializeShutdown
  BY <1>3 DEF L!CheckSolverStopped, L!InitializeShutdown, L!dispatch
<1>4. CASE \/ L!ClientOrder \/ (\E kind \in {"fill", "reject"} : L!ExchangeReports(kind))
           \/ L!BackendOrder \/ L!BackendFill \/ L!MarketDataEvent
           \/ \E t \in DOMAIN threads : L!ThreadStops(t)
  BY <1>4 DEF L!ClientOrder, L!ExchangeReports, L!BackendOrder, L!BackendFill, L!MarketDataEvent,
     L!ThreadStops, L!dispatch
<1>5. CASE UNCHANGED L!vars  BY <1>5 DEF L!vars
<1> QED  BY <1>1, <1>2, <1>3, <1>4, <1>5 DEF L!Next

(***************************************************************************)
(* A solver that shuts down does not come back in mode "orders", although  *)
(* solve() works on a status that it read before (complete_warming_up).    *)
(***************************************************************************)
THEOREM Sticks == L!Spec => L!ShutdownSticks
<1>1. LifecycleInv /\ [L!Next]_(L!vars) =>
          [mode = "orders" /\ solverStatus \in {"ShuttingDown", "Stopped"} =>
              solverStatus' \in {"ShuttingDown", "Stopped"}]_(L!vars)
  BY StepSticks
<1> QED  BY <1>1, LifecycleHolds, PTL DEF L!Spec, L!ShutdownSticks

-----------------------------------------------------------------------------
(* Quotes: the inductive invariant, for every set of clients, quote ids and   *)
(* symbols, every wait period and every number of requests and cancels.       *)

QuoteEvent == [type : {"new", "cancel"}, client : Clients, id : QuoteIds, symbol : Known]

\* An event that takes quote k out of the queues.
Cancels(e, k) == e.type = "cancel" /\ Q!Key(e) = k

\* Somebody waits for every quote that is in the queues once all events on their
\* way are handled, with the symbol it has there: a quote in the map that none of
\* them cancels, and a new one that none of those behind it does.
Awaited ==
    /\ \A k \in DOMAIN clientQuotes :
          (\A i \in DOMAIN quoteEvents : ~Cancels(quoteEvents[i], k)) =>
              Q!BagIn(Q!Waiting(k[1], k[2], clientQuotes[k].symbol), acked)
    /\ \A i \in DOMAIN quoteEvents :
          /\ quoteEvents[i].type = "new"
          /\ \A j \in DOMAIN quoteEvents : j > i => ~Cancels(quoteEvents[j], Q!Key(quoteEvents[i]))
          => Q!BagIn(Q!Waiting(quoteEvents[i].client, quoteEvents[i].id, quoteEvents[i].symbol), acked)

QuotesInv == /\ Q!TypeOK /\ quoteEvents \in Seq(QuoteEvent)
             /\ Q!AnswersAwaited /\ Q!QueuesMatchQuotes /\ Awaited

-----------------------------------------------------------------------------
(* Bags of the quotes that clients wait for.                               *)

\* An acknowledged quote is waited for, and those before it still are.
LEMMA BagGains ==
    ASSUME NEW B, Q!IsABag(B), NEW T
    PROVE  /\ Q!IsABag(Q!(+)(B, Q!SetToBag(T)))
           /\ \A x : Q!BagIn(x, Q!(+)(B, Q!SetToBag(T))) <=> Q!BagIn(x, B) \/ x \in T
  BY DEF Q!IsABag, Q!SetToBag, Q!(+), Q!BagIn, Q!BagToSet

\* An answer takes one copy of each quote it is for, and no other.
LEMMA BagLoses ==
    ASSUME NEW B, Q!IsABag(B), NEW T
    PROVE  /\ Q!IsABag(Q!(-)(B, Q!SetToBag(T)))
           /\ \A x : Q!BagIn(x, B) /\ x \notin T => Q!BagIn(x, Q!(-)(B, Q!SetToBag(T)))
  BY DEF Q!IsABag, Q!SetToBag, Q!(-), Q!BagIn, Q!BagToSet

-----------------------------------------------------------------------------
(* Queues.                                                                 *)

\* QueuesMatchQuotes entry by entry.
Matched(quotes, queues) ==
    \A c \in Clients :
        /\ \A i \in 1 .. Len(queues[c]) : <<c, queues[c][i]>> \in DOMAIN quotes
        /\ \A id \in QuoteIds : <<c, id>> \in DOMAIN quotes =>
              \E i \in 1 .. Len(queues[c]) : queues[c][i] = id
        /\ \A i, j \in 1 .. Len(queues[c]) : queues[c][i] = queues[c][j] => i = j

\* The set of all queued quotes is all quotes (retain, add_quote) just when each
\* queue holds the quotes of its client.
LEMMA MatchedMeans ==
    ASSUME NEW quotes, DOMAIN quotes \subseteq Clients \X QuoteIds,
           NEW queues \in [Clients -> Seq(QuoteIds)]
    PROVE  Matched(quotes, queues) <=>
               /\ DOMAIN quotes = UNION {{<<c, id>> : id \in Q!Range(queues[c])} : c \in Clients}
               /\ \A c \in Clients : Q!IsInjective(queues[c])
<1>1. \A c \in Clients : DOMAIN queues[c] = 1 .. Len(queues[c])
  BY LenProperties
<1>2. \A c \in Clients : \A i \in 1 .. Len(queues[c]) : queues[c][i] \in QuoteIds
  BY ElementOfSeq
<1>3. \A c \in Clients : Q!IsInjective(queues[c]) <=>
         \A i, j \in 1 .. Len(queues[c]) : queues[c][i] = queues[c][j] => i = j
  BY <1>1 DEF Q!IsInjective
<1>4. \A c \in Clients : \A id : id \in Q!Range(queues[c]) <=> \E i \in 1 .. Len(queues[c]) : queues[c][i] = id
  BY <1>1 DEF Q!Range
<1> DEFINE U == UNION {{<<c, id>> : id \in Q!Range(queues[c])} : c \in Clients}
<1>5. \A c \in Clients : \A id : <<c, id>> \in U <=> id \in Q!Range(queues[c])
  OBVIOUS
<1>6. \A p \in U : \E c \in Clients, id \in QuoteIds : p = <<c, id>>
  BY <1>2, <1>4
<1>7. \A p \in DOMAIN quotes : \E c \in Clients, id \in QuoteIds : p = <<c, id>>
  OBVIOUS
<1> HIDE DEF U
<1>8. DOMAIN quotes = U <=>
         \A c \in Clients, id \in QuoteIds : <<c, id>> \in DOMAIN quotes <=> id \in Q!Range(queues[c])
  <2>1. ASSUME \A c \in Clients, id \in QuoteIds :
                  <<c, id>> \in DOMAIN quotes <=> id \in Q!Range(queues[c])
        PROVE  DOMAIN quotes = U
    <3>1. ASSUME NEW p \in DOMAIN quotes PROVE p \in U
      BY <2>1, <1>5, <1>7
    <3>2. ASSUME NEW p \in U PROVE p \in DOMAIN quotes
      BY <2>1, <1>5, <1>6
    <3> QED  BY <3>1, <3>2
  <2> QED  BY <2>1, <1>5
<1>9. (\A c \in Clients, id \in QuoteIds : <<c, id>> \in DOMAIN quotes <=> id \in Q!Range(queues[c]))
        <=> \A c \in Clients :
               /\ \A i \in 1 .. Len(queues[c]) : <<c, queues[c][i]>> \in DOMAIN quotes
               /\ \A id \in QuoteIds : <<c, id>> \in DOMAIN quotes =>
                     \E i \in 1 .. Len(queues[c]) : queues[c][i] = id
  BY <1>2, <1>4
<1> QED  BY <1>3, <1>8, <1>9 DEF Matched, U

\* So it is for the queues and the quotes of the solver.
LEMMA QueuesMatched == Q!TypeOK => (Q!QueuesMatchQuotes <=> Matched(clientQuotes, quoteQueues))
  BY MatchedMeans DEF Q!TypeOK, Q!QueuesMatchQuotes

\* A queue that gains an id that is not in the map still matches it.
LEMMA MatchedAdd ==
    ASSUME Q!TypeOK, Matched(clientQuotes, quoteQueues), NEW e \in QuoteEvent,
           Q!Key(e) \notin DOMAIN clientQuotes, NEW quotes,
           DOMAIN quotes = DOMAIN clientQuotes \cup {Q!Key(e)}
    PROVE  /\ [quoteQueues EXCEPT ![e.client] = Append(@, e.id)] \in [Clients -> Seq(QuoteIds)]
           /\ Matched(quotes, [quoteQueues EXCEPT ![e.client] = Append(@, e.id)])
<1> DEFINE queues == [quoteQueues EXCEPT ![e.client] = Append(@, e.id)]
<1>1. e.client \in Clients /\ e.id \in QuoteIds /\ Q!Key(e) = <<e.client, e.id>>
  BY DEF QuoteEvent, Q!Key
<1>2. quoteQueues \in [Clients -> Seq(QuoteIds)]
  BY DEF Q!TypeOK
<1>3. queues[e.client] = Append(quoteQueues[e.client], e.id)
      /\ \A c \in Clients \ {e.client} : queues[c] = quoteQueues[c]
  BY <1>1, <1>2
<1>4. /\ Append(quoteQueues[e.client], e.id) \in Seq(QuoteIds)
      /\ Len(quoteQueues[e.client]) \in Nat
      /\ Len(Append(quoteQueues[e.client], e.id)) = Len(quoteQueues[e.client]) + 1
      /\ \A i \in 1 .. Len(quoteQueues[e.client]) :
            Append(quoteQueues[e.client], e.id)[i] = quoteQueues[e.client][i]
      /\ Append(quoteQueues[e.client], e.id)[Len(quoteQueues[e.client]) + 1] = e.id
  BY <1>1, <1>2, AppendProperties, LenProperties
<1>5. queues \in [Clients -> Seq(QuoteIds)]
  BY <1>1, <1>2, <1>4
<1> HIDE DEF queues
<1>6. ASSUME NEW c \in Clients, c # e.client
      PROVE  /\ \A i \in 1 .. Len(queues[c]) : <<c, queues[c][i]>> \in DOMAIN quotes
             /\ \A id \in QuoteIds : <<c, id>> \in DOMAIN quotes =>
                   \E i \in 1 .. Len(queues[c]) : queues[c][i] = id
             /\ \A i, j \in 1 .. Len(queues[c]) : queues[c][i] = queues[c][j] => i = j
  <2>1. queues[c] = quoteQueues[c]
    BY <1>3, <1>6
  <2>2. \A id : <<c, id>> \in DOMAIN quotes <=> <<c, id>> \in DOMAIN clientQuotes
    BY <1>1, <1>6
  <2> QED  BY <2>1, <2>2 DEF Matched
<1>7. /\ \A i \in 1 .. Len(queues[e.client]) : <<e.client, queues[e.client][i]>> \in DOMAIN quotes
      /\ \A id \in QuoteIds : <<e.client, id>> \in DOMAIN quotes =>
            \E i \in 1 .. Len(queues[e.client]) : queues[e.client][i] = id
      /\ \A i, j \in 1 .. Len(queues[e.client]) : queues[e.client][i] = queues[e.client][j] => i = j
  <2> DEFINE old == quoteQueues[e.client]
             new == queues[e.client]
             n == Len(old)
  <2>1. /\ n \in Nat /\ Len(new) = n + 1 /\ new[n + 1] = e.id
        /\ \A i \in 1 .. n : new[i] = old[i]
    BY <1>3, <1>4
  <2>2. /\ \A i \in 1 .. n : <<e.client, old[i]>> \in DOMAIN clientQuotes
        /\ \A id \in QuoteIds : <<e.client, id>> \in DOMAIN clientQuotes =>
              \E i \in 1 .. n : old[i] = id
        /\ \A i, j \in 1 .. n : old[i] = old[j] => i = j
    BY <1>1 DEF Matched
  <2>3. \A i \in 1 .. n : old[i] # e.id
    BY <1>1, <2>2
  <2> HIDE DEF old, new, n
  <2>4. \A i \in 1 .. n + 1 : i \in 1 .. n \/ i = n + 1
    BY <2>1
  <2>5. \A i \in 1 .. n + 1 : <<e.client, new[i]>> \in DOMAIN quotes
    BY <1>1, <2>1, <2>2, <2>4
  <2>6. \A id \in QuoteIds : <<e.client, id>> \in DOMAIN quotes => \E i \in 1 .. n + 1 : new[i] = id
    <3> SUFFICES ASSUME NEW id \in QuoteIds, <<e.client, id>> \in DOMAIN quotes
                 PROVE  \E i \in 1 .. n + 1 : new[i] = id
      OBVIOUS
    <3>1. CASE id = e.id
      BY <2>1, <3>1
    <3>2. CASE id # e.id
      <4>1. PICK i \in 1 .. n : old[i] = id
        BY <1>1, <2>2, <3>2
      <4> QED  BY <2>1, <4>1
    <3> QED  BY <3>1, <3>2
  <2>7. \A i, j \in 1 .. n + 1 : new[i] = new[j] => i = j
    BY <2>1, <2>2, <2>3, <2>4
  <2> QED  BY <2>1, <2>5, <2>6, <2>7 DEF new
<1> QED  BY <1>5, <1>6, <1>7 DEF Matched, queues

\* So does one that loses an id that leaves the map (pop_front, retain).
LEMMA MatchedRemove ==
    ASSUME Q!TypeOK, Matched(clientQuotes, quoteQueues), NEW e \in QuoteEvent, NEW quotes,
           DOMAIN quotes = DOMAIN clientQuotes \ {Q!Key(e)},
           NEW k \in 1 .. Len(quoteQueues[e.client]), quoteQueues[e.client][k] = e.id
    PROVE  /\ [quoteQueues EXCEPT ![e.client] = Q!RemoveAt(@, k)] \in [Clients -> Seq(QuoteIds)]
           /\ Matched(quotes, [quoteQueues EXCEPT ![e.client] = Q!RemoveAt(@, k)])
<1> DEFINE queues == [quoteQueues EXCEPT ![e.client] = Q!RemoveAt(@, k)]
<1>1. e.client \in Clients /\ e.id \in QuoteIds /\ Q!Key(e) = <<e.client, e.id>>
  BY DEF QuoteEvent, Q!Key
<1>2. quoteQueues \in [Clients -> Seq(QuoteIds)]
  BY DEF Q!TypeOK
<1>3. queues[e.client] = Q!RemoveAt(quoteQueues[e.client], k)
      /\ \A c \in Clients \ {e.client} : queues[c] = quoteQueues[c]
  BY <1>1, <1>2
<1>4. /\ Q!RemoveAt(quoteQueues[e.client], k) \in Seq(QuoteIds)
      /\ Len(quoteQueues[e.client]) \in Nat
      /\ Len(Q!RemoveAt(quoteQueues[e.client], k)) = Len(quoteQueues[e.client]) - 1
      /\ \A i \in 1 .. Len(quoteQueues[e.client]) - 1 : Q!RemoveAt(quoteQueues[e.client], k)[i] =
            IF i < k THEN quoteQueues[e.client][i] ELSE quoteQueues[e.client][i + 1]
  <2>1. Q!RemoveAt(quoteQueues[e.client], k) = RemoveAt(quoteQueues[e.client], k)
    BY DEF Q!RemoveAt, RemoveAt
  <2>2. quoteQueues[e.client] \in Seq(QuoteIds)
    BY <1>1, <1>2
  <2> DEFINE q == quoteQueues[e.client]
  <2> HIDE DEF q
  <2>3. q \in Seq(QuoteIds) /\ k \in 1 .. Len(q) /\ Q!RemoveAt(q, k) = RemoveAt(q, k)
    BY <2>1, <2>2 DEF q
  <2>4. /\ RemoveAt(q, k) \in Seq(QuoteIds)
        /\ Len(RemoveAt(q, k)) = Len(q) - 1
        /\ \A i \in 1 .. Len(q) - 1 : RemoveAt(q, k)[i] = IF i < k THEN q[i] ELSE q[i + 1]
    BY <2>3, RemoveAtFacts
  <2>5. Len(q) \in Nat
    BY <2>3, LenProperties
  <2> QED  BY <2>3, <2>4, <2>5 DEF q
<1>5. queues \in [Clients -> Seq(QuoteIds)]
  BY <1>1, <1>2, <1>4
<1> HIDE DEF queues
<1>6. ASSUME NEW c \in Clients, c # e.client
      PROVE  /\ \A i \in 1 .. Len(queues[c]) : <<c, queues[c][i]>> \in DOMAIN quotes
             /\ \A id \in QuoteIds : <<c, id>> \in DOMAIN quotes =>
                   \E i \in 1 .. Len(queues[c]) : queues[c][i] = id
             /\ \A i, j \in 1 .. Len(queues[c]) : queues[c][i] = queues[c][j] => i = j
  <2>1. queues[c] = quoteQueues[c]
    BY <1>3, <1>6
  <2>2. \A id : <<c, id>> \in DOMAIN quotes <=> <<c, id>> \in DOMAIN clientQuotes
    BY <1>1, <1>6
  <2> QED  BY <2>1, <2>2 DEF Matched
<1>7. /\ \A i \in 1 .. Len(queues[e.client]) : <<e.client, queues[e.client][i]>> \in DOMAIN quotes
      /\ \A id \in QuoteIds : <<e.client, id>> \in DOMAIN quotes =>
            \E i \in 1 .. Len(queues[e.client]) : queues[e.client][i] = id
      /\ \A i, j \in 1 .. Len(queues[e.client]) : queues[e.client][i] = queues[e.client][j] => i = j
  <2> DEFINE old == quoteQueues[e.client]
             new == queues[e.client]
             n == Len(old)
             at(i) == IF i < k THEN i ELSE i + 1
  <2>1. /\ n \in Nat /\ k \in 1 .. n /\ Len(new) = n - 1 /\ old[k] = e.id
        /\ \A i \in 1 .. n - 1 : new[i] = old[at(i)]
    BY <1>3, <1>4
  <2>2. /\ \A i \in 1 .. n : <<e.client, old[i]>> \in DOMAIN clientQuotes
        /\ \A id \in QuoteIds : <<e.client, id>> \in DOMAIN clientQuotes =>
              \E i \in 1 .. n : old[i] = id
        /\ \A i, j \in 1 .. n : old[i] = old[j] => i = j
    BY <1>1 DEF Matched
  <2> HIDE DEF old, new, n
  <2>3. \A i \in 1 .. n - 1 : at(i) \in 1 .. n /\ at(i) # k
    BY <2>1
  <2>4. \A i, j \in 1 .. n - 1 : at(i) = at(j) => i = j
    BY <2>1
  <2>5. \A j \in 1 .. n : j # k => \E i \in 1 .. n - 1 : at(i) = j
    <3> SUFFICES ASSUME NEW j \in 1 .. n, j # k PROVE \E i \in 1 .. n - 1 : at(i) = j
      OBVIOUS
    <3>1. CASE j < k
      <4>1. j \in 1 .. n - 1 /\ at(j) = j
        BY <2>1, <3>1
      <4> QED  BY <4>1
    <3>2. CASE j > k
      <4>1. j - 1 \in 1 .. n - 1 /\ at(j - 1) = j
        BY <2>1, <3>2
      <4> QED  BY <4>1
    <3> QED  BY <2>1, <3>1, <3>2
  <2> HIDE DEF at
  <2>6. \A i \in 1 .. n - 1 : <<e.client, new[i]>> \in DOMAIN quotes
    <3> SUFFICES ASSUME NEW i \in 1 .. n - 1 PROVE <<e.client, new[i]>> \in DOMAIN quotes
      OBVIOUS
    <3>1. new[i] = old[at(i)] /\ old[at(i)] # e.id /\ <<e.client, old[at(i)]>> \in DOMAIN clientQuotes
      BY <2>1, <2>2, <2>3
    <3> QED  BY <1>1, <3>1
  <2>7. \A id \in QuoteIds : <<e.client, id>> \in DOMAIN quotes => \E i \in 1 .. n - 1 : new[i] = id
    <3> SUFFICES ASSUME NEW id \in QuoteIds, <<e.client, id>> \in DOMAIN quotes
                 PROVE  \E i \in 1 .. n - 1 : new[i] = id
      OBVIOUS
    <3>1. PICK j \in 1 .. n : old[j] = id
      BY <2>2
    <3>2. j # k
      BY <1>1, <2>1, <3>1
    <3>3. PICK i \in 1 .. n - 1 : at(i) = j
      BY <2>5, <3>2
    <3> QED  BY <2>1, <3>1, <3>3
  <2>8. \A i, j \in 1 .. n - 1 : new[i] = new[j] => i = j
    <3> SUFFICES ASSUME NEW i \in 1 .. n - 1, NEW j \in 1 .. n - 1, new[i] = new[j] PROVE i = j
      OBVIOUS
    <3>1. old[at(i)] = old[at(j)]
      BY <2>1
    <3>2. at(i) = at(j)
      BY <2>2, <2>3, <3>1
    <3> QED  BY <2>4, <3>2
  <2> QED  BY <2>1, <2>6, <2>7, <2>8 DEF new
<1> QED  BY <1>5, <1>6, <1>7 DEF Matched, queues

-----------------------------------------------------------------------------
(* Messages from clients.                                                  *)

\* The messages between manager and solver are a queue of events.
LEMMA EventFacts ==
    ASSUME quoteEvents \in Seq(QuoteEvent)
    PROVE  /\ Len(quoteEvents) \in Nat /\ DOMAIN quoteEvents = 1 .. Len(quoteEvents)
           /\ \A i \in DOMAIN quoteEvents : quoteEvents[i] \in QuoteEvent
  BY LenProperties, ElementOfSeq

\* A new event goes to the end of the queue.
LEMMA EventAppended ==
    ASSUME quoteEvents \in Seq(QuoteEvent), NEW e \in QuoteEvent, quoteEvents' = Append(quoteEvents, e)
    PROVE  /\ quoteEvents' \in Seq(QuoteEvent)
           /\ Len(quoteEvents') = Len(quoteEvents) + 1
           /\ DOMAIN quoteEvents' = 1 .. Len(quoteEvents) + 1
           /\ \A i \in DOMAIN quoteEvents : i \in DOMAIN quoteEvents' /\ quoteEvents'[i] = quoteEvents[i]
           /\ quoteEvents'[Len(quoteEvents) + 1] = e
           /\ \A i \in DOMAIN quoteEvents' : i \in DOMAIN quoteEvents \/ i = Len(quoteEvents) + 1
<1>1. /\ Append(quoteEvents, e) \in Seq(QuoteEvent)
      /\ Len(Append(quoteEvents, e)) = Len(quoteEvents) + 1
      /\ \A i \in 1 .. Len(quoteEvents) : Append(quoteEvents, e)[i] = quoteEvents[i]
      /\ Append(quoteEvents, e)[Len(quoteEvents) + 1] = e
  BY AppendProperties
<1>2. DOMAIN Append(quoteEvents, e) = 1 .. Len(Append(quoteEvents, e))
  BY <1>1, LenProperties
<1> QED  BY <1>1, <1>2, EventFacts

\* The rest of the invariant, of what a message leaves alone.
LEMMA QueuesKept ==
    ASSUME QuotesInv, UNCHANGED <<clientQuotes, quoteQueues, wrong>>
    PROVE  Q!QueuesMatchQuotes' /\ Q!AnswersAwaited'
  BY DEF QuotesInv, Q!QueuesMatchQuotes, Q!AnswersAwaited

\* NewQuoteRequest: the client waits from here on, before the solver knows of it.
LEMMA NewKeeps ==
    ASSUME QuotesInv, NEW c \in Clients, NEW s \in Symbols, NEW id \in QuoteIds,
           Q!NewQuoteRequest(c, id, s)
    PROVE  QuotesInv'
<1> DEFINE e == [type |-> "new", client |-> c, id |-> id, symbol |-> s]
<1>1. e \in QuoteEvent /\ e.type = "new" /\ e.client = c /\ e.id = id /\ e.symbol = s
  BY DEF Q!NewQuoteRequest, QuoteEvent
<1>2. quoteEvents \in Seq(QuoteEvent) /\ quoteEvents' = Append(quoteEvents, e)
  BY DEF QuotesInv, Q!NewQuoteRequest
<1>3. UNCHANGED <<clientQuotes, quoteQueues, quoteNotify, stuck, wrong>>
  BY DEF Q!NewQuoteRequest, Q!Message, Q!solving
<1>4. /\ Q!IsABag(acked')
      /\ \A x : Q!BagIn(x, acked) => Q!BagIn(x, acked')
      /\ Q!BagIn(Q!Waiting(c, id, s), acked')
  BY BagGains DEF QuotesInv, Q!TypeOK, Q!NewQuoteRequest
<1>5. requests' \in [Clients -> [Symbols -> QuoteIds \cup {Q!NoQuote}]]
  BY DEF QuotesInv, Q!TypeOK, Q!NewQuoteRequest
<1>6. Q!TypeOK'
  BY <1>3, <1>4, <1>5 DEF QuotesInv, Q!TypeOK
<1> HIDE DEF e
<1>7. \A k, i : i \in DOMAIN quoteEvents /\ ~Cancels(quoteEvents'[i], k) => ~Cancels(quoteEvents[i], k)
  BY <1>1, <1>2, EventAppended DEF Cancels
<1>8. ASSUME NEW k \in DOMAIN clientQuotes', \A i \in DOMAIN quoteEvents' : ~Cancels(quoteEvents'[i], k)
      PROVE  Q!BagIn(Q!Waiting(k[1], k[2], clientQuotes'[k].symbol), acked')
  <2>1. \A i \in DOMAIN quoteEvents : ~Cancels(quoteEvents[i], k)
    BY <1>1, <1>2, <1>7, <1>8, EventAppended
  <2> QED  BY <1>3, <1>4, <2>1 DEF QuotesInv, Awaited
<1>9. ASSUME NEW i \in DOMAIN quoteEvents', quoteEvents'[i].type = "new",
             \A j \in DOMAIN quoteEvents' : j > i => ~Cancels(quoteEvents'[j], Q!Key(quoteEvents'[i]))
      PROVE  Q!BagIn(Q!Waiting(quoteEvents'[i].client, quoteEvents'[i].id, quoteEvents'[i].symbol), acked')
  <2>1. CASE i = Len(quoteEvents) + 1
    BY <1>1, <1>2, <1>4, <2>1, EventAppended
  <2>2. CASE i \in DOMAIN quoteEvents
    <3>1. quoteEvents'[i] = quoteEvents[i]
      BY <1>1, <1>2, <2>2, EventAppended
    <3>2. \A j \in DOMAIN quoteEvents : j > i => ~Cancels(quoteEvents[j], Q!Key(quoteEvents[i]))
      BY <1>1, <1>2, <1>7, <1>9, <3>1, EventAppended
    <3> QED  BY <1>4, <1>9, <2>2, <3>1, <3>2 DEF QuotesInv, Awaited
  <2> QED  BY <1>1, <1>2, <2>1, <2>2, EventAppended
<1>10. Awaited'
  BY <1>8, <1>9 DEF Awaited
<1> QED  BY <1>1, <1>2, <1>3, <1>6, <1>10, EventAppended, QueuesKept DEF QuotesInv

\* CancelQuoteRequest: the client waits no longer, and an event is on its way
\* that takes its quote out of the queues before the thread solves again.
LEMMA CancelKeeps ==
    ASSUME QuotesInv, NEW c \in Clients, NEW s \in Symbols, NEW id \in QuoteIds,
           Q!CancelQuoteRequest(c, id, s)
    PROVE  QuotesInv'
<1>1. UNCHANGED <<clientQuotes, quoteQueues, quoteNotify, stuck, wrong>>
  BY DEF Q!CancelQuoteRequest, Q!Message, Q!solving
<1>2. requests' \in [Clients -> [Symbols -> QuoteIds \cup {Q!NoQuote}]]
  BY DEF QuotesInv, Q!TypeOK, Q!CancelQuoteRequest
<1>3. CASE UNCHANGED <<quoteEvents, acked>>
  <2>1. Q!TypeOK'
    BY <1>1, <1>2, <1>3 DEF QuotesInv, Q!TypeOK
  <2>2. Awaited'
    BY <1>1, <1>3 DEF QuotesInv, Awaited, Cancels
  <2> QED  BY <1>1, <1>3, <2>1, <2>2, QueuesKept DEF QuotesInv
<1>4. CASE /\ quoteEvents' = Append(quoteEvents,
                                [type |-> "cancel", client |-> c, id |-> id, symbol |-> s])
           /\ acked' = Q!(-)(acked, Q!SetToBag({Q!Waiting(c, id, s)}))
  <2> DEFINE e == [type |-> "cancel", client |-> c, id |-> id, symbol |-> s]
  <2>1. e \in QuoteEvent /\ e.type = "cancel" /\ Q!Key(e) = <<c, id>>
    BY DEF Q!CancelQuoteRequest, QuoteEvent, Q!Key
  <2>2. quoteEvents \in Seq(QuoteEvent) /\ quoteEvents' = Append(quoteEvents, e)
    BY <1>4 DEF QuotesInv
  <2>3. /\ Q!IsABag(acked')
        /\ \A x : Q!BagIn(x, acked) /\ x # Q!Waiting(c, id, s) => Q!BagIn(x, acked')
    BY <1>4, BagLoses DEF QuotesInv, Q!TypeOK
  <2>4. \A c2, id2, s2 : <<c2, id2>> # <<c, id>> => Q!Waiting(c2, id2, s2) # Q!Waiting(c, id, s)
    BY DEF Q!Waiting
  <2> HIDE DEF e
  <2>5. Q!TypeOK'
    BY <1>1, <1>2, <2>3 DEF QuotesInv, Q!TypeOK
  <2>6. \A k, i : i \in DOMAIN quoteEvents /\ ~Cancels(quoteEvents'[i], k) => ~Cancels(quoteEvents[i], k)
    BY <2>1, <2>2, EventAppended DEF Cancels
  <2>7. Cancels(quoteEvents'[Len(quoteEvents) + 1], <<c, id>>) /\ Len(quoteEvents) + 1 \in DOMAIN quoteEvents'
    <3>1. Len(quoteEvents) + 1 \in DOMAIN quoteEvents' /\ quoteEvents'[Len(quoteEvents) + 1] = e
      BY <2>1, <2>2, EventAppended, EventFacts
    <3> QED  BY <2>1, <3>1 DEF Cancels
  <2>8. ASSUME NEW k \in DOMAIN clientQuotes', \A i \in DOMAIN quoteEvents' : ~Cancels(quoteEvents'[i], k)
        PROVE  Q!BagIn(Q!Waiting(k[1], k[2], clientQuotes'[k].symbol), acked')
    <3>1. \A i \in DOMAIN quoteEvents : ~Cancels(quoteEvents[i], k)
      BY <2>1, <2>2, <2>6, <2>8, EventAppended
    <3>2. k # <<c, id>> /\ k = <<k[1], k[2]>>
      <4>1. k # <<c, id>>
        BY <2>7, <2>8
      <4>2. k \in Clients \X QuoteIds
        BY <1>1 DEF QuotesInv, Q!TypeOK
      <4> QED  BY <4>1, <4>2
    <3>3. Q!BagIn(Q!Waiting(k[1], k[2], clientQuotes[k].symbol), acked)
      BY <1>1, <3>1 DEF QuotesInv, Awaited
    <3> QED  BY <1>1, <2>3, <2>4, <3>2, <3>3
  <2>9. ASSUME NEW i \in DOMAIN quoteEvents', quoteEvents'[i].type = "new",
               \A j \in DOMAIN quoteEvents' : j > i => ~Cancels(quoteEvents'[j], Q!Key(quoteEvents'[i]))
        PROVE  Q!BagIn(Q!Waiting(quoteEvents'[i].client, quoteEvents'[i].id, quoteEvents'[i].symbol),
                     acked')
    <3>1. i \in DOMAIN quoteEvents /\ quoteEvents'[i] = quoteEvents[i]
      BY <2>1, <2>2, <2>9, EventAppended
    <3>2. Len(quoteEvents) + 1 > i
      BY <2>2, <3>1, EventFacts
    <3>3. <<quoteEvents[i].client, quoteEvents[i].id>> # <<c, id>>
      BY <2>7, <2>9, <3>1, <3>2 DEF Q!Key
    <3>4. \A j \in DOMAIN quoteEvents : j > i => ~Cancels(quoteEvents[j], Q!Key(quoteEvents[i]))
      BY <2>1, <2>2, <2>6, <2>9, <3>1, EventAppended
    <3>5. Q!BagIn(Q!Waiting(quoteEvents[i].client, quoteEvents[i].id, quoteEvents[i].symbol), acked)
      BY <2>9, <3>1, <3>4 DEF QuotesInv, Awaited
    <3> QED  BY <2>3, <2>4, <3>1, <3>3, <3>5
  <2>10. Awaited'
    BY <2>8, <2>9 DEF Awaited
  <2> QED  BY <1>1, <2>1, <2>2, <2>5, <2>10, EventAppended, QueuesKept DEF QuotesInv
<1> QED  BY <1>3, <1>4 DEF Q!CancelQuoteRequest

-----------------------------------------------------------------------------
(* The thread that solves.                                                 *)

\* What the thread leaves alone: what the manager keeps, and what clients wait for.
manager == <<requests, stuck, acked, wrong, requested, cancels>>

\* The events behind the first move up.
LEMMA EventTaken ==
    ASSUME quoteEvents \in Seq(QuoteEvent), quoteEvents # <<>>, quoteEvents' = Tail(quoteEvents)
    PROVE  /\ quoteEvents' \in Seq(QuoteEvent)
           /\ 1 \in DOMAIN quoteEvents
           /\ Head(quoteEvents) \in QuoteEvent /\ Head(quoteEvents) = quoteEvents[1]
           /\ \A i \in DOMAIN quoteEvents' : i + 1 \in DOMAIN quoteEvents /\ i \in Nat
                                             /\ quoteEvents'[i] = quoteEvents[i + 1]
           /\ \A i \in DOMAIN quoteEvents : i # 1 => i - 1 \in DOMAIN quoteEvents' /\ i \in Nat
<1>1. /\ Head(quoteEvents) \in QuoteEvent
      /\ Tail(quoteEvents) \in Seq(QuoteEvent)
      /\ Len(Tail(quoteEvents)) = Len(quoteEvents) - 1
      /\ \A i \in 1 .. Len(Tail(quoteEvents)) : Tail(quoteEvents)[i] = quoteEvents[i + 1]
  BY HeadTailProperties
<1>2. DOMAIN Tail(quoteEvents) = 1 .. Len(Tail(quoteEvents))
  BY <1>1, LenProperties
<1>3. Len(quoteEvents) \in Nat \ {0}
  BY EmptySeq
<1>4. Head(quoteEvents) = quoteEvents[1]
  OBVIOUS
<1> QED  BY <1>1, <1>2, <1>3, <1>4, EventFacts

\* The events that are left are waited for as they were.
LEMMA TailAwaited ==
    ASSUME QuotesInv, quoteEvents # <<>>, quoteEvents' = Tail(quoteEvents), acked' = acked,
           NEW i \in DOMAIN quoteEvents', quoteEvents'[i].type = "new",
           \A j \in DOMAIN quoteEvents' : j > i => ~Cancels(quoteEvents'[j], Q!Key(quoteEvents'[i]))
    PROVE  Q!BagIn(Q!Waiting(quoteEvents'[i].client, quoteEvents'[i].id, quoteEvents'[i].symbol), acked')
<1>1. i + 1 \in DOMAIN quoteEvents /\ i \in Nat /\ quoteEvents'[i] = quoteEvents[i + 1]
  BY EventTaken DEF QuotesInv
<1>2. ASSUME NEW j \in DOMAIN quoteEvents, j > i + 1
      PROVE  ~Cancels(quoteEvents[j], Q!Key(quoteEvents[i + 1]))
  <2>1. j # 1 /\ j \in Nat
    BY <1>1, <1>2, EventFacts DEF QuotesInv
  <2>2. j - 1 \in DOMAIN quoteEvents' /\ j - 1 > i /\ j - 1 + 1 = j
    BY <1>1, <1>2, <2>1, EventTaken DEF QuotesInv
  <2>3. quoteEvents'[j - 1] = quoteEvents[j]
    BY <2>2, EventTaken DEF QuotesInv
  <2> QED  BY <1>1, <2>2, <2>3
<1> QED  BY <1>1, <1>2 DEF QuotesInv, Awaited

\* add_client_quote: the client of a new quote waits for it by then, or an event
\* that takes it away again is behind.
LEMMA AddKeeps ==
    ASSUME QuotesInv, quoteEvents # <<>>, quoteEvents' = Tail(quoteEvents), UNCHANGED manager,
           Head(quoteEvents).type = "new", Q!AddClientQuote(Head(quoteEvents)), WaitPeriod \in Nat
    PROVE  QuotesInv'
<1> DEFINE x == Head(quoteEvents)
<1>1. PICK e \in QuoteEvent : e = x /\ e = quoteEvents[1] /\ e.type = "new"
  BY EventTaken DEF QuotesInv
<1>2. /\ e.client \in Clients /\ e.id \in QuoteIds /\ e.symbol \in Known
      /\ Q!Key(e) = <<e.client, e.id>>
  BY DEF QuoteEvent, Q!Key
<1>3. Q!AddClientQuote(e)
  BY <1>1
<1> HIDE DEF x
\* No event behind the first cancels less than all of them do.
<1>4. \A k : (\A i \in DOMAIN quoteEvents' : ~Cancels(quoteEvents'[i], k)) =>
             /\ \A i \in DOMAIN quoteEvents : ~Cancels(quoteEvents[i], k)
             /\ \A i \in DOMAIN quoteEvents : i > 1 => ~Cancels(quoteEvents[i], k)
  <2> SUFFICES ASSUME NEW k, \A i \in DOMAIN quoteEvents' : ~Cancels(quoteEvents'[i], k),
                      NEW i \in DOMAIN quoteEvents
               PROVE  ~Cancels(quoteEvents[i], k)
    OBVIOUS
  <2>1. CASE i = 1
    BY <1>1, <2>1 DEF Cancels
  <2>2. CASE i # 1
    <3>1. i - 1 \in DOMAIN quoteEvents' /\ i - 1 + 1 = i /\ quoteEvents'[i - 1] = quoteEvents[i - 1 + 1]
      BY <2>2, EventTaken DEF QuotesInv
    <3> QED  BY <3>1
  <2> QED  BY <2>1, <2>2
\* The second part of Awaited concerns later events only.
<1>5. ASSUME NEW i \in DOMAIN quoteEvents', quoteEvents'[i].type = "new",
             \A j \in DOMAIN quoteEvents' : j > i => ~Cancels(quoteEvents'[j], Q!Key(quoteEvents'[i]))
      PROVE  Q!BagIn(Q!Waiting(quoteEvents'[i].client, quoteEvents'[i].id, quoteEvents'[i].symbol), acked')
  BY <1>5, TailAwaited DEF manager
<1>6. CASE Q!Key(e) \in DOMAIN clientQuotes
  <2>1. UNCHANGED <<clientQuotes, quoteQueues, quoteNotify>>
    BY <1>3, <1>6 DEF Q!AddClientQuote
  <2>2. Q!TypeOK'
    BY <2>1 DEF QuotesInv, Q!TypeOK, manager
  <2>3. Awaited'
    <3>1. \A k \in DOMAIN clientQuotes' : (\A i \in DOMAIN quoteEvents' : ~Cancels(quoteEvents'[i], k)) =>
              Q!BagIn(Q!Waiting(k[1], k[2], clientQuotes'[k].symbol), acked')
      BY <1>4, <2>1 DEF QuotesInv, Awaited, manager
    <3> QED  BY <1>5, <3>1 DEF Awaited
  <2> QED  BY <2>1, <2>2, <2>3, EventTaken, QueuesKept DEF QuotesInv, manager
<1>7. CASE Q!Key(e) \notin DOMAIN clientQuotes
  <2>1. /\ clientQuotes' = [k \in DOMAIN clientQuotes \cup {Q!Key(e)} |->
                               IF k = Q!Key(e) THEN [symbol |-> e.symbol, age |-> 0]
                               ELSE clientQuotes[k]]
        /\ quoteQueues' = [quoteQueues EXCEPT ![e.client] = Append(@, e.id)]
        /\ quoteNotify' = IF quoteQueues[e.client] = <<>>
                          THEN Append(quoteNotify, e.client) ELSE quoteNotify
    BY <1>3, <1>7 DEF Q!AddClientQuote
  <2>2. /\ DOMAIN clientQuotes' = DOMAIN clientQuotes \cup {Q!Key(e)}
        /\ clientQuotes'[Q!Key(e)].symbol = e.symbol
        /\ clientQuotes'[Q!Key(e)] \in [symbol : Known, age : 0 .. WaitPeriod]
        /\ \A k \in DOMAIN clientQuotes : clientQuotes'[k] = clientQuotes[k]
    <3>1. /\ DOMAIN clientQuotes' = DOMAIN clientQuotes \cup {Q!Key(e)}
          /\ clientQuotes'[Q!Key(e)] = [symbol |-> e.symbol, age |-> 0]
          /\ \A k \in DOMAIN clientQuotes : clientQuotes'[k] = clientQuotes[k]
      BY <1>7, <2>1
    <3>2. [symbol |-> e.symbol, age |-> 0] \in [symbol : Known, age : 0 .. WaitPeriod]
      BY <1>2
    <3> QED  BY <3>1, <3>2
  <2>3. Matched(clientQuotes, quoteQueues)
    BY QueuesMatched DEF QuotesInv
  <2>4. quoteQueues' \in [Clients -> Seq(QuoteIds)] /\ Matched(clientQuotes', quoteQueues')
    BY <1>7, <2>1, <2>2, <2>3, MatchedAdd DEF QuotesInv
  <2>5. quoteNotify' \in Seq(Clients)
    BY <1>2, <2>1, AppendProperties DEF QuotesInv, Q!TypeOK
  <2>6. Q!TypeOK'
    <3>1. DOMAIN clientQuotes' \subseteq Clients \X QuoteIds
      BY <1>2, <2>2 DEF QuotesInv, Q!TypeOK
    <3>2. \A k \in DOMAIN clientQuotes' : clientQuotes'[k] \in [symbol : Known, age : 0 .. WaitPeriod]
      BY <2>2 DEF QuotesInv, Q!TypeOK
    <3> QED  BY <2>4, <2>5, <3>1, <3>2 DEF QuotesInv, Q!TypeOK, manager
  <2>7. Q!QueuesMatchQuotes'
    BY <2>4, <2>6, MatchedMeans DEF Q!QueuesMatchQuotes, Q!TypeOK
  <2>8. ASSUME NEW k \in DOMAIN clientQuotes', \A i \in DOMAIN quoteEvents' : ~Cancels(quoteEvents'[i], k)
        PROVE  Q!BagIn(Q!Waiting(k[1], k[2], clientQuotes'[k].symbol), acked)
    <3>1. CASE k \in DOMAIN clientQuotes
      BY <1>4, <2>2, <2>8, <3>1 DEF QuotesInv, Awaited
    <3>2. CASE k = Q!Key(e)
      <4>1. 1 \in DOMAIN quoteEvents /\ \A j \in DOMAIN quoteEvents : j > 1 => ~Cancels(quoteEvents[j], Q!Key(e))
        BY <1>4, <2>8, <3>2, EventTaken DEF QuotesInv
      <4>2. Q!BagIn(Q!Waiting(e.client, e.id, e.symbol), acked)
        BY <1>1, <4>1 DEF QuotesInv, Awaited
      <4>3. k[1] = e.client /\ k[2] = e.id /\ clientQuotes'[k].symbol = e.symbol
        BY <1>2, <2>2, <3>2
      <4> QED  BY <4>2, <4>3
    <3> QED  BY <2>2, <3>1, <3>2
  <2>9. Awaited'
    BY <1>5, <2>8 DEF Awaited, manager
  <2> QED  BY <2>6, <2>7, <2>9, EventTaken DEF QuotesInv, Q!AnswersAwaited, manager
<1> QED  BY <1>6, <1>7

\* cancel_client_quote: only the quote of the event leaves map and queue.
LEMMA RemoveKeeps ==
    ASSUME QuotesInv, quoteEvents # <<>>, quoteEvents' = Tail(quoteEvents), UNCHANGED manager,
           Head(quoteEvents).type = "cancel", Q!CancelClientQuote(Head(quoteEvents))
    PROVE  QuotesInv'
<1>1. PICK e \in QuoteEvent : e = Head(quoteEvents) /\ e = quoteEvents[1]
  BY EventTaken DEF QuotesInv
<1>2. e.client \in Clients /\ e.id \in QuoteIds /\ Q!Key(e) = <<e.client, e.id>>
  BY DEF QuoteEvent, Q!Key
<1>3. Q!CancelClientQuote(e)
  BY <1>1
\* Who is not cancelled behind the first event is its quote, or not cancelled.
<1>4. \A k : k # Q!Key(e) /\ (\A i \in DOMAIN quoteEvents' : ~Cancels(quoteEvents'[i], k)) =>
             \A i \in DOMAIN quoteEvents : ~Cancels(quoteEvents[i], k)
  <2> SUFFICES ASSUME NEW k, k # Q!Key(e), \A i \in DOMAIN quoteEvents' : ~Cancels(quoteEvents'[i], k),
                      NEW i \in DOMAIN quoteEvents
               PROVE  ~Cancels(quoteEvents[i], k)
    OBVIOUS
  <2>1. CASE i = 1
    BY <1>1, <2>1 DEF Cancels
  <2>2. CASE i # 1
    <3>1. i - 1 \in DOMAIN quoteEvents' /\ i - 1 + 1 = i /\ quoteEvents'[i - 1] = quoteEvents[i - 1 + 1]
      BY <2>2, EventTaken DEF QuotesInv
    <3> QED  BY <3>1
  <2> QED  BY <2>1, <2>2
<1>5. ASSUME NEW i \in DOMAIN quoteEvents', quoteEvents'[i].type = "new",
             \A j \in DOMAIN quoteEvents' : j > i => ~Cancels(quoteEvents'[j], Q!Key(quoteEvents'[i]))
      PROVE  Q!BagIn(Q!Waiting(quoteEvents'[i].client, quoteEvents'[i].id, quoteEvents'[i].symbol), acked')
  BY <1>5, TailAwaited DEF manager
\* In either case no quote but that of e is left or changed.
<1>6. ASSUME DOMAIN clientQuotes' = DOMAIN clientQuotes \ {Q!Key(e)},
             \A k \in DOMAIN clientQuotes' : clientQuotes'[k] = clientQuotes[k]
      PROVE  Awaited'
  <2>1. ASSUME NEW k \in DOMAIN clientQuotes', \A i \in DOMAIN quoteEvents' : ~Cancels(quoteEvents'[i], k)
        PROVE  Q!BagIn(Q!Waiting(k[1], k[2], clientQuotes'[k].symbol), acked')
    BY <1>4, <1>6, <2>1 DEF QuotesInv, Awaited, manager
  <2> QED  BY <1>5, <2>1 DEF Awaited
<1>7. CASE Q!Key(e) \notin DOMAIN clientQuotes
  <2>1. UNCHANGED <<clientQuotes, quoteQueues, quoteNotify>>
    BY <1>3, <1>7 DEF Q!CancelClientQuote
  <2>2. Q!TypeOK'
    BY <2>1 DEF QuotesInv, Q!TypeOK, manager
  <2>3. Awaited'
    BY <1>6, <1>7, <2>1
  <2> QED  BY <2>1, <2>2, <2>3, EventTaken, QueuesKept DEF QuotesInv, manager
<1>8. CASE Q!Key(e) \in DOMAIN clientQuotes
  <2>1. PICK k \in DOMAIN quoteQueues[e.client] :
            /\ quoteQueues[e.client][k] = e.id
            /\ clientQuotes' = [q \in DOMAIN clientQuotes \ {Q!Key(e)} |-> clientQuotes[q]]
            /\ quoteQueues' = [quoteQueues EXCEPT ![e.client] = Q!RemoveAt(@, k)]
            /\ quoteNotify' = IF k = 1 /\ Len(quoteQueues[e.client]) > 1
                              THEN Append(quoteNotify, e.client) ELSE quoteNotify
    BY <1>3, <1>8 DEF Q!CancelClientQuote
  <2>2. /\ DOMAIN clientQuotes' = DOMAIN clientQuotes \ {Q!Key(e)}
        /\ \A q \in DOMAIN clientQuotes' : clientQuotes'[q] = clientQuotes[q]
    BY <2>1
  <2>3. Matched(clientQuotes, quoteQueues)
    BY QueuesMatched DEF QuotesInv
  <2>4. k \in 1 .. Len(quoteQueues[e.client])
    BY <1>2, <2>1, LenProperties DEF QuotesInv, Q!TypeOK
  <2>5. quoteQueues' \in [Clients -> Seq(QuoteIds)] /\ Matched(clientQuotes', quoteQueues')
    BY <2>1, <2>2, <2>3, <2>4, MatchedRemove DEF QuotesInv
  <2>6. quoteNotify' \in Seq(Clients)
    BY <1>2, <2>1, AppendProperties DEF QuotesInv, Q!TypeOK
  <2>7. Q!TypeOK'
    BY <2>2, <2>5, <2>6 DEF QuotesInv, Q!TypeOK, manager
  <2>8. Q!QueuesMatchQuotes'
    BY <2>5, <2>7, MatchedMeans DEF Q!QueuesMatchQuotes, Q!TypeOK
  <2> QED  BY <1>6, <2>2, <2>7, <2>8, EventTaken DEF QuotesInv, Q!AnswersAwaited, manager
<1> QED  BY <1>7, <1>8

\* The thread handles one event of the manager.
LEMMA HandleKeeps == ASSUME QuotesInv, Q!HandleQuoteRequest, WaitPeriod \in Nat PROVE QuotesInv'
<1>1. /\ quoteEvents # <<>> /\ quoteEvents' = Tail(quoteEvents) /\ UNCHANGED manager
      /\ \/ Head(quoteEvents).type = "new" /\ Q!AddClientQuote(Head(quoteEvents))
         \/ Head(quoteEvents).type = "cancel" /\ Q!CancelClientQuote(Head(quoteEvents))
  BY DEF Q!HandleQuoteRequest, manager
<1> QED  BY <1>1, AddKeeps, RemoveKeeps

\* get_next_client_quote: who is served is first in the notifications, and has a
\* quote that is old enough.
LEMMA ServedFacts ==
    ASSUME Q!TypeOK
    PROVE  /\ Q!Served \in Seq(Clients) /\ Len(Q!Served) \in 0 .. Len(quoteNotify)
           /\ \A i \in 1 .. Len(Q!Served) : Q!Ready(Q!Served[i])
<1> DEFINE T == {k \in 0 .. Len(quoteNotify) : \A i \in 1 .. k : Q!Ready(quoteNotify[i])}
<1>1. Len(quoteNotify) \in Nat /\ \A i \in 1 .. Len(quoteNotify) : quoteNotify[i] \in Clients
  BY LenProperties, ElementOfSeq DEF Q!TypeOK
<1>2. 0 \in T /\ T \in SUBSET (0 .. Len(quoteNotify))
  BY <1>1
<1>3. Q!Max(T) \in T
  BY <1>1, <1>2, MaxFacts DEF Q!Max, Max
<1>4. Q!Served = SubSeq(quoteNotify, 1, Q!Max(T))
  BY DEF Q!Served
<1> DEFINE n == Q!Max(T)
<1>5. n \in 0 .. Len(quoteNotify) /\ \A i \in 1 .. n : Q!Ready(quoteNotify[i])
  BY <1>3
<1> HIDE DEF T
<1> HIDE DEF n
<1>6. /\ SubSeq(quoteNotify, 1, n) \in Seq(Clients)
      /\ Len(SubSeq(quoteNotify, 1, n)) = n
      /\ \A i \in 1 .. n : SubSeq(quoteNotify, 1, n)[i] = quoteNotify[i]
  BY <1>1, <1>5, SubSeqProperties
<1> QED  BY <1>4, <1>5, <1>6 DEF n

\* Whoever is served has its first quote in the map, and waits for it when no
\* event is on its way.
LEMMA FirstQuoteFacts ==
    ASSUME QuotesInv, quoteEvents = <<>>, NEW c \in Clients, Q!Ready(c)
    PROVE  /\ Q!FirstQuote(c).client = c /\ Q!FirstQuote(c).id \in QuoteIds
           /\ Q!FirstQuote(c).symbol \in Known
           /\ Q!BagIn(Q!FirstQuote(c), acked)
<1>1. quoteQueues[c] \in Seq(QuoteIds) /\ quoteQueues[c] # <<>>
  BY DEF Q!Ready, QuotesInv, Q!TypeOK
<1>2. /\ Head(quoteQueues[c]) \in QuoteIds /\ Head(quoteQueues[c]) = quoteQueues[c][1]
      /\ 1 \in 1 .. Len(quoteQueues[c])
  BY <1>1, HeadTailProperties, EmptySeq
<1>3. PICK id : id = Head(quoteQueues[c])
  OBVIOUS
<1>4. <<c, id>> \in DOMAIN clientQuotes
  BY <1>2, <1>3, QueuesMatched DEF QuotesInv, Matched
<1>5. clientQuotes[<<c, id>>].symbol \in Known
  BY <1>4 DEF QuotesInv, Q!TypeOK
<1>6. Q!FirstQuote(c) = Q!Waiting(c, id, clientQuotes[<<c, id>>].symbol)
  BY <1>3 DEF Q!FirstQuote, Q!Waiting
<1>7. Q!BagIn(Q!Waiting(c, id, clientQuotes[<<c, id>>].symbol), acked)
  <2>1. DOMAIN quoteEvents = {}
    OBVIOUS
  <2> QED  BY <1>4, <2>1 DEF QuotesInv, Awaited
<1> QED  BY <1>2, <1>3, <1>5, <1>6, <1>7 DEF Q!Waiting

\* What is left of the notifications is a queue of clients.
LEMMA PoppedTyped == ASSUME Q!TypeOK, Q!Popped PROVE quoteNotify' \in Seq(Clients)
<1>1. PICK m \in Nat : m = Len(Q!Served)
  BY ServedFacts, LenProperties DEF Q!TypeOK
<1>2. Len(quoteNotify) \in Nat /\ \A i \in 1 .. Len(quoteNotify) : quoteNotify[i] \in Clients
  BY LenProperties, ElementOfSeq DEF Q!TypeOK
<1>3. \A i \in m + 1 .. Len(quoteNotify) : quoteNotify[i] \in Clients
  BY <1>2
<1>4. SubSeq(quoteNotify, m + 1, Len(quoteNotify)) \in Seq(Clients)
  BY <1>2, <1>3, SubSeqProperties
<1> QED  BY <1>1, <1>4 DEF Q!Popped

\* The events that tell the solver which quotes were answered.
LEMMA AnswerEvents ==
    ASSUME QuotesInv, quoteEvents = <<>>, Q!Answer
    PROVE  /\ quoteEvents' \in Seq(QuoteEvent)
           /\ DOMAIN quoteEvents' = 1 .. Len(Q!Served)
           /\ \A i \in 1 .. Len(Q!Served) : Cancels(quoteEvents'[i], <<Q!Served[i], Q!FirstQuote(Q!Served[i]).id>>)
<1>1. /\ Q!Served \in Seq(Clients) /\ Len(Q!Served) \in Nat /\ DOMAIN Q!Served = 1 .. Len(Q!Served)
      /\ \A i \in 1 .. Len(Q!Served) : Q!Served[i] \in Clients /\ Q!Ready(Q!Served[i])
  BY ServedFacts, LenProperties, ElementOfSeq DEF QuotesInv, Q!TypeOK
<1>2. PICK n \in Nat : n = Len(Q!Served)
  BY <1>1
<1>3. PICK new : new = [i \in 1 .. n |-> [type |-> "cancel", client |-> Q!FirstQuote(Q!Served[i]).client,
                                         id |-> Q!FirstQuote(Q!Served[i]).id,
                                         symbol |-> Q!FirstQuote(Q!Served[i]).symbol]]
  OBVIOUS
<1>4. \A i \in 1 .. n : /\ new[i] \in QuoteEvent /\ new[i].type = "cancel"
                        /\ Q!Key(new[i]) = <<Q!Served[i], Q!FirstQuote(Q!Served[i]).id>>
  BY <1>1, <1>2, <1>3, FirstQuoteFacts DEF QuoteEvent, Q!Key
<1>5. DOMAIN new = 1 .. n
  BY <1>3
<1>6. new \in [1 .. n -> QuoteEvent]
  BY <1>3, <1>4
<1>7. new \in Seq(QuoteEvent)
  BY <1>6, SeqDef
<1>8. quoteEvents' = quoteEvents \o new
  <2>1. quoteEvents' = quoteEvents \o
            [i \in DOMAIN Q!Served |-> [type |-> "cancel", client |-> Q!FirstQuote(Q!Served[i]).client,
                                     id |-> Q!FirstQuote(Q!Served[i]).id,
                                     symbol |-> Q!FirstQuote(Q!Served[i]).symbol]]
    BY DEF Q!Answer
  <2> QED  BY <1>1, <1>2, <1>3, <2>1
<1>9. quoteEvents' = new
  BY <1>7, <1>8, ConcatEmptySeq
<1> QED  BY <1>2, <1>4, <1>5, <1>7, <1>9 DEF Cancels

\* solve_quotes and quotes_solved: everybody who is answered waits for it, since
\* the thread solves only when no event is left.
LEMMA SolveKeeps == ASSUME QuotesInv, Q!SolveQuotes PROVE QuotesInv'
<1>1. quoteEvents = <<>> /\ Q!Popped /\ Q!Answer /\ UNCHANGED <<clientQuotes, quoteQueues, stuck>>
  BY DEF Q!SolveQuotes, Q!Idle
<1>2. PICK quotes : quotes = {Q!FirstQuote(c) : c \in Q!Range(Q!Served)}
  OBVIOUS
<1>3. /\ requests' = [c \in Clients |-> [s \in Symbols |->
                         IF \E q \in quotes : q.client = c /\ q.symbol = s
                         THEN Q!NoQuote ELSE requests[c][s]]]
      /\ acked' = Q!(-)(acked, Q!SetToBag(quotes))
      /\ wrong' = wrong + Q!Cardinality({q \in quotes : ~Q!BagIn(q, acked)})
  BY <1>1, <1>2 DEF Q!Answer
<1>4. /\ \A i \in 1 .. Len(Q!Served) : Q!Served[i] \in Clients /\ Q!Ready(Q!Served[i])
      /\ Q!Range(Q!Served) = {Q!Served[i] : i \in 1 .. Len(Q!Served)}
  BY ServedFacts, LenProperties, ElementOfSeq DEF QuotesInv, Q!TypeOK, Q!Range
<1>5. \A q \in quotes : /\ Q!BagIn(q, acked)
                        /\ \E i \in 1 .. Len(Q!Served) : q.client = Q!Served[i] /\ q.id = Q!FirstQuote(Q!Served[i]).id
  BY <1>1, <1>2, <1>4, FirstQuoteFacts
<1>6. Q!AnswersAwaited'
  <2>1. {q \in quotes : ~Q!BagIn(q, acked)} = {}
    BY <1>5
  <2>2. Q!Cardinality({q \in quotes : ~Q!BagIn(q, acked)}) = 0
    <3>1. Q!Cardinality({}) = Cardinality({})
      BY DEF Q!Cardinality, Cardinality
    <3> QED  BY <2>1, <3>1, FS_EmptySet
  <2>3. wrong = 0
    BY DEF QuotesInv, Q!AnswersAwaited
  <2> QED  BY <1>3, <2>2, <2>3 DEF Q!AnswersAwaited
<1>7. Q!IsABag(acked') /\ \A x : Q!BagIn(x, acked) /\ x \notin quotes => Q!BagIn(x, acked')
  BY <1>3, BagLoses DEF QuotesInv, Q!TypeOK
<1>8. requests' \in [Clients -> [Symbols -> QuoteIds \cup {Q!NoQuote}]]
  BY <1>3 DEF QuotesInv, Q!TypeOK
<1>9. Q!TypeOK'
  BY <1>1, <1>7, <1>8, PoppedTyped DEF QuotesInv, Q!TypeOK
<1>10. Q!QueuesMatchQuotes'
  BY <1>1 DEF QuotesInv, Q!QueuesMatchQuotes
<1>11. /\ quoteEvents' \in Seq(QuoteEvent) /\ DOMAIN quoteEvents' = 1 .. Len(Q!Served)
       /\ \A i \in 1 .. Len(Q!Served) : Cancels(quoteEvents'[i], <<Q!Served[i], Q!FirstQuote(Q!Served[i]).id>>)
  BY <1>1, AnswerEvents
<1>12. ASSUME NEW k \in DOMAIN clientQuotes', \A i \in DOMAIN quoteEvents' : ~Cancels(quoteEvents'[i], k)
       PROVE  Q!BagIn(Q!Waiting(k[1], k[2], clientQuotes'[k].symbol), acked')
  <2>1. k \in DOMAIN clientQuotes /\ clientQuotes'[k] = clientQuotes[k]
    BY <1>1
  <2>2. k = <<k[1], k[2]>>
    BY <2>1 DEF QuotesInv, Q!TypeOK
  <2>3. Q!BagIn(Q!Waiting(k[1], k[2], clientQuotes[k].symbol), acked)
    <3>1. DOMAIN quoteEvents = {}
      BY <1>1
    <3> QED  BY <2>1, <3>1 DEF QuotesInv, Awaited
  <2>4. Q!Waiting(k[1], k[2], clientQuotes[k].symbol) \notin quotes
    <3> SUFFICES ASSUME NEW q \in quotes, q = Q!Waiting(k[1], k[2], clientQuotes[k].symbol) PROVE FALSE
      OBVIOUS
    <3>1. PICK i \in 1 .. Len(Q!Served) : q.client = Q!Served[i] /\ q.id = Q!FirstQuote(Q!Served[i]).id
      BY <1>5
    <3>2. q.client = k[1] /\ q.id = k[2]
      BY DEF Q!Waiting
    <3>3. Cancels(quoteEvents'[i], k)
      BY <1>11, <2>2, <3>1, <3>2
    <3> QED  BY <1>11, <1>12, <3>3
  <2> QED  BY <1>7, <2>1, <2>3, <2>4
<1>13. \A i \in DOMAIN quoteEvents' : quoteEvents'[i].type # "new"
  BY <1>11 DEF Cancels
<1>14. Awaited'
  BY <1>12, <1>13 DEF Awaited
<1> QED  BY <1>6, <1>9, <1>10, <1>11, <1>14 DEF QuotesInv

\* A thread that waits for its own lock answers nobody any more.
LEMMA TwiceKeeps == ASSUME QuotesInv, Q!SolveTwice PROVE QuotesInv'
<1>1. /\ Q!Popped /\ stuck' = TRUE
      /\ UNCHANGED <<requests, quoteEvents, clientQuotes, quoteQueues, acked, wrong>>
  BY DEF Q!SolveTwice
<1>2. Q!TypeOK'
  BY <1>1, PoppedTyped DEF QuotesInv, Q!TypeOK
<1>3. Awaited'
  BY <1>1 DEF QuotesInv, Awaited
<1> QED  BY <1>1, <1>2, <1>3, QueuesKept DEF QuotesInv

\* Time changes the age of quotes only.
LEMMA TickKeeps == ASSUME QuotesInv, Q!Tick, WaitPeriod \in Nat PROVE QuotesInv'
<1>1. UNCHANGED <<requests, quoteEvents, quoteQueues, quoteNotify, stuck, acked, wrong>>
  BY DEF Q!Tick
<1>2. /\ DOMAIN clientQuotes' = DOMAIN clientQuotes
      /\ \A k \in DOMAIN clientQuotes :
            /\ clientQuotes'[k] \in [symbol : Known, age : 0 .. WaitPeriod]
            /\ clientQuotes'[k].symbol = clientQuotes[k].symbol
  <2>1. DOMAIN clientQuotes' = DOMAIN clientQuotes
    BY DEF Q!Tick
  <2>2. ASSUME NEW k \in DOMAIN clientQuotes
        PROVE  /\ clientQuotes'[k] \in [symbol : Known, age : 0 .. WaitPeriod]
               /\ clientQuotes'[k].symbol = clientQuotes[k].symbol
    <3>1. clientQuotes[k] \in [symbol : Known, age : 0 .. WaitPeriod]
      BY DEF QuotesInv, Q!TypeOK
    <3>2. PICK a : a = IF clientQuotes[k].age < WaitPeriod THEN clientQuotes[k].age + 1
                       ELSE clientQuotes[k].age
      OBVIOUS
    <3>3. a \in 0 .. WaitPeriod
      BY <3>1, <3>2
    <3>4. clientQuotes'[k] = [clientQuotes[k] EXCEPT !.age = a]
      BY <3>2 DEF Q!Tick
    <3> QED  BY <3>1, <3>3, <3>4
  <2> QED  BY <2>1, <2>2
<1>3. Q!TypeOK'
  BY <1>1, <1>2 DEF QuotesInv, Q!TypeOK
<1>4. Awaited'
  BY <1>1, <1>2 DEF QuotesInv, Awaited
<1>5. Q!QueuesMatchQuotes'
  BY <1>1, <1>2 DEF QuotesInv, Q!QueuesMatchQuotes
<1> QED  BY <1>1, <1>3, <1>4, <1>5 DEF QuotesInv, Q!AnswersAwaited

-----------------------------------------------------------------------------
(* The theorems.                                                           *)

\* There are no quotes at the start.
LEMMA QuotesInit == ASSUME Q!Init, WaitPeriod \in Nat PROVE QuotesInv
<1>1. /\ DOMAIN clientQuotes = {} /\ quoteEvents \in Seq(QuoteEvent) /\ DOMAIN quoteEvents = {}
      /\ quoteQueues \in [Clients -> Seq(QuoteIds)] /\ \A c \in Clients : Len(quoteQueues[c]) = 0
      /\ quoteNotify \in Seq(Clients)
  BY EmptySeq DEF Q!Init
<1>2. requests \in [Clients -> [Symbols -> QuoteIds \cup {Q!NoQuote}]]
  BY DEF Q!Init
<1>3. Q!IsABag(acked)
  BY DEF Q!Init, Q!EmptyBag, Q!SetToBag, Q!IsABag
<1>4. Q!TypeOK
  BY <1>1, <1>2, <1>3 DEF Q!Init, Q!TypeOK
<1>5. Matched(clientQuotes, quoteQueues)
  BY <1>1 DEF Matched
<1>6. Q!QueuesMatchQuotes
  BY <1>4, <1>5, QueuesMatched
<1>7. Awaited /\ Q!AnswersAwaited
  BY <1>1 DEF Awaited, Q!AnswersAwaited, Q!Init
<1> QED  BY <1>1, <1>4, <1>6, <1>7 DEF QuotesInv

\* Every message, every event and every turn of the thread keeps the invariant.
LEMMA QuotesStep == ASSUME QuotesInv, [Q!Next]_(Q!vars), WaitPeriod \in Nat PROVE QuotesInv'
<1>1. CASE \E c \in Clients, s \in Symbols, sell \in BOOLEAN : Q!RefuseQuote(c, s, sell)
  <2>1. UNCHANGED <<requests, quoteEvents, acked, Q!solving>>
    BY <1>1 DEF Q!RefuseQuote, Q!Message
  <2>2. Q!TypeOK' /\ Awaited'
    BY <2>1 DEF QuotesInv, Q!TypeOK, Awaited, Q!solving
  <2> QED  BY <2>1, <2>2, QueuesKept DEF QuotesInv, Q!solving
<1>2. CASE \E c \in Clients, s \in Symbols : \E id \in QuoteIds :
              Q!NewQuoteRequest(c, id, s) \/ Q!CancelQuoteRequest(c, id, s)
  BY <1>2, NewKeeps, CancelKeeps
<1>3. CASE Q!HandleQuoteRequest
  BY <1>3, HandleKeeps
<1>4. CASE Q!SolveQuotes \/ Q!SolveTwice \/ Q!Tick
  BY <1>4, SolveKeeps, TwiceKeeps, TickKeeps
<1>5. CASE UNCHANGED Q!vars
  <2>1. Q!TypeOK' /\ Awaited'
    BY <1>5 DEF Q!vars, QuotesInv, Q!TypeOK, Awaited
  <2> QED  BY <1>5, <2>1, QueuesKept DEF Q!vars, QuotesInv
<1> QED  BY <1>1, <1>2, <1>3, <1>4, <1>5 DEF Q!Next

(***************************************************************************)
(* For every set of clients, quote ids and symbols and every wait period:  *)
(* somebody waits for every quote that is served, whatever is cancelled,   *)
(* requested again or refused in between.                                  *)
(***************************************************************************)
THEOREM QuotesInvHolds == ASSUME WaitPeriod \in Nat PROVE Q!Spec => []QuotesInv
<1>1. Q!Init => QuotesInv
  BY QuotesInit
<1>2. QuotesInv /\ [Q!Next]_(Q!vars) => QuotesInv'
  BY QuotesStep
<1> QED  BY <1>1, <1>2, PTL DEF Q!Spec

(***************************************************************************)
(* Manager, queues and clients agree on which quotes wait for an answer:   *)
(* no quote is answered after its cancel or twice, and the queues hold     *)
(* what the map holds (run_quotes_backend, solve_quotes, quotes_solved).   *)
(***************************************************************************)
THEOREM QuotesHold == ASSUME WaitPeriod \in Nat PROVE Q!Spec => []Q!QuotesAgree
<1>1. QuotesInv => Q!QuotesAgree
  BY DEF QuotesInv, Q!QuotesAgree
<1> QED  BY <1>1, QuotesInvHolds, PTL

-----------------------------------------------------------------------------
(* Sessions and their streams.                                             *)

\* A session tells that it is disconnected when it ends, and subscribes its polls
\* just before it runs. One that ended after that has closed its websocket stream.
Sessions ==
    /\ chainSession \in [Accounts -> {"none", "connecting", "subscribing", "running", "ended"}]
    /\ connection \in [Accounts -> {"none", "connected", "disconnected"}]
    /\ streaming \in [Accounts -> BOOLEAN]
    /\ subscribedAt = [a \in Accounts |-> subscribedAt[a]]
    /\ \A a \in Accounts :
          /\ connection[a] = "disconnected" => chainSession[a] = "ended"
          /\ subscribedAt[a] # 0 => chainSession[a] \in {"running", "ended"}
          /\ connection[a] = "disconnected" /\ subscribedAt[a] # 0 => streaming[a] = FALSE

Quiet == Sessions /\ IsABag(deposited)

\* A notification adds one copy for every block it is about.
LEMMA ToldMore ==
    ASSUME IsABag(deposited), NEW a, NEW by, NEW blocks, C!Deposit(a, by, blocks)
    PROVE  /\ IsABag(deposited')
           /\ \A c, via, b : C!Told(c, via, b)' = C!Told(c, via, b)
                                + IF c = a /\ via = by /\ b \in blocks THEN 1 ELSE 0
<1> DEFINE new == {<<a, by, b>> : b \in blocks}
<1>1. deposited' = deposited (+) SetToBag(new)
  BY DEF C!Deposit, (+), C!(+), SetToBag, C!SetToBag, IsABag, C!IsABag, BagIn, C!BagIn,
         BagToSet, C!BagToSet
<1>2. \A c, via, b : <<c, via, b>> \in new <=> c = a /\ via = by /\ b \in blocks
  OBVIOUS
<1> HIDE DEF new
<1>3. /\ IsABag(deposited (+) SetToBag(new))
      /\ \A x : BagIn(x, deposited (+) SetToBag(new)) <=> BagIn(x, deposited) \/ x \in new
      /\ \A x : BagIn(x, deposited) \/ x \in new => 
            (deposited (+) SetToBag(new))[x] = (IF BagIn(x, deposited) THEN deposited[x] ELSE 0)
                                                + (IF x \in new THEN 1 ELSE 0)
  BY DEF IsABag, C!IsABag, SetToBag, C!SetToBag, (+), C!(+), BagIn, C!BagIn, BagToSet, C!BagToSet
<1>4. \A x : BagIn(x, deposited) => deposited[x] \in Nat
  BY DEF IsABag, C!IsABag, BagIn, C!BagIn, BagToSet, C!BagToSet
<1> DEFINE count(x, B) == IF BagIn(x, B) THEN B[x] ELSE 0
<1>5. \A x : count(x, deposited') = count(x, deposited) + IF x \in new THEN 1 ELSE 0
  BY <1>1, <1>3, <1>4
<1> HIDE DEF count
<1>6. \A c, via, b : C!Told(c, via, b) = count(<<c, via, b>>, deposited)
                     /\ C!Told(c, via, b)' = count(<<c, via, b>>, deposited')
  BY DEF C!Told, count, BagIn, C!BagIn, BagToSet, C!BagToSet
<1> QED  BY <1>1, <1>2, <1>3, <1>5, <1>6

\* What nobody is told of stays as it is.
LEMMA ToldSame == UNCHANGED deposited => \A c, via, b : C!Told(c, via, b)' = C!Told(c, via, b)
  BY DEF C!Told

\* Who may report: a session that runs, and a stream whose task does.
LEMMA Reports ==
    ASSUME Quiet, [C!Next]_(C!vars)
    PROVE  /\ IsABag(deposited')
           /\ \/ UNCHANGED deposited
              \/ \E a \in Accounts, by \in {"poll", "stream"} : \E blocks :
                    /\ C!Deposit(a, by, blocks)
                    /\ by = "poll" => chainSession[a] = "running"
                    /\ by = "stream" => streaming[a] /\ blocks = {Head(streamed[a])}
<1>1. IsABag(deposited)
  BY DEF Quiet
<1>2. ASSUME NEW a \in Accounts, NEW by \in {"poll", "stream"}, NEW blocks, C!Deposit(a, by, blocks),
             by = "poll" => chainSession[a] = "running",
             by = "stream" => streaming[a] /\ blocks = {Head(streamed[a])}
      PROVE  /\ IsABag(deposited')
             /\ \E c \in Accounts, via \in {"poll", "stream"} : \E told :
                    /\ C!Deposit(c, via, told)
                    /\ via = "poll" => chainSession[c] = "running"
                    /\ via = "stream" => streaming[c] /\ told = {Head(streamed[c])}
  BY <1>1, <1>2, ToldMore
<1>3. CASE UNCHANGED C!vars
  BY <1>1, <1>3 DEF C!vars
<1>4. CASE \/ \E withDeposit \in BOOLEAN : C!Mine(withDeposit)
           \/ C!PollOnce \/ C!MintIndex \/ C!TransferToAccount \/ C!CustodyToAddress
  BY <1>1, <1>4 DEF C!Mine, C!PollOnce, C!MintIndex, C!TransferToAccount, C!CustodyToAddress,
         C!SendCommand
<1>5. ASSUME NEW a \in Accounts,
             \/ C!AddSession(a) \/ C!StartStep(a) \/ C!StopSession(a)
             \/ C!HandleStreamed(a) \/ C!StreamClosed(a)
             \/ C!PollLogEvents(a) \/ C!PollWithoutHead(a) \/ C!PollBreaksOff(a)
             \/ C!CommandStep(a)
      PROVE  /\ IsABag(deposited')
             /\ \/ UNCHANGED deposited
                \/ \E c \in Accounts, via \in {"poll", "stream"} : \E told :
                    /\ C!Deposit(c, via, told)
                    /\ via = "poll" => chainSession[c] = "running"
                    /\ via = "stream" => streaming[c] /\ told = {Head(streamed[c])}
  <2>1. CASE C!AddSession(a) \/ C!StopSession(a) \/ C!StreamClosed(a) \/ C!PollWithoutHead(a)
    BY <1>1, <2>1 DEF C!AddSession, C!StopSession, C!StreamClosed, C!PollWithoutHead
  <2>2. CASE C!StartStep(a)
    BY <1>1, <2>2 DEF C!StartStep, C!Connect, C!SubscribeStreaming, C!SubscribePolling,
           C!FailToStart
  <2>3. CASE C!CommandStep(a)
    BY <1>1, <2>3 DEF C!CommandStep, C!ForwardPoll, C!CompleteMint, C!CompleteRoute,
           C!CompleteTransfer, C!Complete,
       C!RefuseCommand, C!FailAttempt, C!FailTransfer, C!Execute
  <2>4. CASE C!HandleStreamed(a)
    <3>1. C!Deposit(a, "stream", {Head(streamed[a])}) /\ streaming[a]
      BY <2>4 DEF C!HandleStreamed
    <3> QED  BY <3>1, <1>2
  <2>5. CASE C!PollLogEvents(a)
    <3>1. C!Deposit(a, "poll", C!Polled(a)) /\ chainSession[a] = "running"
      BY <2>5 DEF C!PollLogEvents, C!Poll
    <3> QED  BY <3>1, <1>2
  <2>6. CASE C!PollBreaksOff(a)
    <3>1. chainSession[a] = "running" /\ \E told : C!Deposit(a, "poll", told)
      BY <2>6 DEF C!PollBreaksOff, C!Poll
    <3> QED  BY <3>1, <1>2
  <2> QED  BY <1>5, <2>1, <2>2, <2>3, <2>4, <2>5, <2>6
<1> QED  BY <1>3, <1>4, <1>5 DEF C!Next

\* What no action but those that start or end a session or a stream touches.
sessions == <<chainSession, connection, streaming, subscribedAt>>

\* Start and end of sessions and streams, and the rest.
LEMMA SessionsKept == Sessions /\ [C!Next]_(C!vars) => Sessions'
<1> SUFFICES ASSUME Sessions, [C!Next]_(C!vars) PROVE Sessions'
  OBVIOUS
<1>1. CASE UNCHANGED sessions
  BY <1>1 DEF Sessions, sessions
<1>2. CASE UNCHANGED C!vars
  BY <1>1, <1>2 DEF sessions, C!vars
<1>3. CASE \/ \E withDeposit \in BOOLEAN : C!Mine(withDeposit)
           \/ C!PollOnce \/ C!MintIndex \/ C!TransferToAccount \/ C!CustodyToAddress
  BY <1>1, <1>3 DEF C!Mine, C!PollOnce, C!MintIndex, C!TransferToAccount, C!CustodyToAddress,
         C!SendCommand,
     sessions, C!polling, C!stream
<1>4. ASSUME NEW a \in Accounts,
             \/ C!HandleStreamed(a) \/ C!PollLogEvents(a) \/ C!PollWithoutHead(a) \/ C!PollBreaksOff(a)
             \/ C!CommandStep(a)
      PROVE  Sessions'
  <2>1. CASE C!HandleStreamed(a)
    BY <1>1, <2>1 DEF C!HandleStreamed, sessions, C!polling
  <2>2. CASE C!PollLogEvents(a) \/ C!PollWithoutHead(a) \/ C!PollBreaksOff(a)
    BY <1>1, <2>2 DEF C!PollLogEvents, C!PollWithoutHead, C!PollBreaksOff, C!Poll, sessions,
           C!stream
  <2>3. CASE C!CommandStep(a)
    BY <1>1, <2>3 DEF C!CommandStep, C!ForwardPoll, C!CompleteMint, C!CompleteRoute,
           C!CompleteTransfer, C!Complete,
       C!RefuseCommand, C!FailAttempt, C!FailTransfer, C!Execute, sessions, C!polling, C!stream
  <2> QED  BY <1>4, <2>1, <2>2, <2>3
<1>5. ASSUME NEW a \in Accounts, C!AddSession(a) PROVE Sessions'
  BY <1>5 DEF C!AddSession, C!polling, C!stream, Sessions
<1>6. ASSUME NEW a \in Accounts, C!Connect(a) PROVE Sessions'
  BY <1>6 DEF C!Connect, C!polling, C!stream, Sessions
<1>7. ASSUME NEW a \in Accounts, C!SubscribeStreaming(a) PROVE Sessions'
  BY <1>7 DEF C!SubscribeStreaming, C!polling, Sessions
<1>8. ASSUME NEW a \in Accounts, C!SubscribePolling(a) PROVE Sessions'
  BY <1>8 DEF C!SubscribePolling, C!stream, Sessions
<1>9. ASSUME NEW a \in Accounts, C!FailToStart(a) PROVE Sessions'
  BY <1>9 DEF C!FailToStart, C!Ends, C!stream, Sessions
<1>10. ASSUME NEW a \in Accounts, C!StopSession(a) PROVE Sessions'
  BY <1>10 DEF C!StopSession, C!Ends, Sessions
<1>11. ASSUME NEW a \in Accounts, C!StreamClosed(a) PROVE Sessions'
  BY <1>11 DEF C!StreamClosed, C!polling, Sessions
<1> QED
  BY <1>2, <1>3, <1>4, <1>5, <1>6, <1>7, <1>8, <1>9, <1>10, <1>11 DEF C!Next, C!StartStep

\* Sessions, their streams and the notifications are as Quiet says in every
\* behaviour of the connector (session.rs, issuer_stream.rs).
THEOREM QuietHolds == C!Spec => []Quiet
<1>1. C!Init => Quiet
  BY DEF C!Init, Quiet, Sessions, EmptyBag, C!EmptyBag, SetToBag, C!SetToBag, IsABag, C!IsABag
<1>2. Quiet /\ [C!Next]_(C!vars) => Quiet'
  BY SessionsKept, Reports DEF Quiet
<1> QED  BY <1>1, <1>2, PTL DEF C!Spec

\* A session that was stopped reports no deposit any more: it waits for both of its
\* streams before it says that it is disconnected (session.rs).
THEOREM StaysQuiet == C!Spec => C!QuietWhenStopped
<1> DEFINE Silent == \A a \in Accounts : connection[a] = "disconnected" /\ subscribedAt[a] # 0 =>
                        \A b \in deposits', by \in {"stream", "poll"} :
                            C!Told(a, by, b)' = C!Told(a, by, b)
<1>1. Quiet /\ [C!Next]_(C!vars) => [Silent]_(C!vars)
  <2> SUFFICES ASSUME Quiet, [C!Next]_(C!vars), NEW a \in Accounts,
                      connection[a] = "disconnected", subscribedAt[a] # 0
               PROVE  \A b, by : C!Told(a, by, b)' = C!Told(a, by, b)
    OBVIOUS
  <2>1. CASE UNCHANGED deposited
    BY <2>1, ToldSame
  <2>2. ASSUME NEW c \in Accounts, NEW via \in {"poll", "stream"}, NEW blocks,
               C!Deposit(c, via, blocks),
               via = "poll" => chainSession[c] = "running", via = "stream" => streaming[c]
        PROVE  \A b, by : C!Told(a, by, b)' = C!Told(a, by, b)
    <3>1. c # a
      BY <2>2 DEF Quiet, Sessions
    <3>2. \A b, by : C!Told(a, by, b)' = C!Told(a, by, b) + 0
      BY <2>2, <3>1, ToldMore DEF Quiet
    <3>3. \A b, by : C!Told(a, by, b) \in Nat
      BY DEF C!Told, Quiet, IsABag, C!IsABag, BagIn, C!BagIn, BagToSet, C!BagToSet
    <3> QED  BY <3>2, <3>3
  <2> QED  BY <2>1, <2>2, Reports
<1> HIDE DEF Silent
<1> QED  BY <1>1, QuietHolds, PTL DEF C!Spec, C!QuietWhenStopped, Silent

-----------------------------------------------------------------------------
(* Commands and their answers.                                             *)

Kinds == {"poll", "mint", "transfer", "route"}
Answers == {<<>>, <<"gas_used">>, <<"error">>, <<"gas_used", "error">>, <<"refused">>}

Command == [id : 0 .. MaxSends, kind : Kinds]

CommandTypes ==
    /\ MaxSends \in Nat /\ sends \in 0 .. MaxSends
    /\ commandQueue \in [Accounts -> Seq(Command)]
    /\ executed \in [C!Commands -> Nat]
    /\ commandAnswer \in [C!Commands -> Answers]

\* A command in a queue was sent and waits for its answer.
QueuedUnanswered ==
    \A a \in Accounts : \A i \in DOMAIN commandQueue[a] :
        /\ commandQueue[a][i].kind = "poll" <=> commandQueue[a][i].id = 0
        /\ commandQueue[a][i].id <= sends
        /\ commandQueue[a][i].id # 0 => commandAnswer[commandQueue[a][i].id] = <<>>

\* It is in one queue, once.
QueuedOnce ==
    \A a, c \in Accounts : \A i \in DOMAIN commandQueue[a] : \A j \in DOMAIN commandQueue[c] :
        commandQueue[a][i].id = commandQueue[c][j].id =>
            commandQueue[a][i].id = 0 \/ (a = c /\ i = j)

\* Gas is reported only of what the chain executed, and nothing of what was not sent.
AnswersTrue ==
    \A c \in C!Commands : /\ "gas_used" \in Range(commandAnswer[c]) => executed[c] > 0
                          /\ c > sends => commandAnswer[c] = <<>>

Commanded == CommandTypes /\ QueuedUnanswered /\ QueuedOnce /\ AnswersTrue

\* What the types of the commands say, piece by piece.
LEMMA CommandFacts ==
    ASSUME Commanded
    PROVE  /\ MaxSends \in Nat /\ sends \in 0 .. MaxSends
           /\ \A a \in Accounts : commandQueue[a] \in Seq(Command)
           /\ \A c \in C!Commands : executed[c] \in Nat /\ commandAnswer[c] \in Answers
<1>1. CommandTypes
  BY DEF Commanded
<1>2. MaxSends \in Nat /\ sends \in 0 .. MaxSends
  BY <1>1, Zenon DEF CommandTypes
<1>3. \A a \in Accounts : commandQueue[a] \in Seq(Command)
  BY <1>1, Zenon DEF CommandTypes
<1>4. \A c \in C!Commands : executed[c] \in Nat /\ commandAnswer[c] \in Answers
  BY <1>1, Zenon DEF CommandTypes
<1> QED  BY <1>2, <1>3, <1>4

\* The answers of a command that was answered as Commanded says are hops that the
\* router can account for.
LEMMA HopsFollow == Commanded => C!HopsSettled
<1> SUFFICES ASSUME Commanded, NEW c \in C!Commands
             PROVE  /\ Len(C!HopComplete(c)) <= 1 \/ C!HopComplete(c) = <<"Success", "Failure">>
                    /\ "Success" \in Range(C!HopComplete(c)) => executed[c] > 0
  BY DEF C!HopsSettled, Range, C!Range
<1>1. PICK ans \in Answers : ans = commandAnswer[c]
  BY CommandFacts
<1>2. C!HopComplete(c) = [i \in DOMAIN ans |-> IF ans[i] = "gas_used" THEN "Success" ELSE "Failure"]
  BY <1>1 DEF C!HopComplete
<1>3. PICK hops : hops = C!HopComplete(c)
  OBVIOUS
<1>4. ASSUME "Success" \in Range(hops) PROVE executed[c] > 0
  <2>1. PICK i \in DOMAIN ans : hops[i] = "Success"
    BY <1>2, <1>3, <1>4 DEF Range, C!Range
  <2>2. ans[i] = "gas_used"
    BY <1>2, <1>3, <2>1
  <2> QED  BY <1>1, <2>2 DEF Commanded, AnswersTrue, Range, C!Range
<1>5. ASSUME ans = <<>> PROVE hops = <<>>
  BY <1>2, <1>3, <1>5
<1>6. ASSUME NEW x, ans = <<x>> PROVE Len(hops) = 1
  <2>1. DOMAIN ans = 1 .. 1
    BY <1>6
  <2>2. hops \in [1 .. 1 -> {"Success", "Failure"}]
    BY <1>2, <1>3, <2>1
  <2> QED  BY <2>2
<1>7. ASSUME ans = <<"gas_used", "error">> PROVE hops = <<"Success", "Failure">>
  <2>1. DOMAIN ans = 1 .. 2 /\ ans[1] = "gas_used" /\ ans[2] = "error"
    BY <1>7
  <2>2. hops \in [1 .. 2 -> {"Success", "Failure"}] /\ hops[1] = "Success" /\ hops[2] = "Failure"
    BY <1>2, <1>3, <2>1
  <2> QED  BY <2>2
<1>8. Len(hops) <= 1 \/ hops = <<"Success", "Failure">>
  <2>1. ans = <<>> \/ ans = <<"gas_used", "error">> \/ \E x : ans = <<x>>
    BY DEF Answers
  <2>2. ans = <<>> => Len(hops) = 0
    BY <1>5
  <2>3. (\E x : ans = <<x>>) => Len(hops) = 1
    BY <1>6
  <2>4. ans = <<"gas_used", "error">> => hops = <<"Success", "Failure">>
    BY <1>7
  <2>5. Len(hops) = 0 \/ Len(hops) = 1 \/ hops = <<"Success", "Failure">>
    BY <2>1, <2>2, <2>3, <2>4, Zenon
  <2>6. \A n : n = 0 \/ n = 1 => n <= 1
    OBVIOUS
  <2> QED  BY <2>5, <2>6, Zenon
<1> QED  BY <1>3, <1>4, <1>8

\* What is in the queues.
LEMMA QueueFacts ==
    ASSUME Commanded, NEW a \in Accounts
    PROVE  /\ commandQueue[a] \in Seq(Command)
           /\ Len(commandQueue[a]) \in Nat /\ DOMAIN commandQueue[a] = 1 .. Len(commandQueue[a])
           /\ \A i \in DOMAIN commandQueue[a] :
                 commandQueue[a][i] \in Command /\ commandQueue[a][i].id \in 0 .. sends
           /\ commandQueue[a] # <<>> => /\ 1 \in DOMAIN commandQueue[a]
                                        /\ Head(commandQueue[a]) = commandQueue[a][1]
<1>1. PICK q \in Seq(Command) : q = commandQueue[a]
  BY CommandFacts
<1>2. Len(q) \in Nat /\ DOMAIN q = 1 .. Len(q) /\ (q # <<>> => Len(q) # 0 /\ Head(q) = q[1])
  BY LenProperties, EmptySeq
<1>3. ASSUME NEW i \in DOMAIN q PROVE q[i] \in Command /\ q[i].id \in 0 .. sends
  <2>1. q[i] \in Command
    BY <1>2, <1>3, ElementOfSeq
  <2>2. q[i].id <= sends
    BY <1>1, <1>3 DEF Commanded, QueuedUnanswered
  <2>3. q[i].id \in 0 .. MaxSends /\ sends \in 0 .. MaxSends
    BY <2>1, CommandFacts DEF Command
  <2> QED  BY <2>1, <2>2, <2>3
<1> QED  BY <1>1, <1>2, <1>3

\* Queues of commands that lose what is in them, or their first command.
LEMMA QueuesLose ==
    ASSUME Commanded, UNCHANGED sends, CommandTypes',
           NEW a \in Accounts, NEW k \in {0, 1},
           \A d \in Accounts : d # a => commandQueue'[d] = commandQueue[d],
           \A i \in DOMAIN commandQueue'[a] : /\ i + k \in DOMAIN commandQueue[a] /\ i \in Nat \ {0}
                                              /\ commandQueue'[a][i] = commandQueue[a][i + k],
           \A c \in C!Commands : executed'[c] >= executed[c],
           \A c \in C!Commands :
              \/ commandAnswer'[c] = commandAnswer[c]
              \/ /\ k = 1 /\ commandQueue[a] # <<>> /\ Head(commandQueue[a]).id = c
                 /\ "gas_used" \in Range(commandAnswer'[c]) => executed'[c] > 0
    PROVE  Commanded'
<1>1. ASSUME NEW d \in Accounts, NEW i \in DOMAIN commandQueue'[d]
      PROVE  \E j \in DOMAIN commandQueue[d] : /\ commandQueue'[d][i] = commandQueue[d][j]
                                               /\ i \in Nat \ {0} /\ j = IF d = a THEN i + k ELSE i
  <2>1. CASE d = a
    BY <1>1, <2>1
  <2>2. CASE d # a
    BY <1>1, <2>2, QueueFacts
  <2> QED  BY <2>1, <2>2
<1>2. QueuedUnanswered'
  <2> SUFFICES ASSUME NEW d \in Accounts, NEW i \in DOMAIN commandQueue'[d]
               PROVE  /\ commandQueue'[d][i].kind = "poll" <=> commandQueue'[d][i].id = 0
                      /\ commandQueue'[d][i].id <= sends
                      /\ commandQueue'[d][i].id # 0 => commandAnswer'[commandQueue'[d][i].id] = <<>>
    BY DEF QueuedUnanswered
  <2>1. PICK j \in DOMAIN commandQueue[d] : /\ commandQueue'[d][i] = commandQueue[d][j]
                                            /\ i \in Nat \ {0} /\ j = IF d = a THEN i + k ELSE i
    BY <1>1
  <2>2. /\ commandQueue[d][j].kind = "poll" <=> commandQueue[d][j].id = 0
        /\ commandQueue[d][j].id <= sends
        /\ commandQueue[d][j].id # 0 => commandAnswer[commandQueue[d][j].id] = <<>>
    BY DEF Commanded, QueuedUnanswered
  <2>3. ASSUME commandQueue[d][j].id # 0
        PROVE  commandAnswer'[commandQueue[d][j].id] = <<>>
    <3>1. PICK c \in C!Commands : c = commandQueue[d][j].id
      <4>1. /\ commandQueue[d][j].id \in 0 .. sends
            /\ sends \in 0 .. MaxSends /\ MaxSends \in Nat
        BY QueueFacts, CommandFacts
      <4> QED  BY <2>3, <4>1 DEF C!Commands
    <3>2. CASE commandAnswer'[c] = commandAnswer[c]
      BY <2>2, <2>3, <3>1, <3>2
    <3>3. CASE k = 1 /\ commandQueue[a] # <<>> /\ Head(commandQueue[a]).id = c
      <4>1. 1 \in DOMAIN commandQueue[a] /\ commandQueue[a][1].id = commandQueue[d][j].id
        BY <3>1, <3>3, QueueFacts
      <4>2. d = a /\ j = 1
        BY <2>3, <4>1 DEF Commanded, QueuedOnce
      <4> QED  BY <2>1, <3>3, <4>2
    <3> QED  BY <3>2, <3>3
  <2> QED  BY <2>1, <2>2, <2>3
<1>3. QueuedOnce'
  <2> SUFFICES ASSUME NEW d \in Accounts, NEW c \in Accounts, NEW i \in DOMAIN commandQueue'[d],
                      NEW j \in DOMAIN commandQueue'[c],
                      commandQueue'[d][i].id = commandQueue'[c][j].id
               PROVE  commandQueue'[d][i].id = 0 \/ (d = c /\ i = j)
    BY DEF QueuedOnce
  <2>1. PICK m \in DOMAIN commandQueue[d] : /\ commandQueue'[d][i] = commandQueue[d][m]
                                            /\ i \in Nat \ {0} /\ m = IF d = a THEN i + k ELSE i
    BY <1>1
  <2>2. PICK n \in DOMAIN commandQueue[c] : /\ commandQueue'[c][j] = commandQueue[c][n]
                                            /\ j \in Nat \ {0} /\ n = IF c = a THEN j + k ELSE j
    BY <1>1
  <2>3. commandQueue[d][m].id = 0 \/ (d = c /\ m = n)
    BY <2>1, <2>2 DEF Commanded, QueuedOnce
  <2>4. d = c /\ m = n => i = j
    BY <2>1, <2>2
  <2> QED  BY <2>1, <2>3, <2>4
<1>4. AnswersTrue'
  <2> SUFFICES ASSUME NEW c \in C!Commands
               PROVE  /\ "gas_used" \in Range(commandAnswer'[c]) => executed'[c] > 0
                      /\ c > sends => commandAnswer'[c] = <<>>
    BY DEF AnswersTrue
  <2>1. /\ "gas_used" \in Range(commandAnswer[c]) => executed[c] > 0
        /\ c > sends => commandAnswer[c] = <<>>
    BY DEF Commanded, AnswersTrue
  <2>2. executed'[c] \in Nat /\ executed[c] \in Nat /\ executed'[c] >= executed[c]
    <3>1. executed'[c] \in Nat
      BY DEF CommandTypes
    <3> QED  BY <3>1, CommandFacts
  <2>3. CASE commandAnswer'[c] = commandAnswer[c]
    <3>1. executed[c] > 0 => executed'[c] > 0
      BY <2>2
    <3> QED  BY <2>1, <2>3, <3>1
  <2>4. CASE /\ k = 1 /\ commandQueue[a] # <<>> /\ Head(commandQueue[a]).id = c
             /\ "gas_used" \in Range(commandAnswer'[c]) => executed'[c] > 0
    <3>1. c \in 0 .. sends /\ sends \in 0 .. MaxSends
      BY <2>4, QueueFacts, CommandFacts
    <3>2. ~(c > sends)
      BY <3>1
    <3> QED  BY <2>4, <3>2
  <2> QED  BY <2>3, <2>4
<1> QED  BY <1>2, <1>3, <1>4 DEF Commanded

\* A poll or a command joins the queue of a session.
LEMMA QueuesGain ==
    ASSUME Commanded, NEW a \in Accounts, NEW id \in 0 .. MaxSends,
           NEW kind \in Kinds, C!Queue(a, id, kind), UNCHANGED <<executed, commandAnswer>>,
           \/ id = 0 /\ kind = "poll" /\ sends' = sends
           \/ id = sends + 1 /\ kind # "poll" /\ sends' = sends + 1
    PROVE  Commanded'
<1>1. PICK e \in Command : e = [id |-> id, kind |-> kind] /\ e.id = id /\ e.kind = kind
  <2>1. [id |-> id, kind |-> kind] \in Command
    BY DEF Command
  <2> QED  BY <2>1
<1>2. PICK q \in Seq(Command) : q = commandQueue[a]
  BY CommandFacts
<1>3. PICK r \in Seq(Command) : /\ r = Append(q, e)
                                /\ DOMAIN q = 1 .. Len(q) /\ Len(q) \in Nat
                                /\ DOMAIN r = 1 .. Len(q) + 1
                                /\ \A i \in DOMAIN q : r[i] = q[i]
                                /\ r[Len(q) + 1] = e
  <2> DEFINE t == Append(q, e)
  <2>1. /\ t \in Seq(Command) /\ Len(t) = Len(q) + 1
        /\ \A i \in 1 .. Len(q) : t[i] = q[i]
        /\ t[Len(q) + 1] = e
    BY AppendProperties
  <2>2. DOMAIN q = 1 .. Len(q) /\ Len(q) \in Nat /\ DOMAIN t = 1 .. Len(t)
    BY <2>1, LenProperties
  <2> HIDE DEF t
  <2>3. DOMAIN t = 1 .. Len(q) + 1 /\ \A i \in DOMAIN q : t[i] = q[i]
    BY <2>1, <2>2
  <2>4. t = Append(q, e)
    BY DEF t
  <2> QED  BY <2>1, <2>2, <2>3, <2>4
<1>4. /\ commandQueue' \in [Accounts -> Seq(Command)]
      /\ \A d \in Accounts : commandQueue'[d] = IF d = a THEN r ELSE commandQueue[d]
  <2>1. commandQueue' = [commandQueue EXCEPT ![a] = r]
    BY <1>1, <1>2, <1>3 DEF C!Queue
  <2>2. commandQueue \in [Accounts -> Seq(Command)]
    BY Zenon DEF Commanded, CommandTypes
  <2> QED  BY <2>1, <2>2
<1>5. sends \in Nat /\ MaxSends \in Int /\ sends' \in 0 .. MaxSends /\ sends <= sends'
  <2>1. sends \in 0 .. MaxSends /\ MaxSends \in Nat
    BY CommandFacts
  <2> QED  BY <2>1
<1>6. ASSUME NEW d \in Accounts, NEW i \in DOMAIN commandQueue'[d]
      PROVE  \/ i \in DOMAIN commandQueue[d] /\ commandQueue'[d][i] = commandQueue[d][i]
             \/ d = a /\ i = Len(q) + 1 /\ commandQueue'[d][i] = e
  <2>1. CASE d = a
    <3>1. i \in 1 .. Len(q) + 1
      BY <1>3, <1>4, <1>6, <2>1
    <3>2. i \in DOMAIN q \/ i = Len(q) + 1
      BY <1>3, <3>1
    <3> QED  BY <1>2, <1>3, <1>4, <2>1, <3>2
  <2>2. CASE d # a
    BY <1>4, <1>6, <2>2
  <2> QED  BY <2>1, <2>2
<1>7. id # 0 => id \in C!Commands /\ id > sends /\ commandAnswer[id] = <<>>
  <2>1. id # 0 => id \in C!Commands /\ id > sends
    BY <1>5 DEF C!Commands
  <2> QED  BY <2>1 DEF Commanded, AnswersTrue
<1>8. QueuedUnanswered'
  <2> SUFFICES ASSUME NEW d \in Accounts, NEW i \in DOMAIN commandQueue'[d]
               PROVE  /\ commandQueue'[d][i].kind = "poll" <=> commandQueue'[d][i].id = 0
                      /\ commandQueue'[d][i].id <= sends'
                      /\ commandQueue'[d][i].id # 0 => commandAnswer[commandQueue'[d][i].id] = <<>>
    BY DEF QueuedUnanswered
  <2>1. CASE i \in DOMAIN commandQueue[d] /\ commandQueue'[d][i] = commandQueue[d][i]
    <3>1. /\ commandQueue[d][i].kind = "poll" <=> commandQueue[d][i].id = 0
          /\ commandQueue[d][i].id # 0 => commandAnswer[commandQueue[d][i].id] = <<>>
      BY <2>1 DEF Commanded, QueuedUnanswered
    <3>2. commandQueue[d][i].id \in 0 .. sends
      BY <2>1, QueueFacts
    <3>3. commandQueue[d][i].id <= sends'
      BY <1>5, <3>2
    <3> QED  BY <2>1, <3>1, <3>3
  <2>2. CASE commandQueue'[d][i] = e
    <3>1. id <= sends' /\ (kind = "poll" <=> id = 0)
      BY <1>5
    <3> QED  BY <1>1, <1>7, <2>2, <3>1
  <2> QED  BY <1>6, <2>1, <2>2
<1>9. QueuedOnce'
  <2> SUFFICES ASSUME NEW d \in Accounts, NEW c \in Accounts, NEW i \in DOMAIN commandQueue'[d],
                      NEW j \in DOMAIN commandQueue'[c],
                      commandQueue'[d][i].id = commandQueue'[c][j].id
               PROVE  commandQueue'[d][i].id = 0 \/ (d = c /\ i = j)
    BY DEF QueuedOnce
  <2>1. ASSUME NEW x \in Accounts, NEW n \in DOMAIN commandQueue[x]
        PROVE  id = 0 \/ commandQueue[x][n].id # id
    <3>1. commandQueue[x][n].id \in 0 .. sends
      BY QueueFacts
    <3> QED  BY <1>5, <3>1
  <2>2. CASE /\ i \in DOMAIN commandQueue[d] /\ commandQueue'[d][i] = commandQueue[d][i]
             /\ j \in DOMAIN commandQueue[c] /\ commandQueue'[c][j] = commandQueue[c][j]
    BY <2>2 DEF Commanded, QueuedOnce
  <2>3. CASE d = a /\ i = Len(q) + 1 /\ commandQueue'[d][i] = e
    BY <1>1, <1>6, <2>1, <2>3
  <2>4. CASE c = a /\ j = Len(q) + 1 /\ commandQueue'[c][j] = e
    BY <1>1, <1>6, <2>1, <2>4
  <2> QED  BY <1>6, <2>2, <2>3, <2>4
<1>10. AnswersTrue'
  <2>1. \A c \in C!Commands : c > sends' => c > sends
    BY <1>5 DEF C!Commands
  <2> QED  BY <2>1 DEF Commanded, AnswersTrue
<1>11. CommandTypes'
  <2>1. CommandTypes /\ UNCHANGED <<executed, commandAnswer>>
    BY DEF Commanded
  <2> QED  BY <1>4, <1>5, <2>1, Zenon DEF CommandTypes
<1> QED  BY <1>8, <1>9, <1>10, <1>11 DEF Commanded

\* The queues stay, but a command that no session takes is refused.
LEMMA Refused ==
    ASSUME Commanded, UNCHANGED <<commandQueue, executed>>, sends < MaxSends, sends' = sends + 1,
           \/ UNCHANGED commandAnswer
           \/ commandAnswer' = [commandAnswer EXCEPT ![sends'] = <<"refused">>]
    PROVE  Commanded'
<1>1. sends \in Nat /\ MaxSends \in Nat /\ sends' \in 0 .. MaxSends /\ sends' \in C!Commands
  BY CommandFacts DEF C!Commands
<1>2. commandAnswer \in [C!Commands -> Answers] /\ commandQueue \in [Accounts -> Seq(Command)]
      /\ executed \in [C!Commands -> Nat]
  BY Zenon DEF Commanded, CommandTypes
<1>3. <<"refused">> \in Answers
  BY DEF Answers
<1>4. /\ commandAnswer' \in [C!Commands -> Answers]
      /\ \A c \in C!Commands : commandAnswer'[c] = commandAnswer[c]
                             \/ (c = sends' /\ commandAnswer'[c] = <<"refused">>)
  BY <1>1, <1>2, <1>3
<1>5. CommandTypes'
  BY <1>1, <1>2, <1>4, Zenon DEF CommandTypes
<1>6. QueuedUnanswered'
  <2> SUFFICES ASSUME NEW a \in Accounts, NEW i \in DOMAIN commandQueue[a]
               PROVE  /\ commandQueue[a][i].kind = "poll" <=> commandQueue[a][i].id = 0
                      /\ commandQueue[a][i].id <= sends'
                      /\ commandQueue[a][i].id # 0 => commandAnswer'[commandQueue[a][i].id] = <<>>
    BY DEF QueuedUnanswered
  <2>1. PICK id \in 0 .. sends : id = commandQueue[a][i].id
    BY QueueFacts
  <2>2. /\ commandQueue[a][i].kind = "poll" <=> id = 0
        /\ id # 0 => commandAnswer[id] = <<>>
    BY <2>1 DEF Commanded, QueuedUnanswered
  <2>3. id <= sends' /\ id # sends' /\ (id # 0 => id \in C!Commands)
    BY <1>1 DEF C!Commands
  <2> QED  BY <1>4, <2>1, <2>2, <2>3
<1>7. QueuedOnce'
  BY DEF Commanded, QueuedOnce
<1>8. AnswersTrue'
  <2> SUFFICES ASSUME NEW c \in C!Commands
               PROVE  /\ "gas_used" \in Range(commandAnswer'[c]) => executed[c] > 0
                      /\ c > sends' => commandAnswer'[c] = <<>>
    BY DEF AnswersTrue
  <2>1. CASE commandAnswer'[c] = commandAnswer[c]
    <3>1. c > sends' => c > sends
      BY <1>1 DEF C!Commands
    <3> QED  BY <2>1, <3>1 DEF Commanded, AnswersTrue
  <2>2. CASE c = sends' /\ commandAnswer'[c] = <<"refused">>
    <3>1. ~(c > sends')
      BY <1>1, <2>2
    <3>2. "gas_used" \notin Range(<<"refused">>)
      BY DEF Range, C!Range
    <3> QED  BY <2>2, <3>1, <3>2
  <2> QED  BY <1>4, <2>1, <2>2
<1> QED  BY <1>5, <1>6, <1>7, <1>8 DEF Commanded

\* A session that ends drops its queue.
LEMMA QueueDropped ==
    ASSUME Commanded, NEW a \in Accounts, commandQueue' = [commandQueue EXCEPT ![a] = <<>>],
           UNCHANGED <<executed, commandAnswer, sends>>
    PROVE  Commanded'
<1>1. CommandTypes
  BY DEF Commanded
<1>2. /\ commandQueue' \in [Accounts -> Seq(Command)] /\ commandQueue'[a] = <<>>
      /\ \A d \in Accounts : d # a => commandQueue'[d] = commandQueue[d]
  <2>1. commandQueue \in [Accounts -> Seq(Command)] /\ <<>> \in Seq(Command)
    BY <1>1 DEF CommandTypes
  <2> QED  BY <2>1
<1>3. CommandTypes'
  BY <1>1, <1>2, Zenon DEF CommandTypes
<1>4. \A c \in C!Commands : executed'[c] >= executed[c]
  BY CommandFacts
<1> QED  BY <1>2, <1>3, <1>4, QueuesLose

\* The command in hand leaves its queue.
LEMMA QueueTaken ==
    ASSUME Commanded, NEW a \in Accounts, commandQueue[a] # <<>>,
           commandQueue' = [commandQueue EXCEPT ![a] = Tail(@)]
    PROVE  /\ commandQueue' \in [Accounts -> Seq(Command)]
           /\ \A d \in Accounts : d # a => commandQueue'[d] = commandQueue[d]
           /\ \A i \in DOMAIN commandQueue'[a] :
                 /\ i + 1 \in DOMAIN commandQueue[a] /\ i \in Nat \ {0}
                 /\ commandQueue'[a][i] = commandQueue[a][i + 1]
<1>1. PICK q \in Seq(Command) : q = commandQueue[a]
  BY CommandFacts
<1>2. PICK t \in Seq(Command) : /\ t = Tail(q) /\ Len(t) = Len(q) - 1
                                /\ \A i \in 1 .. Len(t) : t[i] = q[i + 1]
  <2>1. q # <<>>
    BY <1>1
  <2>2. Tail(q) \in Seq(Command)
    BY <2>1, HeadTailProperties
  <2>3. Len(Tail(q)) = Len(q) - 1
    BY <2>1, HeadTailProperties
  <2>4. \A i \in 1 .. Len(Tail(q)) : Tail(q)[i] = q[i + 1]
    BY <2>1, HeadTailProperties
  <2> QED  BY <2>2, <2>3, <2>4, Zenon
<1>3. /\ Len(q) \in Nat /\ DOMAIN q = 1 .. Len(q)
      /\ Len(t) \in Nat /\ DOMAIN t = 1 .. Len(t)
  BY LenProperties
<1>4. /\ commandQueue' \in [Accounts -> Seq(Command)] /\ commandQueue'[a] = t
      /\ \A d \in Accounts : d # a => commandQueue'[d] = commandQueue[d]
  <2>1. commandQueue \in [Accounts -> Seq(Command)]
    BY Zenon DEF Commanded, CommandTypes
  <2> QED  BY <1>1, <1>2, <2>1
<1>5. \A i \in DOMAIN t : i + 1 \in DOMAIN q /\ i \in Nat \ {0} /\ t[i] = q[i + 1]
  BY <1>2, <1>3
<1> QED  BY <1>1, <1>4, <1>5

\* The command in hand is one that waits for its answer, unless it is a poll.
LEMMA HeadFacts ==
    ASSUME Commanded, NEW a \in Accounts, commandQueue[a] # <<>>
    PROVE  Head(commandQueue[a]).kind # "poll" =>
              /\ Head(commandQueue[a]).id \in C!Commands
              /\ commandAnswer[Head(commandQueue[a]).id] = <<>>
<1>1. PICK e \in Command : e = Head(commandQueue[a]) /\ e = commandQueue[a][1] /\ 1 \in DOMAIN commandQueue[a]
  BY QueueFacts
<1>2. /\ e.kind = "poll" <=> e.id = 0
      /\ e.id # 0 => commandAnswer[e.id] = <<>>
  BY <1>1 DEF Commanded, QueuedUnanswered
<1>3. e.id \in 0 .. MaxSends /\ MaxSends \in Nat
  BY CommandFacts DEF Command
<1>4. e.id # 0 => e.id \in C!Commands
  BY <1>3 DEF C!Commands
<1> QED  BY <1>1, <1>2, <1>4

\* What the chain executed only grows.
LEMMA ExecutedMore ==
    ASSUME Commanded, NEW a \in Accounts, commandQueue[a] # <<>>, Head(commandQueue[a]).kind # "poll",
           C!Executed(a) \/ UNCHANGED executed
    PROVE  /\ executed' \in [C!Commands -> Nat]
           /\ \A c \in C!Commands : executed'[c] >= executed[c]
           /\ C!Executed(a) => executed'[Head(commandQueue[a]).id] > 0
<1>1. PICK h \in C!Commands : h = Head(commandQueue[a]).id
  BY HeadFacts
<1>2. executed \in [C!Commands -> Nat]
  BY Zenon DEF Commanded, CommandTypes
<1>3. CASE UNCHANGED executed /\ ~C!Executed(a)
  BY <1>2, <1>3
<1>4. CASE C!Executed(a)
  <2>1. executed' = [executed EXCEPT ![h] = executed[h] + 1]
    BY <1>1, <1>4 DEF C!Executed
  <2>2. executed[h] + 1 \in Nat /\ executed[h] \in Nat
    BY <1>2
  <2> QED  BY <1>1, <1>2, <2>1, <2>2
<1> QED  BY <1>3, <1>4

\* A command is answered: it had no answer, and the gas is that of a transaction.
LEMMA Answering ==
    ASSUME Commanded, NEW a \in Accounts, commandQueue[a] # <<>>, Head(commandQueue[a]).kind # "poll",
           NEW answers \in Answers, C!Answered(a, answers), C!Executed(a) \/ UNCHANGED executed,
           "gas_used" \in Range(answers) => C!Executed(a), UNCHANGED sends
    PROVE  Commanded'
<1>1. PICK h \in C!Commands : h = Head(commandQueue[a]).id /\ commandAnswer[h] = <<>>
  BY HeadFacts
<1>2. commandAnswer' = [commandAnswer EXCEPT ![h] = answers]
  <2>1. <<>> \o answers = answers
    <3>1. \E T : answers \in Seq(T)
      <4>1. \/ answers = <<>> \/ answers = <<"gas_used">> \/ answers = <<"error">>
            \/ answers = <<"gas_used", "error">> \/ answers = <<"refused">>
        BY DEF Answers
      <4> DEFINE T == {"gas_used", "error", "refused"}
      <4>2. /\ <<>> \in Seq(T) /\ <<"gas_used">> \in Seq(T) /\ <<"error">> \in Seq(T)
            /\ <<"refused">> \in Seq(T) /\ <<"gas_used", "error">> \in Seq(T)
        OBVIOUS
      <4> QED  BY <4>1, <4>2
    <3> QED  BY <3>1, ConcatEmptySeq
  <2> QED  BY <1>1, <2>1 DEF C!Answered
<1>3. commandQueue' = [commandQueue EXCEPT ![a] = Tail(@)]
  BY DEF C!Answered
<1>4. commandAnswer \in [C!Commands -> Answers] /\ MaxSends \in Nat /\ sends' \in 0 .. MaxSends
  BY Zenon DEF Commanded, CommandTypes
<1>5. /\ commandAnswer' \in [C!Commands -> Answers]
      /\ commandAnswer'[h] = answers
      /\ \A c \in C!Commands : c # h => commandAnswer'[c] = commandAnswer[c]
  BY <1>2, <1>4
<1>6. CommandTypes'
  BY <1>3, <1>4, <1>5, ExecutedMore, QueueTaken, Zenon DEF CommandTypes
<1>7. "gas_used" \in Range(answers) => executed'[h] > 0
  BY <1>1, ExecutedMore
<1>8. \A c \in C!Commands : executed'[c] >= executed[c]
  BY ExecutedMore
<1> QED  BY <1>1, <1>3, <1>5, <1>6, <1>7, <1>8, QueueTaken, QueuesLose

\* A poll is forwarded, and answers nothing.
LEMMA Forwarded ==
    ASSUME Commanded, NEW a \in Accounts, commandQueue[a] # <<>>,
           commandQueue' = [commandQueue EXCEPT ![a] = Tail(@)],
           UNCHANGED <<executed, commandAnswer, sends>>
    PROVE  Commanded'
<1>1. CommandTypes
  BY DEF Commanded
<1>2. CommandTypes'
  BY <1>1, QueueTaken, Zenon DEF CommandTypes
<1>3. \A c \in C!Commands : executed'[c] >= executed[c]
  BY CommandFacts
<1> QED  BY <1>2, <1>3, QueueTaken, QueuesLose

\* An attempt that fails may have been executed nevertheless.
LEMMA Attempted ==
    ASSUME Commanded, NEW a \in Accounts, commandQueue[a] # <<>>, Head(commandQueue[a]).kind # "poll",
           C!Executed(a) \/ UNCHANGED executed, UNCHANGED <<commandQueue, commandAnswer, sends>>
    PROVE  Commanded'
<1>1. CommandTypes
  BY DEF Commanded
<1>2. CommandTypes'
  BY <1>1, ExecutedMore, Zenon DEF CommandTypes
<1>3. \A i \in DOMAIN commandQueue[a] : i + 0 \in DOMAIN commandQueue[a] /\ i \in Nat \ {0} /\ i + 0 = i
  BY QueueFacts
<1>4. \A i \in DOMAIN commandQueue'[a] : /\ i + 0 \in DOMAIN commandQueue[a] /\ i \in Nat \ {0}
                                         /\ commandQueue'[a][i] = commandQueue[a][i + 0]
  BY <1>3
<1>5. \A c \in C!Commands : executed'[c] >= executed[c]
  BY ExecutedMore
<1> QED  BY <1>2, <1>4, <1>5, QueuesLose

\* What no action but those of commands touches.
commanding == <<commandQueue, executed, commandAnswer, sends>>

\* The sender: a poll, or a command.
LEMMA SendingKept ==
    ASSUME Commanded, \/ C!PollOnce
                      \/ \E kind \in {"mint", "transfer", "route"} : C!SendCommand(kind)
    PROVE  Commanded'
<1>0. sends \in Nat /\ MaxSends \in Nat
  BY CommandFacts
<1>1. C!NextAccount \notin Accounts => \A id, kind : C!Queue(C!NextAccount, id, kind) => UNCHANGED commandQueue
  <2>1. commandQueue \in [Accounts -> Seq(Command)]
    BY Zenon DEF Commanded, CommandTypes
  <2> QED  BY <2>1 DEF C!Queue
<1>2. CASE C!PollOnce
  <2>1. UNCHANGED <<executed, commandAnswer, sends>>
        /\ (UNCHANGED commandQueue \/ C!Queue(C!NextAccount, 0, "poll"))
    BY <1>2 DEF C!PollOnce
  <2>2. CASE UNCHANGED commandQueue
    BY <2>1, <2>2 DEF Commanded, CommandTypes, QueuedUnanswered, QueuedOnce, AnswersTrue
  <2>3. CASE C!NextAccount \in Accounts /\ C!Queue(C!NextAccount, 0, "poll")
    <3>1. "poll" \in Kinds /\ 0 \in 0 .. MaxSends
      BY <1>0 DEF Kinds
    <3> QED  BY <2>1, <2>3, <3>1, QueuesGain
  <2> QED  BY <1>1, <2>1, <2>2, <2>3
<1>3. ASSUME NEW kind \in {"mint", "transfer", "route"}, C!SendCommand(kind) PROVE Commanded'
  <2>1. /\ sends < MaxSends /\ sends' = sends + 1 /\ UNCHANGED executed
        /\ \/ C!Queue(C!NextAccount, sends', kind) /\ UNCHANGED commandAnswer
           \/ /\ UNCHANGED commandQueue
              /\ commandAnswer' = [commandAnswer EXCEPT ![sends'] = <<"refused">>]
    BY <1>3 DEF C!SendCommand
  <2>2. CASE UNCHANGED commandQueue
    BY <2>1, <2>2, Refused
  <2>3. CASE C!NextAccount \in Accounts /\ C!Queue(C!NextAccount, sends', kind) /\ UNCHANGED commandAnswer
    <3>1. kind \in Kinds /\ kind # "poll" /\ sends + 1 \in 0 .. MaxSends /\ C!Queue(C!NextAccount, sends + 1, kind)
      BY <1>0, <2>1, <2>3 DEF Kinds
    <3> QED  BY <2>1, <2>3, <3>1, QueuesGain
  <2> QED  BY <1>1, <2>1, <2>2, <2>3
<1> QED  BY <1>2, <1>3

\* The session: every attempt at the command in hand.
LEMMA ExecutionKept ==
    ASSUME Commanded, NEW a \in Accounts, C!CommandStep(a)
    PROVE  Commanded'
<1>1. <<"gas_used">> \in Answers /\ <<"error">> \in Answers /\ <<"gas_used", "error">> \in Answers
  BY DEF Answers
<1>2. "gas_used" \notin Range(<<"error">>)
  BY DEF Range, C!Range
<1>3. ASSUME NEW kind \in {"mint", "route", "transfer"}, C!Complete(a, kind) PROVE Commanded'
  <2>1. /\ commandQueue[a] # <<>> /\ Head(commandQueue[a]).kind # "poll" /\ UNCHANGED sends
        /\ C!Executed(a) /\ C!Answered(a, <<"gas_used">>)
    BY <1>3 DEF C!Complete, C!Execute
  <2> QED  BY <1>1, <2>1, Answering
<1>4. CASE C!ForwardPoll(a)
  <2>1. /\ commandQueue[a] # <<>> /\ commandQueue' = [commandQueue EXCEPT ![a] = Tail(@)]
        /\ UNCHANGED <<executed, commandAnswer, sends>>
    BY <1>4 DEF C!ForwardPoll, C!Execute
  <2> QED  BY <2>1, Forwarded
<1>5. CASE C!CompleteMint(a) \/ C!CompleteRoute(a)
  BY <1>3, <1>5 DEF C!CompleteMint, C!CompleteRoute
<1>6. CASE C!CompleteTransfer(a)
  <2>1. CASE C!Complete(a, "transfer")
    BY <1>3, <2>1
  <2>2. CASE C!Execute(a, {"transfer"}) /\ C!Executed(a) /\ C!Answered(a, <<"gas_used", "error">>)
    <3>1. commandQueue[a] # <<>> /\ Head(commandQueue[a]).kind # "poll" /\ UNCHANGED sends
      BY <2>2 DEF C!Execute
    <3> QED  BY <1>1, <2>2, <3>1, Answering
  <2> QED  BY <1>6, <2>1, <2>2 DEF C!CompleteTransfer
<1>7. CASE C!RefuseCommand(a)
  <2>1. /\ commandQueue[a] # <<>> /\ Head(commandQueue[a]).kind # "poll"
        /\ UNCHANGED <<executed, sends>> /\ C!Answered(a, <<"error">>)
    BY <1>7 DEF C!RefuseCommand, C!Execute
  <2> QED  BY <1>1, <1>2, <2>1, Answering
<1>8. ASSUME NEW onChain \in BOOLEAN, C!FailAttempt(a, onChain) \/ C!FailTransfer(a, onChain)
      PROVE  Commanded'
  <2>1. /\ commandQueue[a] # <<>> /\ Head(commandQueue[a]).kind # "poll" /\ UNCHANGED sends
        /\ C!Executed(a) \/ UNCHANGED executed
        /\ C!Answered(a, <<"error">>) \/ UNCHANGED <<commandQueue, commandAnswer>>
    BY <1>8 DEF C!FailAttempt, C!FailTransfer, C!Execute
  <2>2. CASE C!Answered(a, <<"error">>)
    BY <1>1, <1>2, <2>1, <2>2, Answering
  <2>3. CASE UNCHANGED <<commandQueue, commandAnswer>>
    BY <2>1, <2>3, Attempted
  <2> QED  BY <2>1, <2>2, <2>3
<1> QED  BY <1>4, <1>5, <1>6, <1>7, <1>8 DEF C!CommandStep

\* Commands are sent, tried, answered or dropped, and nothing else touches them.
LEMMA CommandsKept == Commanded /\ [C!Next]_(C!vars) => Commanded'
<1> SUFFICES ASSUME Commanded, [C!Next]_(C!vars) PROVE Commanded'
  OBVIOUS
<1>1. CASE UNCHANGED commanding
  BY <1>1 DEF commanding, Commanded, CommandTypes, QueuedUnanswered, QueuedOnce, AnswersTrue
<1>2. CASE UNCHANGED C!vars
  BY <1>1, <1>2 DEF C!vars, commanding
<1>3. ASSUME NEW withDeposit \in BOOLEAN, C!Mine(withDeposit) PROVE Commanded'
  BY <1>1, <1>3 DEF C!Mine, C!commands, commanding
<1>4. CASE C!PollOnce \/ C!MintIndex \/ C!TransferToAccount \/ C!CustodyToAddress
  BY <1>4, SendingKept DEF C!MintIndex, C!TransferToAccount, C!CustodyToAddress
<1>5. ASSUME NEW a \in Accounts,
             \/ C!AddSession(a) \/ C!Connect(a) \/ C!SubscribeStreaming(a) \/ C!SubscribePolling(a)
             \/ C!HandleStreamed(a) \/ C!StreamClosed(a)
             \/ C!PollLogEvents(a) \/ C!PollWithoutHead(a) \/ C!PollBreaksOff(a)
      PROVE  Commanded'
  <2>1. UNCHANGED C!commands
    BY <1>5 DEF C!AddSession, C!Connect, C!SubscribeStreaming, C!SubscribePolling, C!HandleStreamed,
       C!StreamClosed, C!PollLogEvents, C!PollWithoutHead, C!PollBreaksOff, C!Poll
  <2> QED  BY <1>1, <2>1 DEF C!commands, commanding
<1>6. ASSUME NEW a \in Accounts, C!FailToStart(a) \/ C!StopSession(a) PROVE Commanded'
  <2>1. /\ commandQueue' = [commandQueue EXCEPT ![a] = <<>>]
        /\ UNCHANGED <<executed, commandAnswer, sends>>
    BY <1>6 DEF C!FailToStart, C!StopSession, C!Ends
  <2> QED  BY <2>1, QueueDropped
<1>7. ASSUME NEW a \in Accounts, C!CommandStep(a) PROVE Commanded'
  BY <1>7, ExecutionKept
<1> QED  BY <1>2, <1>3, <1>4, <1>5, <1>6, <1>7 DEF C!Next, C!StartStep

-------------------------------------------------------------------------------
(* Polls.                                                                    *)

\* What the head, the cursors and the counters hold.
Blocks ==
    /\ head \in FirstBlock .. FirstBlock + MaxBlocks
    /\ \A b \in deposits : b \in Nat /\ b <= head
    /\ cursor \in [Accounts -> Nat] /\ subscribedAt \in [Accounts -> Nat]
    /\ rpcFaults \in Nat

\* The cursor is between the block a session subscribed at and the head.
Cursors ==
    \A a \in Accounts :
        chainSession[a] = "running" => subscribedAt[a] <= cursor[a] /\ cursor[a] <= head

\* Polls report what is on the chain.
ToldMined == \A a \in Accounts : \A b : C!Told(a, "poll", b) # 0 => b \in deposits

\* What they give up is behind the cursor, and behind the window as long as
\* the providers answer.
GivenUp ==
    \A a \in Accounts : \A b : <<a, b>> \in missed =>
        /\ b \in deposits
        /\ chainSession[a] = "running" => b <= cursor[a]
        /\ rpcFaults = 0 => b <= head - Window

Accounted == Blocks /\ Cursors /\ ToldMined /\ GivenUp /\ C!PolledOnce

\* How often a block was reported is a number.
LEMMA ToldNat == IsABag(deposited) => \A a, by, b : C!Told(a, by, b) \in Nat
  BY DEF C!Told, IsABag, C!IsABag, BagIn, C!BagIn, BagToSet, C!BagToSet

\* An account whose polls are complete has lost nothing within the window.
LEMMA ReachFollows == ASSUME ChainParameters, Accounted PROVE C!DepositsWithinReach
<1> SUFFICES ASSUME NEW a \in Accounts, NEW b \in deposits, chainSession[a] = "running",
                    rpcFaults = 0, b > subscribedAt[a], ~(b > cursor[a])
             PROVE  <<a, "poll", b>> \in BagToSet(deposited) \/ b <= head - Window
  BY DEF C!DepositsWithinReach, BagToSet, C!BagToSet
<1>1. b <= cursor[a]
  BY DEF Accounted, Blocks
<1>2. CASE <<a, b>> \in missed
  BY <1>2 DEF Accounted, GivenUp
<1>3. CASE <<a, b>> \notin missed
  <2>1. C!Told(a, "poll", b) = 1
    BY <1>1, <1>3 DEF Accounted, C!PolledOnce
  <2> QED  BY <2>1 DEF C!Told, BagIn, C!BagIn, BagToSet, C!BagToSet
<1> QED  BY <1>2, <1>3

\* Where a poll begins: behind the cursor, or the window.
LEMMA FromFacts ==
    ASSUME ChainParameters, Accounted, NEW a \in Accounts, chainSession[a] = "running"
    PROVE  /\ C!From(a) \in Nat /\ cursor[a] <= C!From(a) /\ C!From(a) <= head
           /\ C!From(a) = cursor[a] \/ C!From(a) = head - Window
<1>1. /\ head \in Nat /\ cursor[a] \in Nat /\ cursor[a] <= head
      /\ head - Window \in Nat /\ head - Window <= head /\ head - Window < WordSize /\ WordSize \in Nat
  BY DEF ChainParameters, Accounted, Blocks, Cursors
<1>2. (head - Window) % WordSize = head - Window
  BY <1>1
<1> DEFINE at == {cursor[a], head - Window}
<1>3. at \in SUBSET (0 .. head) /\ at # {}
  BY <1>1
<1>4. C!From(a) = Max(at)
  BY <1>2 DEF C!From, C!Max, Max
<1>5. Max(at) \in at /\ \A k \in at : k <= Max(at)
  BY <1>1, <1>3, MaxFacts
<1> QED  BY <1>1, <1>4, <1>5

\* Steps that report no poll, mine no block and subscribe nobody.
LEMMA StillAccounted ==
    ASSUME Accounted, UNCHANGED <<head, deposits, cursor, subscribedAt, missed>>,
           rpcFaults' = rpcFaults \/ rpcFaults' = rpcFaults + 1,
           \A a \in Accounts : \A b : C!Told(a, "poll", b)' = C!Told(a, "poll", b),
           \A a \in Accounts : chainSession'[a] = "running" => chainSession[a] = "running"
    PROVE  Accounted'
<1>1. rpcFaults \in Nat /\ rpcFaults' \in Nat /\ (rpcFaults' = 0 => rpcFaults = 0)
  BY DEF Accounted, Blocks
<1>2. Blocks'
  BY <1>1 DEF Accounted, Blocks
<1>3. Cursors'
  BY DEF Accounted, Cursors
<1>4. ToldMined'
  BY DEF Accounted, ToldMined
<1>5. GivenUp'
  BY <1>1 DEF Accounted, GivenUp
<1>6. C!PolledOnce'
  BY DEF Accounted, C!PolledOnce
<1> QED  BY <1>2, <1>3, <1>4, <1>5, <1>6 DEF Accounted

\* A block is mined: it is ahead of every cursor, and nobody was told of it.
LEMMA MineAccounted ==
    ASSUME ChainParameters, Accounted, NEW withDeposit \in BOOLEAN, C!Mine(withDeposit)
    PROVE  Accounted'
<1>1. /\ head \in Nat /\ head' = head + 1 /\ head' \in FirstBlock .. FirstBlock + MaxBlocks
      /\ \A b \in deposits : b \in Nat /\ b <= head
  BY DEF ChainParameters, Accounted, Blocks, C!Mine
<1>2. /\ UNCHANGED <<chainSession, cursor, subscribedAt, missed, deposited, rpcFaults>>
      /\ deposits' = deposits \cup {head'} \/ deposits' = deposits
  BY DEF C!Mine, C!polling
<1>3. head' \notin deposits /\ \A b \in deposits' : b \in deposits \/ b = head'
  BY <1>1, <1>2
<1>4. \A a \in Accounts : \A b : C!Told(a, "poll", b)' = C!Told(a, "poll", b)
  BY <1>2, ToldSame
<1>5. Blocks'
  BY <1>1, <1>2, <1>3 DEF Accounted, Blocks
<1>6. Cursors'
  <2> SUFFICES ASSUME NEW a \in Accounts, chainSession[a] = "running"
               PROVE  subscribedAt[a] <= cursor[a] /\ cursor[a] <= head'
    BY <1>2 DEF Cursors
  <2>1. subscribedAt[a] <= cursor[a] /\ cursor[a] <= head /\ cursor[a] \in Nat
    BY DEF Accounted, Blocks, Cursors
  <2> QED  BY <1>1, <2>1
<1>7. ToldMined'
  BY <1>2, <1>4 DEF Accounted, ToldMined
<1>8. GivenUp'
  <2> SUFFICES ASSUME NEW a \in Accounts, NEW b, <<a, b>> \in missed
               PROVE  /\ b \in deposits'
                      /\ chainSession[a] = "running" => b <= cursor[a]
                      /\ rpcFaults = 0 => b <= head' - Window
    BY <1>2 DEF GivenUp
  <2>1. /\ b \in deposits
        /\ chainSession[a] = "running" => b <= cursor[a]
        /\ rpcFaults = 0 => b <= head - Window
    BY DEF Accounted, GivenUp
  <2>2. rpcFaults = 0 => b <= head' - Window
    BY <1>1, <2>1 DEF ChainParameters
  <2> QED  BY <1>2, <2>1, <2>2
<1>9. C!PolledOnce'
  <2> SUFFICES ASSUME NEW a \in Accounts, chainSession[a] = "running",
                      NEW b \in deposits', b > subscribedAt[a]
               PROVE  C!Told(a, "poll", b)' = IF b <= cursor[a] /\ <<a, b>> \notin missed THEN 1 ELSE 0
    BY <1>2 DEF C!PolledOnce
  <2>1. CASE b \in deposits
    BY <1>4, <2>1 DEF Accounted, C!PolledOnce
  <2>2. CASE b = head'
    <3>1. ~(b <= cursor[a])
      BY <1>1, <2>2 DEF Accounted, Blocks, Cursors
    <3>2. C!Told(a, "poll", b) = 0
      BY <1>3, <2>2 DEF Accounted, ToldMined
    <3> QED  BY <1>4, <3>1, <3>2
  <2> QED  BY <1>3, <2>1, <2>2
<1> QED  BY <1>5, <1>6, <1>7, <1>8, <1>9 DEF Accounted

\* A session subscribes at the head: every deposit so far is none of its business.
LEMMA SubscribeAccounted ==
    ASSUME ChainParameters, Accounted, Sessions, NEW a \in Accounts, C!SubscribePolling(a)
    PROVE  Accounted'
<1>1. /\ UNCHANGED <<head, deposits, missed, deposited, rpcFaults>>
      /\ cursor' = [cursor EXCEPT ![a] = head] /\ subscribedAt' = [subscribedAt EXCEPT ![a] = head]
      /\ chainSession' = [chainSession EXCEPT ![a] = "running"]
  BY DEF C!SubscribePolling, C!chain
<1>2. /\ head \in Nat /\ cursor \in [Accounts -> Nat] /\ subscribedAt \in [Accounts -> Nat]
      /\ \A b \in deposits : b \in Nat /\ b <= head
  BY DEF ChainParameters, Accounted, Blocks
<1>3. /\ cursor' \in [Accounts -> Nat] /\ subscribedAt' \in [Accounts -> Nat]
      /\ cursor'[a] = head /\ subscribedAt'[a] = head
      /\ \A c \in Accounts : c # a => /\ cursor'[c] = cursor[c] /\ subscribedAt'[c] = subscribedAt[c]
                                      /\ chainSession'[c] = chainSession[c]
  BY <1>1, <1>2 DEF Sessions
<1>4. \A c \in Accounts : \A b : C!Told(c, "poll", b)' = C!Told(c, "poll", b)
  BY <1>1, ToldSame
<1>5. Blocks'
  BY <1>1, <1>3 DEF Accounted, Blocks
<1>6. Cursors'
  <2>1. ASSUME NEW c \in Accounts, chainSession'[c] = "running"
        PROVE  subscribedAt'[c] <= cursor'[c] /\ cursor'[c] <= head
    <3>1. CASE c = a
      BY <1>2, <1>3, <3>1
    <3>2. CASE c # a
      BY <1>3, <2>1, <3>2 DEF Accounted, Cursors
    <3> QED  BY <3>1, <3>2
  <2> QED  BY <1>1, <2>1 DEF Cursors
<1>7. ToldMined'
  BY <1>1, <1>4 DEF Accounted, ToldMined
<1>8. GivenUp'
  <2> SUFFICES ASSUME NEW c \in Accounts, NEW b, <<c, b>> \in missed
               PROVE  /\ b \in deposits
                      /\ chainSession'[c] = "running" => b <= cursor'[c]
                      /\ rpcFaults = 0 => b <= head - Window
    BY <1>1 DEF GivenUp
  <2>1. /\ b \in deposits
        /\ chainSession[c] = "running" => b <= cursor[c]
        /\ rpcFaults = 0 => b <= head - Window
    BY DEF Accounted, GivenUp
  <2> QED  BY <1>2, <1>3, <2>1
<1>9. C!PolledOnce'
  <2> SUFFICES ASSUME NEW c \in Accounts, chainSession'[c] = "running",
                      NEW b \in deposits, b > subscribedAt'[c]
               PROVE  C!Told(c, "poll", b)' = IF b <= cursor'[c] /\ <<c, b>> \notin missed THEN 1 ELSE 0
    BY <1>1 DEF C!PolledOnce
  <2>1. CASE c = a
    BY <1>2, <1>3, <2>1
  <2>2. CASE c # a
    BY <1>3, <1>4, <2>2 DEF Accounted, C!PolledOnce
  <2> QED  BY <2>1, <2>2
<1> QED  BY <1>5, <1>6, <1>7, <1>8, <1>9 DEF Accounted

\* A poll brings the cursor to the head: it reports the blocks on the way, or gives
\* them up, those of the window only when a call fails.
LEMMA PolledAccounted ==
    ASSUME ChainParameters, Accounted, Quiet, NEW a \in Accounts, chainSession[a] = "running",
           UNCHANGED <<head, deposits, subscribedAt, chainSession>>,
           cursor' = [cursor EXCEPT ![a] = head],
           NEW R \in SUBSET C!Polled(a), C!Deposit(a, "poll", R),
           missed' = missed \cup {<<a, b>> : b \in {d \in deposits : d \in cursor[a] + 1 .. head /\ d \notin R}},
           \/ rpcFaults' = rpcFaults /\ R = C!Polled(a)
           \/ rpcFaults' = rpcFaults + 1
    PROVE  Accounted'
<1>1. /\ head \in Nat /\ cursor \in [Accounts -> Nat] /\ subscribedAt \in [Accounts -> Nat]
      /\ \A b \in deposits : b \in Nat /\ b <= head
      /\ rpcFaults \in Nat /\ rpcFaults' \in Nat /\ (rpcFaults' = 0 => rpcFaults = 0 /\ R = C!Polled(a))
  BY DEF ChainParameters, Accounted, Blocks
<1>2. /\ C!From(a) \in Nat /\ cursor[a] <= C!From(a) /\ C!From(a) <= head
      /\ C!From(a) = cursor[a] \/ C!From(a) = head - Window
  BY FromFacts
<1>3. \A b \in R : b \in deposits /\ b > C!From(a)
  BY <1>1, <1>2 DEF C!Polled
<1>4. /\ cursor' \in [Accounts -> Nat] /\ cursor'[a] = head
      /\ \A c \in Accounts : c # a => cursor'[c] = cursor[c]
  BY <1>1
<1>5. \A c \in Accounts : \A b : C!Told(c, "poll", b)' = C!Told(c, "poll", b) + IF c = a /\ b \in R THEN 1 ELSE 0
  BY ToldMore DEF Quiet
<1>6. \A c \in Accounts : \A b : C!Told(c, "poll", b) \in Nat
  BY ToldNat DEF Quiet
<1>7. \A c \in Accounts : \A b : <<c, b>> \in missed' <=>
         \/ <<c, b>> \in missed
         \/ c = a /\ b \in deposits /\ b \in cursor[a] + 1 .. head /\ b \notin R
  OBVIOUS
<1>8. Blocks'
  BY <1>1, <1>4 DEF Accounted, Blocks
<1>9. Cursors'
  <2>1. ASSUME NEW c \in Accounts, chainSession[c] = "running"
        PROVE  subscribedAt[c] <= cursor'[c] /\ cursor'[c] <= head
    <3>1. subscribedAt[c] <= cursor[c] /\ cursor[c] <= head
      BY <2>1 DEF Accounted, Cursors
    <3>2. CASE c = a
      BY <1>1, <1>4, <3>1, <3>2
    <3>3. CASE c # a
      BY <1>4, <3>1, <3>3
    <3> QED  BY <3>2, <3>3
  <2> QED  BY <2>1 DEF Cursors
<1>10. ToldMined'
  <2>1. ASSUME NEW c \in Accounts, NEW b, C!Told(c, "poll", b)' # 0 PROVE b \in deposits
    <3>1. CASE b \in R
      BY <1>3, <3>1
    <3>2. CASE b \notin R
      <4>1. C!Told(c, "poll", b) # 0
        BY <1>5, <1>6, <2>1, <3>2
      <4> QED  BY <4>1 DEF Accounted, ToldMined
    <3> QED  BY <3>1, <3>2
  <2> QED  BY <2>1 DEF ToldMined
<1>11. GivenUp'
  <2> SUFFICES ASSUME NEW c \in Accounts, NEW b, <<c, b>> \in missed'
               PROVE  /\ b \in deposits
                      /\ chainSession[c] = "running" => b <= cursor'[c]
                      /\ rpcFaults' = 0 => b <= head - Window
    BY DEF GivenUp
  <2>1. CASE <<c, b>> \in missed
    <3>1. /\ b \in deposits
          /\ chainSession[c] = "running" => b <= cursor[c]
          /\ rpcFaults = 0 => b <= head - Window
      BY <2>1 DEF Accounted, GivenUp
    <3>2. CASE c = a
      BY <1>1, <1>4, <3>1, <3>2
    <3>3. CASE c # a
      BY <1>1, <1>4, <3>1, <3>3
    <3> QED  BY <3>2, <3>3
  <2>2. CASE c = a /\ b \in deposits /\ b \in cursor[a] + 1 .. head /\ b \notin R
    <3>1. b \in Nat /\ b > cursor[a] /\ b <= head
      BY <1>1, <2>2
    <3>2. rpcFaults' = 0 => b \notin C!From(a) + 1 .. head
      BY <1>1, <2>2 DEF C!Polled
    <3>3. rpcFaults' = 0 => b <= C!From(a)
      BY <1>1, <1>2, <3>1, <3>2
    <3>4. cursor[a] \in Nat
      BY <1>1
    <3>5. rpcFaults' = 0 => b <= head - Window
      BY <1>2, <3>1, <3>3, <3>4
    <3> QED  BY <1>4, <2>2, <3>1, <3>5
  <2> QED  BY <1>7, <2>1, <2>2
<1>12. C!PolledOnce'
  <2> SUFFICES ASSUME NEW c \in Accounts, chainSession[c] = "running",
                      NEW b \in deposits, b > subscribedAt[c]
               PROVE  C!Told(c, "poll", b)' = IF b <= cursor'[c] /\ <<c, b>> \notin missed' THEN 1 ELSE 0
    BY DEF C!PolledOnce
  <2>1. C!Told(c, "poll", b) = IF b <= cursor[c] /\ <<c, b>> \notin missed THEN 1 ELSE 0
    BY DEF Accounted, C!PolledOnce
  <2>2. b \in Nat /\ b <= head /\ cursor[c] \in Nat
    BY <1>1
  <2>3. CASE c # a
    <3>1. C!Told(c, "poll", b)' = C!Told(c, "poll", b)
      BY <1>5, <1>6, <2>3
    <3> QED  BY <1>4, <1>7, <2>1, <2>3, <3>1
  <2>4. CASE c = a /\ b <= cursor[a]
    <3>1. b \notin R /\ b \notin cursor[a] + 1 .. head
      BY <1>2, <1>3, <2>2, <2>4
    <3>2. C!Told(c, "poll", b)' = C!Told(c, "poll", b)
      BY <1>5, <1>6, <3>1
    <3> QED  BY <1>4, <1>7, <2>1, <2>2, <2>4, <3>1, <3>2
  <2>5. CASE c = a /\ ~(b <= cursor[a])
    <3>1. <<a, b>> \notin missed
      BY <2>5 DEF Accounted, GivenUp
    <3>2. b \in cursor[a] + 1 .. head
      BY <1>1, <2>2, <2>5
    <3>3. <<a, b>> \in missed' <=> b \notin R
      BY <1>7, <3>1, <3>2
    <3>4. C!Told(a, "poll", b)' = IF b \in R THEN 1 ELSE 0
      BY <1>5, <2>1, <2>5
    <3> QED  BY <1>4, <2>2, <2>5, <3>3, <3>4
  <2> QED  BY <2>3, <2>4, <2>5
<1> QED  BY <1>8, <1>9, <1>10, <1>11, <1>12 DEF Accounted

\* poll_log_events_fn, complete or broken off, is such a poll.
LEMMA PollAccounted ==
    ASSUME ChainParameters, Accounted, Quiet, NEW a \in Accounts,
           C!PollLogEvents(a) \/ C!PollBreaksOff(a)
    PROVE  Accounted'
<1>1. chainSession[a] = "running" /\ UNCHANGED <<head, deposits, subscribedAt, chainSession>>
  BY DEF C!PollLogEvents, C!PollBreaksOff, C!Poll, C!chain
<1>2. /\ C!From(a) \in Nat /\ cursor[a] <= C!From(a) /\ C!From(a) <= head
      /\ head \in Nat /\ cursor[a] \in Nat
  BY <1>1, FromFacts DEF ChainParameters, Accounted, Blocks
<1>3. CASE C!PollLogEvents(a)
  <2>1. Max({C!From(a), head}) = head
    <3>1. {C!From(a), head} \in SUBSET (0 .. head)
      BY <1>2
    <3>2. /\ Max({C!From(a), head}) \in {C!From(a), head}
          /\ \A k \in {C!From(a), head} : k <= Max({C!From(a), head})
      BY <1>2, <3>1, MaxFacts
    <3> QED  BY <1>2, <3>2
  <2>2. {d \in deposits : d \in cursor[a] + 1 .. C!From(a)}
          = {d \in deposits : d \in cursor[a] + 1 .. head /\ d \notin C!Polled(a)}
    <3>1. ASSUME NEW d \in deposits
          PROVE  d \in cursor[a] + 1 .. C!From(a) <=> d \in cursor[a] + 1 .. head /\ d \notin C!From(a) + 1 .. head
      BY <1>2
    <3> QED  BY <3>1 DEF C!Polled
  <2>3. /\ cursor' = [cursor EXCEPT ![a] = head] /\ C!Deposit(a, "poll", C!Polled(a))
        /\ rpcFaults' = rpcFaults
        /\ missed' = missed \cup {<<a, b>> : b \in {d \in deposits : d \in cursor[a] + 1 .. head
                                                                     /\ d \notin C!Polled(a)}}
    BY <1>3, <2>1, <2>2 DEF C!PollLogEvents, Max, C!Max
  <2> QED  BY <1>1, <2>3, PolledAccounted
<1>4. CASE C!PollBreaksOff(a)
  <2>1. PICK last \in {C!From(a)} \cup C!Polled(a) :
          /\ C!Deposit(a, "poll", {b \in C!Polled(a) : b < last})
          /\ missed' = missed \cup {<<a, b>> : b \in {d \in deposits :
                          d \in cursor[a] + 1 .. head /\ ~(d \in C!Polled(a) /\ d < last)}}
    BY <1>4 DEF C!PollBreaksOff
  <2> DEFINE R == {b \in C!Polled(a) : b < last}
  <2>2. R \in SUBSET C!Polled(a) /\ \A d : d \in R <=> d \in C!Polled(a) /\ d < last
    OBVIOUS
  <2>3. C!Deposit(a, "poll", R)
    BY <2>1
  <2> HIDE DEF R
  <2>4. missed' = missed \cup {<<a, b>> : b \in {d \in deposits : d \in cursor[a] + 1 .. head /\ d \notin R}}
    BY <2>1, <2>2
  <2>5. cursor' = [cursor EXCEPT ![a] = head] /\ rpcFaults' = rpcFaults + 1
    BY <1>4 DEF C!PollBreaksOff, C!RpcFault
  <2> QED  BY <1>1, <2>2, <2>3, <2>4, <2>5, PolledAccounted
<1> QED  BY <1>3, <1>4

\* Streams, commands, and sessions that start or end: no poll is reported, and no
\* session runs that did not.
LEMMA OthersAccounted ==
    ASSUME Accounted, Quiet, NEW a \in Accounts,
           \/ C!AddSession(a) \/ C!Connect(a) \/ C!SubscribeStreaming(a) \/ C!FailToStart(a)
           \/ C!StopSession(a) \/ C!StreamClosed(a) \/ C!PollWithoutHead(a) \/ C!CommandStep(a)
    PROVE  Accounted'
<1>1. ASSUME UNCHANGED <<head, deposits, cursor, subscribedAt, missed, deposited>>,
             rpcFaults' = rpcFaults \/ rpcFaults' = rpcFaults + 1,
             \/ UNCHANGED chainSession
             \/ chainSession' = [chainSession EXCEPT ![a] = "connecting"]
             \/ chainSession' = [chainSession EXCEPT ![a] = "subscribing"]
             \/ chainSession' = [chainSession EXCEPT ![a] = "ended"]
      PROVE  Accounted'
  <2>1. \A c \in Accounts : chainSession'[c] = "running" => chainSession[c] = "running"
    BY <1>1 DEF Quiet, Sessions
  <2>2. \A c \in Accounts : \A b : C!Told(c, "poll", b)' = C!Told(c, "poll", b)
    BY <1>1, ToldSame
  <2> QED  BY <1>1, <2>1, <2>2, StillAccounted
<1>2. CASE C!AddSession(a) \/ C!Connect(a) \/ C!SubscribeStreaming(a)
  <2>1. /\ UNCHANGED <<head, deposits, cursor, subscribedAt, missed, deposited, rpcFaults>>
        /\ \/ UNCHANGED chainSession
           \/ chainSession' = [chainSession EXCEPT ![a] = "connecting"]
           \/ chainSession' = [chainSession EXCEPT ![a] = "subscribing"]
    BY <1>2 DEF C!AddSession, C!Connect, C!SubscribeStreaming, C!chain, C!polling
  <2> QED  BY <1>1, <2>1
<1>3. CASE C!FailToStart(a) \/ C!StopSession(a)
  <2>1. /\ UNCHANGED <<head, deposits, cursor, subscribedAt, missed, deposited>>
        /\ rpcFaults' = rpcFaults \/ rpcFaults' = rpcFaults + 1
        /\ chainSession' = [chainSession EXCEPT ![a] = "ended"]
    BY <1>3 DEF C!FailToStart, C!StopSession, C!Ends, C!RpcFault, C!chain
  <2> QED  BY <1>1, <2>1
<1>4. CASE C!StreamClosed(a) \/ C!PollWithoutHead(a)
  <2>1. /\ UNCHANGED <<head, deposits, cursor, subscribedAt, missed, deposited, chainSession>>
        /\ rpcFaults' = rpcFaults + 1
    BY <1>4 DEF C!StreamClosed, C!PollWithoutHead, C!Poll, C!RpcFault, C!chain, C!polling
  <2> QED  BY <1>1, <2>1
<1>5. CASE C!CommandStep(a)
  <2>1. UNCHANGED <<head, deposits, cursor, subscribedAt, missed, deposited, chainSession>>
    BY <1>5 DEF C!CommandStep, C!ForwardPoll, C!CompleteMint, C!CompleteRoute, C!CompleteTransfer,
           C!Complete,
       C!RefuseCommand, C!FailAttempt, C!FailTransfer, C!Execute, C!chain, C!polling
  <2>2. rpcFaults' = rpcFaults \/ rpcFaults' = rpcFaults + 1
    BY <1>5 DEF C!CommandStep, C!ForwardPoll, C!CompleteMint, C!CompleteRoute, C!CompleteTransfer,
           C!Complete,
       C!RefuseCommand, C!FailAttempt, C!FailTransfer, C!RpcFault
  <2> QED  BY <1>1, <2>1, <2>2
<1> QED  BY <1>2, <1>3, <1>4, <1>5

\* A deposit that comes by the websocket is not one of the polls'.
LEMMA StreamAccounted ==
    ASSUME Accounted, Quiet, NEW a \in Accounts, C!HandleStreamed(a)
    PROVE  Accounted'
<1>1. /\ UNCHANGED <<head, deposits, cursor, subscribedAt, missed, chainSession, rpcFaults>>
      /\ C!Deposit(a, "stream", {Head(streamed[a])})
  BY DEF C!HandleStreamed, C!chain, C!polling
<1>2. \A c \in Accounts : \A b : C!Told(c, "poll", b)' = C!Told(c, "poll", b) + 0
  BY <1>1, ToldMore DEF Quiet
<1>3. \A c \in Accounts : \A b : C!Told(c, "poll", b)' = C!Told(c, "poll", b)
  BY <1>2, ToldNat DEF Quiet
<1> QED  BY <1>1, <1>3, StillAccounted

\* Every step of the connector accounts for the blocks.
LEMMA AccountedKept == ASSUME ChainParameters, Accounted, Quiet, [C!Next]_(C!vars) PROVE Accounted'
<1>1. CASE UNCHANGED C!vars \/ C!PollOnce \/ C!MintIndex \/ C!TransferToAccount \/ C!CustodyToAddress
  <2>1. UNCHANGED <<head, deposits, cursor, subscribedAt, missed, deposited, chainSession, rpcFaults>>
    BY <1>1 DEF C!vars, C!PollOnce, C!MintIndex, C!TransferToAccount, C!CustodyToAddress,
           C!SendCommand, C!chain, C!polling
  <2>2. \A c \in Accounts : \A b : C!Told(c, "poll", b)' = C!Told(c, "poll", b)
    BY <2>1, ToldSame
  <2> QED  BY <2>1, <2>2, StillAccounted
<1>2. ASSUME NEW withDeposit \in BOOLEAN, C!Mine(withDeposit) PROVE Accounted'
  BY <1>2, MineAccounted
<1>3. ASSUME NEW a \in Accounts,
             \/ C!AddSession(a) \/ C!StartStep(a) \/ C!StopSession(a)
             \/ C!HandleStreamed(a) \/ C!StreamClosed(a)
             \/ C!PollLogEvents(a) \/ C!PollWithoutHead(a) \/ C!PollBreaksOff(a)
             \/ C!CommandStep(a)
      PROVE  Accounted'
  <2>1. CASE C!SubscribePolling(a)
    BY <2>1, SubscribeAccounted DEF Quiet
  <2>2. CASE C!HandleStreamed(a)
    BY <2>2, StreamAccounted
  <2>3. CASE C!PollLogEvents(a) \/ C!PollBreaksOff(a)
    BY <2>3, PollAccounted
  <2>4. CASE \/ C!AddSession(a) \/ C!Connect(a) \/ C!SubscribeStreaming(a) \/ C!FailToStart(a)
             \/ C!StopSession(a) \/ C!StreamClosed(a) \/ C!PollWithoutHead(a) \/ C!CommandStep(a)
    BY <2>4, OthersAccounted
  <2> QED  BY <1>3, <2>1, <2>2, <2>3, <2>4 DEF C!StartStep
<1> QED  BY <1>1, <1>2, <1>3 DEF C!Next

\* Nothing is on the chain, told or sent when the connector starts.
LEMMA ChainStarts == ASSUME ChainParameters, C!Init PROVE Accounted /\ Commanded
<1>1. Commanded
  <2>1. CommandTypes
    <3>1. <<>> \in Answers /\ <<>> \in Seq(Command) /\ MaxSends \in Nat
      BY DEF Answers, ChainParameters
    <3>2. commandQueue \in [Accounts -> Seq(Command)]
      BY <3>1 DEF C!Init
    <3>3. commandAnswer \in [C!Commands -> Answers]
      BY <3>1 DEF C!Init
    <3> QED  BY <3>1, <3>2, <3>3 DEF C!Init, CommandTypes
  <2>2. QueuedUnanswered /\ QueuedOnce
    BY DEF C!Init, QueuedUnanswered, QueuedOnce
  <2>3. AnswersTrue
    BY DEF C!Init, AnswersTrue, Range, C!Range
  <2> QED  BY <2>1, <2>2, <2>3 DEF Commanded
<1>2. \A c \in Accounts : \A b : C!Told(c, "poll", b) = 0
  BY DEF C!Init, C!Told, EmptyBag, C!EmptyBag, SetToBag, C!SetToBag, BagIn, C!BagIn, BagToSet,
         C!BagToSet
<1>3. Blocks /\ Cursors
  BY DEF C!Init, Blocks, Cursors, ChainParameters
<1>4. ToldMined /\ GivenUp /\ C!PolledOnce
  BY <1>2 DEF C!Init, ToldMined, GivenUp, C!PolledOnce
<1> QED  BY <1>1, <1>3, <1>4 DEF Accounted

\* What the arbiter, the commands in the queues and the cursors say of each other, in
\* every behaviour of the connector.
THEOREM AccountedHolds == ASSUME ChainParameters PROVE C!Spec => [](Commanded /\ Accounted)
<1>1. C!Init => Commanded /\ Accounted
  BY ChainStarts
<1>2. Quiet /\ Commanded /\ Accounted /\ [C!Next]_(C!vars) => (Commanded /\ Accounted)'
  BY CommandsKept, AccountedKept
<1> QED  BY <1>1, <1>2, QuietHolds, PTL DEF C!Spec

\* What is told of the chain has happened there, and once, for every set of accounts,
\* every window, and whatever calls fail (issuer_stream.rs, multiprovider.rs).
THEOREM ToldAsHappened == ASSUME ChainParameters PROVE C!Spec => []C!ChainAccounted
<1>1. Commanded /\ Accounted => C!ChainAccounted
  BY HopsFollow, ReachFollows DEF Accounted, C!ChainAccounted
<1> QED  BY <1>1, AccountedHolds, PTL

-------------------------------------------------------------------------------
(* The parts among the others.                                               *)

\* Among the other parts the quotes behave as their own module says
\* (quote_request_manager.rs, solver.rs).
THEOREM QuotesSpec == Spec => Q!Spec
<1>1. Init => Q!Init
  BY DEF Init
<1>2. [Next]_vars => [Q!Next]_(Q!vars)
  BY DEF Next, vars, quoteVars, Q!vars
<1> QED  BY <1>1, <1>2, PTL DEF Spec, Q!Spec

\* So does the chain connector (session.rs, issuer_stream.rs).
THEOREM ChainSpec == Spec => C!Spec
<1>1. Init => C!Init
  BY DEF Init
<1>2. [Next]_vars => [C!Next]_(C!vars)
  BY DEF Next, vars, chainVars, C!vars
<1> QED  BY <1>1, <1>2, PTL DEF Spec, C!Spec

\* And the life cycle of the application (solver.rs, solver_config.rs).
THEOREM LifecycleSpec == Spec => L!Spec
<1>1. Init => L!Init
  BY DEF Init
<1>2. [Next]_vars => [L!Next]_(L!vars)
  BY DEF Next, vars, lifecycleVars, L!vars
<1> QED  BY <1>1, <1>2, PTL DEF Spec, L!Spec

\* And market data (binance_subscriber.rs, order_book_manager.rs).
THEOREM MarketSpec == Spec => M!Spec
<1>1. Init => M!Init
  BY DEF Init
<1>2. [Next]_vars => [M!Next]_(M!vars)
  BY DEF Next, vars, marketVars, M!vars
<1> QED  BY <1>1, <1>2, PTL DEF Spec, M!Spec

\* Manager, queues and clients agree on which quotes wait for an answer, for any
\* clients, symbols and quotes (QuoteRequestManager, solve_quotes).
THEOREM QuotesAlwaysAgree == Spec => []QuotesAgree
  BY QuotesSpec, QuotesHold, Parameters, PTL DEF QuotesAgree

\* Deposits are reported and transfers answered as they happened, for any accounts,
\* window and number of faults (issuer_stream.rs, multiprovider.rs).
THEOREM ChainAlwaysAccounted == Spec => []ChainAccounted
  BY ChainSpec, ToldAsHappened, Parameters, PTL DEF ChainAccounted

\* A stop that completes leaves on disk what the managers know, and main panics
\* only after a rejected order or in mode quotes (SolverConfig::stop).
THEOREM StopsAlwaysInOrder == Spec => []StopsInOrder
  BY LifecycleSpec, Stops, PTL DEF StopsInOrder

\* A solver that shuts down does not come back, and a chain session that was stopped
\* stays quiet (complete_warming_up, session.rs).
THEOREM StoppedStays == Spec => StopsStay
  BY ChainSpec, LifecycleSpec, StaysQuiet, Sticks, PTL DEF StopsStay

\* What readers see of a symbol is a book of the exchange, for any symbols and numbers
\* of subscribers, updates and failures, as long as no snapshot takes longer than the
\* arbiter's check period (binance_subscriber.rs, order_book_manager.rs).
THEOREM BooksAlwaysShown == ASSUME SlowSnapshots = FALSE PROVE Spec => IsBookView
<1>1. IsFiniteSet(Listed)
  BY Parameters
<1>2. M!Spec => M!IsBookView
  BY <1>1, M!ShowsBooks DEF IsFiniteSet, M!IsFiniteSet
<1> QED  BY <1>2, MarketSpec, PTL DEF IsBookView

================================================================================
