---------------------------- MODULE ChainConnector ----------------------------
(* The chain connector (libs/alloy-chain-connector): the arbiter, a session   *)
(* for each account with its command loop, the two streams of deposits that   *)
(* every session opens, and the sender that hands commands to the sessions in *)
(* turn. The chain and the RPC providers are external.                        *)
EXTENDS Integers, FiniteSets, BagsExt, SequencesExt

CONSTANTS Accounts,
          FirstBlock,    \* head of the chain at the start
          MaxBlocks,     \* bound: blocks mined
          Window,        \* blocks a poll looks back at most (10_000)
          WordSize,      \* block numbers are modulo this (2^64)
          WebSocket,     \* whether there is a provider with a wss:// url
          Attempts,      \* length of retry_backoff
          MaxSends,      \* bound: commands sent
          MaxPolls,      \* bound: polls waiting in a channel
          MaxRpcFaults   \* bound: calls of a provider that fail

VARIABLES head,          \* most recent block
          deposits,      \* blocks with a deposit to an index
          chainSession,  \* Sessions.sessions: what each session does
          senderTurn,    \* RealChainConnectorSender.account_names
          commandQueue,  \* command_rx of each session: [id, kind]
          attempt,       \* attempts made at the command in hand
          pollQueue,     \* poll_rx of each session
          cursor,        \* last_block_from
          subscribedAt,  \* head when the polling stream was subscribed
          streamed,      \* blocks the websocket stream has yet to report
          streaming,     \* whether the websocket stream's task runs
          deposited,     \* bag of Deposit notifications: <<account, stream, block>>
          missed,        \* blocks given up by a poll: <<account, block>>
          connection,    \* last ChainConnected or ChainDisconnected of a session
          executed,      \* how often the chain executed a command
          commandAnswer, \* the answers to a command, in order
          sends, rpcFaults \* how much of the bounds is used
vars == <<head, deposits, chainSession, senderTurn, commandQueue, attempt, pollQueue, cursor,
          subscribedAt, streamed, streaming, deposited, missed, connection, executed,
          commandAnswer, sends, rpcFaults>>
chain == <<head, deposits>>
polling == <<pollQueue, cursor, subscribedAt, missed>>
stream == <<streamed, streaming>>
commands == <<senderTurn, commandQueue, attempt, executed, commandAnswer, sends>>

Commands == 1 .. MaxSends

Init == /\ head = FirstBlock /\ deposits = {}
        /\ chainSession = [a \in Accounts |-> "none"]
        /\ senderTurn \in SetToSeqs(Accounts)
        /\ commandQueue = [a \in Accounts |-> <<>>]
        /\ attempt = [a \in Accounts |-> 0]
        /\ pollQueue = [a \in Accounts |-> 0]
        /\ cursor = [a \in Accounts |-> 0] /\ subscribedAt = [a \in Accounts |-> 0]
        /\ streamed = [a \in Accounts |-> <<>>]
        /\ streaming = [a \in Accounts |-> FALSE]
        /\ deposited = EmptyBag /\ missed = {}
        /\ connection = [a \in Accounts |-> "none"]
        /\ executed = [c \in Commands |-> 0]
        /\ commandAnswer = [c \in Commands |-> <<>>]
        /\ sends = 0 /\ rpcFaults = 0

\* The chain: a block, with or without a deposit. Streams get it.
Mine(withDeposit) ==
    /\ head < FirstBlock + MaxBlocks
    /\ head' = head + 1
    /\ deposits' = IF withDeposit THEN deposits \cup {head'} ELSE deposits
    /\ streamed' = [a \in Accounts |-> IF withDeposit /\ streaming[a]
                                       THEN Append(streamed[a], head') ELSE streamed[a]]
    /\ UNCHANGED <<chainSession, streaming, deposited, connection, rpcFaults>>
    /\ UNCHANGED <<polling, commands>>

RpcFault == rpcFaults < MaxRpcFaults /\ rpcFaults' = rpcFaults + 1

-------------------------------------------------------------------------------
(* The start of a session.                                                    *)

\* Arbiter: credentials of an account that has no session yet.
AddSession(a) ==
    /\ chainSession[a] = "none"
    /\ chainSession' = [chainSession EXCEPT ![a] = "connecting"]
    /\ UNCHANGED <<deposited, connection, rpcFaults>>
    /\ UNCHANGED <<chain, polling, stream, commands>>

Ends(a) == /\ chainSession' = [chainSession EXCEPT ![a] = "ended"]
           /\ connection' = [connection EXCEPT ![a] = "disconnected"]
           /\ commandQueue' = [commandQueue EXCEPT ![a] = <<>>]
           /\ pollQueue' = [pollQueue EXCEPT ![a] = 0]

Connect(a) ==
    /\ chainSession[a] = "connecting"
    /\ chainSession' = [chainSession EXCEPT ![a] = "subscribing"]
    /\ connection' = [connection EXCEPT ![a] = "connected"]
    /\ UNCHANGED <<deposited, rpcFaults>> /\ UNCHANGED <<chain, polling, stream, commands>>

\* Deposits that are mined from here on come through the websocket.
SubscribeStreaming(a) ==
    /\ chainSession[a] = "subscribing" /\ WebSocket /\ ~streaming[a]
    /\ streaming' = [streaming EXCEPT ![a] = TRUE]
    /\ UNCHANGED <<streamed, chainSession, deposited, connection, rpcFaults>>
    /\ UNCHANGED <<chain, polling, commands>>

SubscribePolling(a) ==
    /\ chainSession[a] = "subscribing" /\ (WebSocket => streaming[a])
    /\ chainSession' = [chainSession EXCEPT ![a] = "running"]
    /\ cursor' = [cursor EXCEPT ![a] = head]
    /\ subscribedAt' = [subscribedAt EXCEPT ![a] = head]
    /\ UNCHANGED <<pollQueue, missed, deposited, connection, rpcFaults>>
    /\ UNCHANGED <<chain, stream, commands>>

\* Any of these calls fails. The session is over, its entry stays, and so does
\* the task of a websocket stream it had opened.
FailToStart(a) ==
    /\ chainSession[a] \in {"connecting", "subscribing"}
    /\ RpcFault
    /\ Ends(a)
    /\ UNCHANGED <<cursor, subscribedAt, missed, deposited, senderTurn, attempt, executed,
                   commandAnswer, sends>>
    /\ UNCHANGED <<chain, stream>>

StartStep(a) == \/ Connect(a) \/ SubscribeStreaming(a) \/ SubscribePolling(a)
                \/ FailToStart(a)

\* Mutant: the stream of the websocket is not waited for.
StopSession_StreamRuns(a) ==
    /\ chainSession[a] = "running" /\ attempt[a] = 0
    /\ Ends(a)
    /\ UNCHANGED <<streaming, streamed, cursor, subscribedAt, missed, deposited, senderTurn,
                   attempt, executed, commandAnswer, sends, rpcFaults>>
    /\ UNCHANGED chain

\* Stop, between two commands: streams first, then the notification.
StopSession(a) ==
    /\ chainSession[a] = "running" /\ attempt[a] = 0
    /\ Ends(a)
    /\ streaming' = [streaming EXCEPT ![a] = FALSE]
    /\ streamed' = [streamed EXCEPT ![a] = <<>>]
    /\ UNCHANGED <<cursor, subscribedAt, missed, deposited, senderTurn, attempt, executed,
                   commandAnswer, sends, rpcFaults>>
    /\ UNCHANGED chain

-------------------------------------------------------------------------------
(* Deposits.                                                                  *)

Deposit(a, by, blocks) == deposited' = deposited (+) SetToBag({<<a, by, b>> : b \in blocks})

HandleStreamed(a) ==
    /\ streaming[a] /\ streamed[a] # <<>>
    /\ streamed' = [streamed EXCEPT ![a] = Tail(@)]
    /\ Deposit(a, "stream", {Head(streamed[a])})
    /\ UNCHANGED <<streaming, chainSession, connection, rpcFaults>>
    /\ UNCHANGED <<chain, polling, commands>>

\* All streams closed: the task ends, and nothing subscribes again.
StreamClosed(a) ==
    /\ streaming[a]
    /\ RpcFault
    /\ streaming' = [streaming EXCEPT ![a] = FALSE]
    /\ streamed' = [streamed EXCEPT ![a] = <<>>]
    /\ UNCHANGED <<chainSession, deposited, connection>>
    /\ UNCHANGED <<chain, polling, commands>>

\* Mutants: the cursor is not looked at; the window is a block too short.
From_Window(a) == (head - Window) % WordSize
From_Short(a) == Max({cursor[a], (head - Window + 1) % WordSize})

\* The cursor, moved up to the window. The subtraction wraps.
From(a) == Max({cursor[a], (head - Window) % WordSize})
Polled(a) == {b \in deposits : b \in From(a) + 1 .. head}

Poll(a) == /\ chainSession[a] = "running" /\ pollQueue[a] > 0
           /\ pollQueue' = [pollQueue EXCEPT ![a] = @ - 1]
           /\ UNCHANGED <<subscribedAt, chainSession, connection>>
           /\ UNCHANGED <<chain, stream, commands>>

\* poll_log_events_fn. Blocks behind the window are given up.
PollLogEvents(a) ==
    /\ Poll(a)
    /\ cursor' = [cursor EXCEPT ![a] = Max({From(a), head})]
    /\ Deposit(a, "poll", Polled(a))
    /\ missed' = missed \cup {<<a, b>> : b \in {d \in deposits : d \in cursor[a] + 1 .. From(a)}}
    /\ UNCHANGED rpcFaults

\* The head is not answered: nothing happens.
PollWithoutHead(a) ==
    /\ Poll(a) /\ RpcFault
    /\ UNCHANGED <<cursor, missed, deposited>>

\* The logs are not answered, or one of them cannot be handled and those behind
\* it are left. The cursor has moved already.
PollBreaksOff(a) ==
    /\ Poll(a) /\ RpcFault
    /\ head > From(a)
    /\ cursor' = [cursor EXCEPT ![a] = head]
    /\ \E last \in {From(a)} \cup Polled(a) :
          /\ Deposit(a, "poll", {b \in Polled(a) : b < last})
          /\ missed' = missed \cup {<<a, b>> : b \in {d \in deposits :
                          d \in cursor[a] + 1 .. head /\ ~(d \in Polled(a) /\ d < last)}}

-------------------------------------------------------------------------------
(* Commands: polls, mints, and the transfers of two bridges, "route" from the *)
(* OTC custody and "transfer" from the signer's wallet.                       *)

\* The next account in turn takes the command.
NextAccount == senderTurn[1]
Turn == senderTurn' = Append(Tail(senderTurn), NextAccount)
Alive(a) == chainSession[a] \notin {"none", "ended"}
QueuedPolls(a) == Len(SelectSeq(commandQueue[a], LAMBDA q : q.kind = "poll"))
Queue(a, id, kind) == commandQueue' = [commandQueue EXCEPT ![a] = Append(@, [id |-> id, kind |-> kind])]

\* poll_once, which the solver calls on every tick. A failure is only logged.
PollOnce ==
    /\ Turn
    /\ IF Alive(NextAccount)
       THEN /\ QueuedPolls(NextAccount) + pollQueue[NextAccount] < MaxPolls
            /\ Queue(NextAccount, 0, "poll")
       ELSE UNCHANGED commandQueue
    /\ UNCHANGED <<attempt, executed, commandAnswer, sends, chainSession, deposited,
                   connection, rpcFaults>>
    /\ UNCHANGED <<chain, polling, stream>>

\* A session that ended takes no command: the caller gets the error.
SendCommand(kind) ==
    /\ sends < MaxSends
    /\ sends' = sends + 1
    /\ Turn
    /\ IF Alive(NextAccount)
       THEN /\ Queue(NextAccount, sends', kind)
            /\ UNCHANGED commandAnswer
       ELSE /\ commandAnswer' = [commandAnswer EXCEPT ![sends'] = <<"refused">>]
            /\ UNCHANGED commandQueue
    /\ UNCHANGED <<attempt, executed, chainSession, deposited, connection, rpcFaults>>
    /\ UNCHANGED <<chain, polling, stream>>

MintIndex == SendCommand("mint")
TransferToAccount == SendCommand("transfer")
CustodyToAddress == SendCommand("route")

\* What the bridge of a transfer tells the router: a hop that succeeded, less
\* the gas, or one that failed.
HopComplete(c) == [i \in DOMAIN commandAnswer[c] |->
                     IF commandAnswer[c][i] = "gas_used" THEN "Success" ELSE "Failure"]

\* The command in hand.
Execute(a, kinds) ==
    /\ chainSession[a] = "running" /\ commandQueue[a] # <<>>
    /\ Head(commandQueue[a]).kind \in kinds
    /\ UNCHANGED <<senderTurn, sends, chainSession, deposited, connection>>
    /\ UNCHANGED <<chain, stream>>
Executed(a) == executed' = [executed EXCEPT ![Head(commandQueue[a]).id] = @ + 1]

Answered(a, answers) ==
    /\ commandAnswer' = [commandAnswer EXCEPT ![Head(commandQueue[a]).id] = @ \o answers]
    /\ commandQueue' = [commandQueue EXCEPT ![a] = Tail(@)]
    /\ attempt' = [attempt EXCEPT ![a] = 0]

ForwardPoll(a) ==
    /\ Execute(a, {"poll"})
    /\ commandQueue' = [commandQueue EXCEPT ![a] = Tail(@)]
    /\ pollQueue' = [pollQueue EXCEPT ![a] = @ + 1]
    /\ UNCHANGED <<cursor, subscribedAt, missed, attempt, executed, commandAnswer, rpcFaults>>

\* The transaction has its receipt, and the gas is reported.
Complete(a, kind) ==
    /\ Execute(a, {kind})
    /\ Executed(a)
    /\ Answered(a, <<"gas_used">>)
    /\ UNCHANGED rpcFaults /\ UNCHANGED polling

CompleteMint(a) == Complete(a, "mint")
CompleteRoute(a) == Complete(a, "route")

\* A transfer reads both balances after it reported the gas. When they are not
\* answered its error is reported as well.
CompleteTransfer(a) ==
    \/ Complete(a, "transfer")
    \/ /\ Execute(a, {"transfer"}) /\ RpcFault
       /\ Executed(a)
       /\ Answered(a, <<"gas_used", "error">>)
       /\ UNCHANGED polling

\* Mutants: every attempt that fails is reported; the last one is not.
FailAttempt_Reported(a, onChain) ==
    /\ Execute(a, {"mint", "route"}) /\ RpcFault
    /\ IF onChain THEN Executed(a) ELSE UNCHANGED executed
    /\ commandAnswer' = [commandAnswer EXCEPT ![Head(commandQueue[a]).id] = Append(@, "error")]
    /\ attempt' = [attempt EXCEPT ![a] = IF @ + 1 < Attempts THEN @ + 1 ELSE 0]
    /\ commandQueue' = IF attempt'[a] > 0 THEN commandQueue
                       ELSE [commandQueue EXCEPT ![a] = Tail(@)]
    /\ UNCHANGED polling
FailAttempt_Silent(a, onChain) ==
    /\ Execute(a, {"mint", "route"}) /\ RpcFault
    /\ IF onChain THEN Executed(a) ELSE UNCHANGED executed
    /\ attempt' = [attempt EXCEPT ![a] = IF @ + 1 < Attempts THEN @ + 1 ELSE 0]
    /\ commandQueue' = IF attempt'[a] > 0 THEN commandQueue
                       ELSE [commandQueue EXCEPT ![a] = Tail(@)]
    /\ UNCHANGED commandAnswer /\ UNCHANGED polling

\* try_execute: an attempt of a mint or route that fails is repeated with the
\* next provider until the backoffs are used up. The chain may have executed it,
\* only the receipt is missing.
FailAttempt(a, onChain) ==
    /\ Execute(a, {"mint", "route"})
    /\ RpcFault
    /\ IF onChain THEN Executed(a) ELSE UNCHANGED executed
    /\ IF attempt[a] + 1 < Attempts
       THEN /\ attempt' = [attempt EXCEPT ![a] = @ + 1]
            /\ UNCHANGED <<commandQueue, commandAnswer>>
       ELSE Answered(a, <<"error">>)
    /\ UNCHANGED polling

FailTransfer(a, onChain) ==
    /\ Execute(a, {"transfer"})
    /\ RpcFault
    /\ IF onChain THEN Executed(a) ELSE UNCHANGED executed
    /\ Answered(a, <<"error">>)
    /\ UNCHANGED polling

\* No index or custody of that name, or an amount that cannot be converted.
RefuseCommand(a) ==
    /\ Execute(a, {"mint", "route", "transfer"}) /\ attempt[a] = 0
    /\ Answered(a, <<"error">>)
    /\ UNCHANGED <<executed, rpcFaults>> /\ UNCHANGED polling

CommandStep(a) ==
    \/ ForwardPoll(a) \/ CompleteMint(a) \/ CompleteRoute(a) \/ CompleteTransfer(a)
    \/ RefuseCommand(a)
    \/ \E onChain \in BOOLEAN : FailAttempt(a, onChain) \/ FailTransfer(a, onChain)

Next == \/ \E withDeposit \in BOOLEAN : Mine(withDeposit)
        \/ PollOnce \/ MintIndex \/ TransferToAccount \/ CustodyToAddress
        \/ \E a \in Accounts :
             \/ AddSession(a) \/ StartStep(a) \/ StopSession(a)
             \/ HandleStreamed(a) \/ StreamClosed(a)
             \/ PollLogEvents(a) \/ PollWithoutHead(a) \/ PollBreaksOff(a)
             \/ CommandStep(a)

Spec == Init /\ [][Next]_vars

\* A session's task goes on: it starts, and takes the command in hand.
Fairness == \A a \in Accounts : WF_vars(StartStep(a)) /\ WF_vars(CommandStep(a))
FairSpec == Spec /\ Fairness

-------------------------------------------------------------------------------
(* Properties.                                                                *)

\* How often a session reported the deposit of a block.
Told(a, by, b) == LET d == <<a, by, b>> IN IF BagIn(d, deposited) THEN deposited[d] ELSE 0

(***************************************************************************)
(* A session's polls report a deposit at most once, and every one behind   *)
(* the cursor, except what a poll gave up: the cursor neither skips a      *)
(* block nor comes to one twice, whatever polls fail and however long none *)
(* is asked for. The collateral manager adds up what it is told.           *)
(***************************************************************************)
PolledOnce ==
    \A a \in Accounts : chainSession[a] = "running" =>
        \A b \in {d \in deposits : d > subscribedAt[a]} :
            Told(a, "poll", b) =
                IF b <= cursor[a] /\ <<a, b>> \notin missed THEN 1 ELSE 0

(***************************************************************************)
(* A deposit that is mined while a session runs is not lost unless a call  *)
(* of a provider fails: it is ahead of the cursor, or reported, or behind  *)
(* the window.                                                             *)
(***************************************************************************)
DepositsWithinReach ==
    \A a \in Accounts, b \in deposits :
        chainSession[a] = "running" /\ rpcFaults = 0 /\ b > subscribedAt[a] =>
            \/ b > cursor[a]
            \/ <<a, "poll", b>> \in BagToSet(deposited)
            \/ b <= head - Window

(***************************************************************************)
(* A hop is complete once, and as a success only when the chain executed   *)
(* its transfer, however often it is tried. The exception is the wallet's   *)
(* own transfer, which fails after it succeeded when the balances cannot   *)
(* be read; the router is told of both.                                      *)
(***************************************************************************)
HopsSettled ==
    \A c \in Commands :
        /\ Len(HopComplete(c)) <= 1 \/ HopComplete(c) = <<"Success", "Failure">>
        /\ "Success" \in Range(HopComplete(c)) => executed[c] > 0

\* What is told of the chain has happened there, and once: deposits by the polls
\* of a session, transfers by the answer to their hop.
ChainAccounted == PolledOnce /\ DepositsWithinReach /\ HopsSettled

(***************************************************************************)
(* No deposit is reported by a session that was stopped: it waits for both *)
(* of its streams before it says that it is disconnected. (One that failed *)
(* to start is not: its websocket stream goes on.)                         *)
(***************************************************************************)
QuietWhenStopped ==
    [][\A a \in Accounts : connection[a] = "disconnected" /\ subscribedAt[a] # 0 =>
          \A b \in deposits', by \in {"stream", "poll"} :
              Told(a, by, b)' = Told(a, by, b)]_vars

(***************************************************************************)
(* A command that a session has is answered, however often it is tried,    *)
(* unless the session ends.                                                *)
(***************************************************************************)
CommandsAnswered ==
    \A a \in Accounts, c \in Commands :
        (\E kind \in {"mint", "route", "transfer"} :
            [id |-> c, kind |-> kind] \in Range(commandQueue[a]))
            ~> commandAnswer[c] # <<>> \/ chainSession[a] = "ended"

\* Not kept: an attempt whose receipt is lost is repeated (multiprovider.rs:77),
\* so that a transfer or a mint may happen twice.
ExecutedOnce == \A c \in Commands : executed[c] <= 1
================================================================================
