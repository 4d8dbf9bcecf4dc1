------------------------------ MODULE FixGateway ------------------------------
(* The FIX server: WebSocket sessions (axum-fix-server) with the plugin of    *)
(* server/fix that numbers, throttles, authorises and publishes what clients  *)
(* send and addresses what the solver answers. One handler task runs per      *)
(* connection; the solver's thread prepares a response for all sessions of    *)
(* its user and then hands it to them one by one; the main thread closes and  *)
(* stops the server. A session is known by its number, and what a client      *)
(* sends is chosen when the handler reads it.                                 *)
EXTENDS Integers, FiniteSets, RateLimits

CONSTANTS Sessions,       \* 1 .. the most sessions ever created
          Users, NoUser,  \* clients, and the nobody every message is charged to
          Global,         \* the limiter that all sessions share
          Proto,          \* the session "S-proto" that no client has
          Kinds,          \* kinds of requests
          Weight,         \* what a request of a kind weighs
          GlobalLimits, SessionLimits, UserLimits,
          MaxReceived,    \* bound: messages read on all sessions
          MaxAnswers,     \* bound: responses to all requests
          MaxFaults,      \* bound: clients that turn odd or stay idle for a timeout
          MaxTime         \* bound: ticks of the clock

ASSUME SessionsAssumption == IsFiniteSet(Sessions) /\ Sessions = 1 .. Cardinality(Sessions)
ASSUME WeightAssumption == Weight \in [Kinds -> Nat \ {0}]
ASSUME NamesAssumption == /\ Proto \notin Sessions
                          /\ Users \cap (Sessions \cup {Global, NoUser}) = {}
ASSUME TimeAssumption == MaxTime \in Nat
ASSUME LimitsAssumption ==
    /\ IsFiniteSet(UserLimits) /\ UserLimits # {}
    /\ \A config \in UserLimits : config.limit \in Nat /\ config.period \in Nat

VARIABLES accepting,    \* accept_connections
          upgrading,    \* upgrades between the check and create_session
          handler,      \* where the handler of a session is
          registered,   \* ServerState.sessions
          cancelled,    \* sessions whose token is cancelled
          pinged,       \* sessions that owe a pong
          peer,         \* the client's end of the connection
          reply,        \* the answer the handler is about to send
          channel,      \* what waits in the session's channel
          wire,         \* what the client was sent
          recvSeq, sentSeq,   \* last_received_seq_num, last_sent_seq_num
          userSessions, \* UserPlugin.users_sessions
          limiters,     \* the windows of RateLimitPlugin
          published,    \* the events given to the observers
          outgoing,     \* a response on its way to the channels
          stopping,     \* sessions that stop_server has still to close
          received, answered, faults,  \* how much of the bounds is used
          now
vars == <<accepting, upgrading, handler, registered, cancelled, pinged, peer,
          reply, channel, wire, recvSeq, sentSeq, userSessions, limiters,
          published, outgoing, stopping, received, answered, faults, now>>

NoReply == [type |-> "none", seq |-> 0, re |-> 0]
Keys == {Global, NoUser} \cup Sessions \cup Users

Configs(key) == CASE key = Global -> GlobalLimits
                  [] key \in Sessions -> SessionLimits
                  [] OTHER -> UserLimits

\* The maps of SeqNumPlugin: a session without an entry counts from 0.
SeqNum(map, s) == IF s \in DOMAIN map THEN map[s] ELSE 0
WithSeq(map, s, n) == [t \in DOMAIN map \cup {s} |-> IF t = s THEN n ELSE map[t]]
Without(map, s) == [t \in DOMAIN map \ {s} |-> map[t]]

Init == /\ accepting = TRUE
        /\ upgrading = 0
        /\ handler = [s \in Sessions |-> "new"]
        /\ registered = {} /\ cancelled = {} /\ pinged = {} /\ stopping = {}
        /\ peer = [s \in Sessions |-> "up"]
        /\ reply = [s \in Sessions |-> NoReply]
        /\ channel = [s \in Sessions |-> <<>>]
        /\ wire = [s \in Sessions |-> <<>>]
        /\ recvSeq = <<>> /\ sentSeq = <<>>
        /\ userSessions = [u \in Users |-> {}]
        /\ limiters = [k \in Keys |-> <<>>]
        /\ published = <<>>
        /\ outgoing = {}
        /\ received = 0 /\ answered = 0 /\ faults = 0
        /\ now = 0

-------------------------------------------------------------------------------
(* The handler's task.                                                        *)

connection == <<accepting, upgrading, registered, cancelled, stopping>>
solving == <<published, outgoing, answered>>

Created == {s \in Sessions : handler[s] # "new"}

Upgrade == /\ accepting
           /\ Cardinality(Created) + upgrading < Cardinality(Sessions)
           /\ upgrading' = upgrading + 1
           /\ UNCHANGED <<accepting, handler, registered, cancelled, pinged, peer, reply,
                          channel, wire, recvSeq, sentSeq, userSessions, limiters,
                          published, outgoing, stopping, received, answered, faults, now>>

CreateSession ==
    LET s == Cardinality(Created) + 1
    IN  /\ upgrading > 0
        /\ upgrading' = upgrading - 1
        /\ handler' = [handler EXCEPT ![s] = "open"]
        /\ registered' = registered \cup {s}
        /\ recvSeq' = WithSeq(recvSeq, s, 0)
        /\ sentSeq' = WithSeq(sentSeq, s, 0)
        /\ UNCHANGED <<accepting, cancelled, pinged, peer, reply, channel, wire,
                       userSessions, limiters, published, outgoing,
                       stopping, received, answered, faults, now>>

\* Mutant: the number of an answer is not remembered.
Reply_Forgotten(s, type, re) ==
    /\ reply' = [reply EXCEPT ![s] = [type |-> type, seq |-> SeqNum(sentSeq, s) + 1, re |-> re]]
    /\ handler' = [handler EXCEPT ![s] = "replying"]
    /\ UNCHANGED sentSeq

\* Every answer takes the next number of the session.
Reply(s, type, re) ==
    LET seq == SeqNum(sentSeq, s) + 1
    IN  /\ reply' = [reply EXCEPT ![s] = [type |-> type, seq |-> seq, re |-> re]]
        /\ sentSeq' = WithSeq(sentSeq, s, seq)
        /\ handler' = [handler EXCEPT ![s] = "replying"]

\* Each limiter is charged only when those before it let the message pass.
Passes(key) == Allowed(limiters[key], Configs(key), 1, now)
Charged(s) == CASE ~Passes(Global) -> {Global}
                [] Passes(Global) /\ ~Passes(s) -> {Global, s}
                [] OTHER -> {Global, s, NoUser}
CheckRateLimits(s) == \A key \in {Global, s, NoUser} : Passes(key)

Checked(s) == [key \in Keys |->
                 IF key \in Charged(s)
                 THEN Consume(limiters[key], Configs(key), 1, now)
                 ELSE limiters[key]]

\* Mutant: the weight is put without a check.
WeightAllowed_Unchecked(u, kind) == TRUE

WeightAllowed(u, kind) == Allowed(limiters[u], UserLimits, Weight[kind], now)
Weighed(s, u, kind) ==
    [Checked(s) EXCEPT ![u] = Consume(@, UserLimits, Weight[kind], now)]

Reading(s) == /\ handler[s] = "open"
              /\ peer[s] = "up"
              /\ received < MaxReceived
              /\ received' = received + 1
              /\ UNCHANGED <<connection, pinged, peer, channel, wire, faults, now>>

AddUserSession(s, u) == userSessions' = [userSessions EXCEPT ![u] = @ \cup {s}]

RefuseRate(s) == /\ Reading(s)
                 /\ ~CheckRateLimits(s)
                 /\ limiters' = Checked(s)
                 /\ Reply(s, "nak", 0)
                 /\ UNCHANGED <<recvSeq, userSessions, solving>>

\* A message that does not parse, or that is not signed by its address.
RefuseUnread(s) == /\ Reading(s)
                   /\ CheckRateLimits(s)
                   /\ limiters' = Checked(s)
                   /\ Reply(s, "nak", 0)
                   /\ UNCHANGED <<recvSeq, userSessions, solving>>

RefuseWeight(s, u, kind) == /\ Reading(s)
                            /\ CheckRateLimits(s)
                            /\ ~WeightAllowed(u, kind)
                            /\ AddUserSession(s, u)
                            /\ limiters' = Weighed(s, u, kind)
                            /\ Reply(s, "nak", 0)
                            /\ UNCHANGED <<recvSeq, solving>>

\* What Accept, RefuseSequence and RefuseContent have in common.
Weighing(s, u, kind) == /\ Reading(s)
                        /\ CheckRateLimits(s)
                        /\ WeightAllowed(u, kind)
                        /\ AddUserSession(s, u)
                        /\ limiters' = Weighed(s, u, kind)

\* Mutant: the number received last is taken again.
ValidSeqNum_Repeated(s, n) == n \in {SeqNum(recvSeq, s), SeqNum(recvSeq, s) + 1}

ValidSeqNum(s, n) == SeqNum(recvSeq, s) + 1 = n

RefuseSequence(s, u, kind, n) == /\ Weighing(s, u, kind)
                                 /\ ~ValidSeqNum(s, n)
                                 /\ Reply(s, "nak", 0)
                                 /\ UNCHANGED <<recvSeq, solving>>

\* The number is taken before the side, the amount and the time are looked at.
RefuseContent(s, u, kind, n) == /\ Weighing(s, u, kind)
                                /\ ValidSeqNum(s, n)
                                /\ recvSeq' = WithSeq(recvSeq, s, n)
                                /\ Reply(s, "nak", 0)
                                /\ UNCHANGED solving

\* What the observers are told of a request.
ServerEvent(s, u, kind, n) ==
    [session |-> s, user |-> u, kind |-> kind, seq |-> n, time |-> now]

\* The event is published before its ACK leaves, with the ACK's number taken.
Accept(s, u, kind, n) ==
    /\ Weighing(s, u, kind)
    /\ ValidSeqNum(s, n)
    /\ recvSeq' = WithSeq(recvSeq, s, n)
    /\ Reply(s, "ack", Len(published) + 1)
    /\ published' = Append(published, ServerEvent(s, u, kind, n))
    /\ UNCHANGED <<outgoing, answered>>

Rest == UNCHANGED <<connection, recvSeq, sentSeq, userSessions, limiters, solving,
                    received, now>>
Leave(s) == handler' = [handler EXCEPT ![s] = "closing"]

SendReply(s) ==
    /\ handler[s] = "replying"
    /\ reply' = [reply EXCEPT ![s] = NoReply]
    /\ \/ /\ peer[s] # "closed"
          /\ wire' = [wire EXCEPT ![s] = Append(@, reply[s])]
          /\ handler' = [handler EXCEPT ![s] = "open"]
       \/ /\ peer[s] = "closed"
          /\ Leave(s)
          /\ UNCHANGED wire
    /\ UNCHANGED <<pinged, peer, channel, faults>> /\ Rest

\* Mutant: the channel is read while an answer is still to be sent.
Forward_Ahead(s) ==
    /\ handler[s] \in {"open", "replying"}
    /\ channel[s] # <<>>
    /\ peer[s] # "closed"
    /\ channel' = [channel EXCEPT ![s] = Tail(@)]
    /\ wire' = [wire EXCEPT ![s] = Append(@, Head(channel[s]))]
    /\ UNCHANGED <<handler, pinged, peer, reply, faults>> /\ Rest

Forward(s) ==
    /\ handler[s] = "open"
    /\ channel[s] # <<>>
    /\ channel' = [channel EXCEPT ![s] = Tail(@)]
    /\ \/ /\ peer[s] # "closed"
          /\ wire' = [wire EXCEPT ![s] = Append(@, Head(channel[s]))]
          /\ UNCHANGED handler
       \/ /\ peer[s] = "closed"
          /\ Leave(s)
          /\ UNCHANGED wire
    /\ UNCHANGED <<pinged, peer, reply, faults>> /\ Rest

\* Mutant: a ping that was not answered is sent again.
Timeout_PingAgain(s) ==
    /\ handler[s] = "open" /\ peer[s] = "silent"
    /\ pinged' = pinged \cup {s}
    /\ UNCHANGED <<handler, faults, peer, reply, channel, wire>> /\ Rest

\* Nothing happened for the whole timeout: ping, and give up if a pong is owed.
Timeout(s) ==
    /\ handler[s] = "open"
    /\ \/ /\ s \notin pinged /\ peer[s] # "closed"
          /\ pinged' = pinged \cup {s}
          /\ peer[s] = "up" => faults < MaxFaults
          /\ faults' = IF peer[s] = "up" THEN faults + 1 ELSE faults
          /\ UNCHANGED handler
       \/ /\ s \in pinged \/ peer[s] = "closed"
          /\ Leave(s)
          /\ UNCHANGED <<pinged, faults>>
    /\ UNCHANGED <<peer, reply, channel, wire>> /\ Rest

Pong(s) == /\ handler[s] = "open" /\ peer[s] = "up"
           /\ s \in pinged
           /\ pinged' = pinged \ {s}
           /\ UNCHANGED <<handler, peer, reply, channel, wire, faults>> /\ Rest

Ended(s) == /\ handler[s] = "open"
            /\ s \in cancelled \/ peer[s] = "closed"
            /\ Leave(s)
            /\ UNCHANGED <<pinged, peer, reply, channel, wire, faults>> /\ Rest

\* A frame the server does not take: binary, a ping, a pong nobody waits for.
OddFrame(s) == /\ handler[s] = "open" /\ peer[s] = "up"
               /\ faults < MaxFaults /\ faults' = faults + 1
               /\ Leave(s)
               /\ UNCHANGED <<pinged, peer, reply, channel, wire>> /\ Rest

\* Mutant: the user is forgotten with the session.
Destroy_User(s) ==
    /\ limiters' = [limiters EXCEPT ![s] = <<>>]
    /\ userSessions' = [u \in Users |-> IF s \in userSessions[u] THEN {} ELSE userSessions[u]]
    /\ recvSeq' = Without(recvSeq, s)
    /\ sentSeq' = Without(sentSeq, s)
    /\ registered' = registered \ {s}

\* plugin.destroy_session: the session leaves one of its users, if it has any.
Destroy(s) ==
    LET mine == {u \in Users : s \in userSessions[u]}
    IN  /\ limiters' = [limiters EXCEPT ![s] = <<>>]
        /\ \/ mine = {} /\ UNCHANGED userSessions
           \/ \E u \in mine : userSessions' = [userSessions EXCEPT ![u] = @ \ {s}]
        /\ recvSeq' = Without(recvSeq, s)
        /\ sentSeq' = Without(sentSeq, s)
        /\ registered' = registered \ {s}

\* The token, what waits and what was sent go with the task.
Close(s) == /\ handler[s] = "closing"
            /\ handler' = [handler EXCEPT ![s] = "gone"]
            /\ Destroy(s)
            /\ channel' = [channel EXCEPT ![s] = <<>>]
            /\ wire' = [wire EXCEPT ![s] = <<>>]
            /\ cancelled' = cancelled \ {s} /\ pinged' = pinged \ {s}
            /\ peer' = [peer EXCEPT ![s] = "up"]
            /\ UNCHANGED <<accepting, upgrading, reply, solving,
                           stopping, received, answered, faults, now>>

-------------------------------------------------------------------------------
(* The solver's thread, the main thread, the clients and the clock.           *)

\* Mutant: a response is addressed to its user and not to the user's sessions.
Respond_ByUser(e) ==
    LET u == published[e].user
    IN  /\ outgoing = {}
        /\ answered < MaxAnswers /\ answered' = answered + 1
        /\ sentSeq' = WithSeq(sentSeq, u, SeqNum(sentSeq, u) + 1)
        /\ outgoing' = {[session |-> u, re |-> e, seq |-> SeqNum(sentSeq, u) + 1]}
        /\ UNCHANGED <<connection, handler, pinged, peer, reply, channel, wire, recvSeq,
                       userSessions, limiters, published, received, faults, now>>

\* Without a session the user is answered on the one that nobody reads.
UserSessions(u) == IF userSessions[u] = {} THEN {Proto} ELSE userSessions[u]
NextSeqNum(s) == SeqNum(sentSeq, s) + 1
\* The response for one session, with the request it answers.
FixResponse(s, e) == [session |-> s, re |-> e, seq |-> NextSeqNum(s)]

\* process_outgoing: one number per session of the user, then one send each.
Respond(e) ==
    LET to == UserSessions(published[e].user)
    IN  /\ outgoing = {}
        /\ answered < MaxAnswers
        /\ answered' = answered + 1
        /\ sentSeq' = [s \in DOMAIN sentSeq \cup to |->
                         IF s \in to THEN NextSeqNum(s) ELSE sentSeq[s]]
        /\ outgoing' = {FixResponse(s, e) : s \in to}
        /\ UNCHANGED <<connection, handler, pinged, peer, reply, channel, wire, recvSeq,
                       userSessions, limiters, published, received, faults, now>>

Deliver == \E o \in outgoing :
    /\ outgoing' = outgoing \ {o}
    /\ channel' = IF o.session \in registered
                  THEN [channel EXCEPT ![o.session] =
                          Append(@, [type |-> "response", seq |-> o.seq, re |-> o.re])]
                  ELSE channel
    /\ UNCHANGED <<connection, handler, pinged, peer, reply, wire, recvSeq, sentSeq,
                   userSessions, limiters, published, answered, received, faults, now>>

CloseServer == /\ accepting
               /\ accepting' = FALSE
               /\ UNCHANGED <<upgrading, handler, registered, cancelled, pinged, peer,
                              reply, channel, wire, recvSeq, sentSeq, userSessions,
                              limiters, solving, stopping, received, faults, now>>

\* close_all_sessions works on the ids it found when it was called.
StopServer == /\ ~accepting
              /\ stopping = {}
              /\ stopping' = registered
              /\ UNCHANGED <<accepting, upgrading, handler, registered, cancelled, pinged,
                             peer, reply, channel, wire, recvSeq, sentSeq, userSessions,
                             limiters, solving, received, faults, now>>

StopClose(s) == /\ s \in stopping
                /\ stopping' = stopping \ {s}
                /\ Destroy(s)
                /\ cancelled' = IF s \in registered THEN cancelled \cup {s} ELSE cancelled
                /\ UNCHANGED <<accepting, upgrading, handler, pinged, peer, reply, channel,
                               wire, solving, received, faults, now>>

PeerTurns(s, how) == /\ handler[s] \in {"open", "replying"}
                     /\ peer[s] = "up"
                     /\ faults < MaxFaults /\ faults' = faults + 1
                     /\ peer' = [peer EXCEPT ![s] = how]
                     /\ UNCHANGED <<handler, pinged, reply, channel, wire>> /\ Rest

Tick == /\ now < MaxTime
        /\ now' = now + 1
        /\ UNCHANGED <<connection, handler, pinged, peer, reply, channel, wire, recvSeq,
                       sentSeq, userSessions, limiters, solving, received, faults>>

Read(s) == \/ RefuseRate(s)
           \/ RefuseUnread(s)
           \/ \E u \in Users, kind \in Kinds :
                \/ RefuseWeight(s, u, kind)
                \/ \E n \in 0 .. MaxReceived + 1 :
                     \/ RefuseSequence(s, u, kind, n)
                     \/ RefuseContent(s, u, kind, n)
                     \/ Accept(s, u, kind, n)

HandlerStep(s) == SendReply(s) \/ Forward(s) \/ Ended(s) \/ Close(s)

Next == \/ Upgrade \/ CreateSession
        \/ \E s \in Sessions : \/ Read(s) \/ HandlerStep(s) \/ Timeout(s) \/ Pong(s)
                               \/ OddFrame(s)
                               \/ StopClose(s)
                               \/ \E how \in {"closed", "silent"} : PeerTurns(s, how)
        \/ \E e \in DOMAIN published : Respond(e)
        \/ Deliver \/ CloseServer \/ StopServer \/ Tick

Spec == Init /\ [][Next]_vars

\* The runtime runs a handler that can go on, timers fire, the solver's thread
\* finishes the sends of a response, and stop_server its loop.
Fairness == /\ \A s \in Sessions : WF_vars(HandlerStep(s)) /\ WF_vars(Timeout(s))
                                   /\ WF_vars(StopClose(s))
            /\ WF_vars(Deliver)
FairSpec == Spec /\ Fairness

-------------------------------------------------------------------------------
(* Properties.                                                                *)

Message == [type : {"none", "ack", "nak", "response"}, seq : Nat, re : Nat]

\* Type invariant of the server's state.
TypeOK == /\ accepting \in BOOLEAN
          /\ upgrading \in 0 .. Cardinality(Sessions)
          /\ handler \in [Sessions -> {"new", "open", "replying", "closing", "gone"}]
          /\ registered \subseteq Sessions /\ cancelled \subseteq Sessions
          /\ pinged \subseteq Sessions /\ stopping \subseteq Sessions
          /\ peer \in [Sessions -> {"up", "closed", "silent"}]
          /\ reply \in [Sessions -> Message]
          /\ channel \in [Sessions -> Seq(Message)]
          /\ wire \in [Sessions -> Seq(Message)]
          /\ limiters \in [Keys -> Seq([weight : Nat, time : Nat])]
          /\ DOMAIN recvSeq \subseteq Sessions /\ recvSeq \in [DOMAIN recvSeq -> Nat]
          /\ DOMAIN sentSeq \subseteq Sessions \cup {Proto}
          /\ sentSeq \in [DOMAIN sentSeq -> Nat]
          /\ published \in Seq([session : Sessions, user : Users, kind : Kinds,
                                seq : Nat, time : 0 .. now])
          /\ userSessions \in [Users -> SUBSET Sessions]
          /\ outgoing \subseteq [session : Sessions \cup {Proto}, re : Nat, seq : Nat]
          /\ now \in 0 .. MaxTime

\* What a session sent and has still to send, in the order it sends it.
Live(s) == handler[s] \in {"open", "replying"}
Queued(s) == (IF reply[s] = NoReply THEN <<>> ELSE <<reply[s]>>) \o channel[s]
Sent(s) == IF Live(s) THEN wire[s] \o Queued(s) ELSE wire[s]

(***************************************************************************)
(* A number is given to one message, and every number reaches the client   *)
(* of a session that is still registered: the handler numbers its answers  *)
(* while the solver's thread numbers responses for the same session, and   *)
(* each is on the wire, in the handler, in the channel or being handed     *)
(* over (process_ack, process_error and process_outgoing).                 *)
(***************************************************************************)
NumbersUsedOnce ==
    \A s \in {t \in registered : Live(t)} :
        LET handed == {o.seq : o \in {p \in outgoing : p.session = s}}
            sent == [i \in DOMAIN Sent(s) |-> Sent(s)[i].seq]
        IN  /\ Len(sent) + Cardinality(handed) = sentSeq[s]
            /\ Range(sent) \cup handed = 1 .. sentSeq[s]

(***************************************************************************)
(* The session that asked is told that its message was taken before it     *)
(* hears anything of what became of it: the event is published, and may be *)
(* answered by the solver's thread, before the ACK is on the wire.         *)
(***************************************************************************)
AckFirst ==
    \A s \in Sessions : \A i \in DOMAIN Sent(s) :
        LET m == Sent(s)[i]
        IN  m.type = "response" /\ published[m.re].session = s =>
                \E j \in 1 .. i - 1 : Sent(s)[j].type = "ack" /\ Sent(s)[j].re = m.re

(***************************************************************************)
(* The solver sees the messages of a registered session in the order of    *)
(* their numbers, none twice and none beyond the last one received,        *)
(* although refused messages, other sessions and other users lie between   *)
(* (valid_seq_num).                                                        *)
(***************************************************************************)
EventsInOrder ==
    \A s \in registered :
        LET own == {i \in DOMAIN published : published[i].session = s}
        IN  /\ \A i, j \in own : i < j => published[i].seq < published[j].seq
            /\ \A i \in own : published[i].seq \in 1 .. recvSeq[s]

\* A session that is registered stays subscribed to every user it was accepted
\* for, whatever other sessions of that user come and go (remove_session).
Subscribed == \A e \in DOMAIN published :
                 published[e].session \in registered =>
                    published[e].session \in userSessions[published[e].user]

\* What sessions, server and solver hold of one another's messages agrees:
\* numbers, the order of answers and events, and who hears of which user.
SessionsConsistent == TypeOK /\ NumbersUsedOnce /\ AckFirst /\ EventsInOrder /\ Subscribed

(***************************************************************************)
(* No user gets more through to the solver in any window than its limits   *)
(* allow: every limit bounds the weight of the events published within its *)
(* period, although one window serves all limits and is purged as it is    *)
(* used (consume_message_weight, MultiLimiter::try_consume).               *)
(***************************************************************************)
Throttled ==
    \A u \in Users, config \in UserLimits, t \in 0 .. now :
        LET weight == [i \in DOMAIN published |-> Weight[published[i].kind]]
            within == {i \in DOMAIN published :
                          /\ published[i].user = u
                          /\ published[i].time \in t .. t + config.period - 1}
        IN  SumFunctionOnSet(weight, within) <= config.limit

\* A client that is gone without a word is noticed by the ping it does not
\* answer, and its session is closed (process_timeout).
DeadPeersClosed == \A s \in Sessions :
                      peer[s] \in {"silent", "closed"} ~> handler[s] = "gone"

\* The protocol: a message that is answered with a NAK does not take a number.
\* The code takes the number before it parses the request.
NakKeepsNumber == [][\A s \in Sessions :
                       reply'[s] # reply[s] /\ reply'[s].type = "nak" =>
                           SeqNum(recvSeq', s) = SeqNum(recvSeq, s)]_vars
================================================================================
