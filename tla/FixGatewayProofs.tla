---------------------------- MODULE FixGatewayProofs ----------------------------
(***************************************************************************)
(* Proofs about the FIX server: for every number of sessions and clients,  *)
(* any limits and weights, and every bound on messages, answers, faults    *)
(* and time.                                                               *)
(***************************************************************************)
EXTENDS FixGateway, CollectionTheorems

-------------------------------------------------------------------------------
(* The inductive invariant of the sessions.                                   *)

\* Sessions are numbered as they are created, and no more are begun than may be.
Admitted == /\ Created = 1 .. Cardinality(Created)
            /\ Cardinality(Created) + upgrading <= Cardinality(Sessions)

\* Nobody knows of a session that has not been created.
Blank == \A s \in Sessions : handler[s] = "new" =>
            /\ s \notin registered
            /\ channel[s] = <<>> /\ wire[s] = <<>>
            /\ \A u \in Users : s \notin userSessions[u]
            /\ \A o \in outgoing : o.session # s
            /\ \A i \in DOMAIN published : published[i].session # s

\* A handler has an answer in hand just while it replies.
Replies == \A s \in Sessions :
              IF handler[s] = "replying" THEN reply[s].type \in {"ack", "nak"}
                                         ELSE reply[s] = NoReply

\* A registered session has its numbers, and a response is on its way to it once.
Counted == /\ registered \subseteq DOMAIN sentSeq
           /\ registered \subseteq DOMAIN recvSeq
           /\ \A o, p \in outgoing : o.session = p.session => o = p

\* Only responses wait in a channel, and each answers an event.
Answering == /\ \A o \in outgoing : o.re \in DOMAIN published
             /\ \A s \in Sessions : \A i \in DOMAIN channel[s] :
                   channel[s][i].type = "response" /\ channel[s][i].re \in DOMAIN published
             /\ \A s \in Sessions : \A i \in DOMAIN wire[s] :
                   wire[s][i].type = "response" => wire[s][i].re \in DOMAIN published

\* The ACK of event e is among the first n messages of a queue.
AckIn(q, e, n) == \E j \in 1 .. n : q[j].type = "ack" /\ q[j].re = e

\* A response to a session's own request comes after its ACK.
AcksLead == \A s \in Sessions : \A i \in DOMAIN wire[s] :
               wire[s][i].type = "response" /\ published[wire[s][i].re].session = s =>
                  AckIn(wire[s], wire[s][i].re, i - 1)

\* While the handler goes on, every event of its session has its ACK on the wire
\* or in the handler's hand.
AcksKept == \A e \in DOMAIN published :
               LET s == published[e].session
               IN  Live(s) => \/ AckIn(wire[s], e, Len(wire[s]))
                              \/ reply[s].type = "ack" /\ reply[s].re = e

\* The numbers of the messages in a queue, of the answer in the handler's hand and
\* of the response that is being handed over.
Nums(q) == {q[i].seq : i \in 1 .. Len(q)}
InHand(s) == IF reply[s] = NoReply THEN {} ELSE {reply[s].seq}
HandedOver(s) == {o.seq : o \in {p \in outgoing : p.session = s}}

\* How many messages that is, and that they have the numbers given so far.
Numbered(s) ==
    /\ Len(wire[s]) + (IF reply[s] = NoReply THEN 0 ELSE 1) + Len(channel[s])
         + (IF \E o \in outgoing : o.session = s THEN 1 ELSE 0) = sentSeq[s]
    /\ Nums(wire[s]) \cup InHand(s) \cup Nums(channel[s]) \cup HandedOver(s) = 1 .. sentSeq[s]

\* Every number given to a registered session is that of one message to it.
Numbers == \A s \in registered : Live(s) => Numbered(s)

\* The inductive invariant of the sessions.
SessionInv == /\ TypeOK /\ Admitted /\ Blank /\ Replies /\ Counted /\ Answering
              /\ AcksLead /\ AcksKept /\ Numbers /\ EventsInOrder /\ Subscribed

-------------------------------------------------------------------------------
(* The inductive invariant of the limits.                                     *)

Longest == Max({config.period : config \in UserLimits})

\* What the events of user u since time t weigh, and what its window remembers.
Events(u, t) == {i \in DOMAIN published : published[i].user = u /\ published[i].time >= t}
EventWeight == [i \in DOMAIN published |-> Weight[published[i].kind]]
Entries(ws, t) == {i \in DOMAIN ws : ws[i].time >= t}
EntryWeight(ws) == [i \in DOMAIN ws |-> ws[i].weight]

\* A window is sorted by time, newest first.
Sorted(ws) == /\ \A i, j \in DOMAIN ws : i < j => ws[j].time <= ws[i].time
              /\ \A i \in DOMAIN ws : ws[i].time <= now

\* What was published within the longest period is still in the user's window.
Remembered(u, t) == now - Longest <= t =>
    SumFunctionOnSet(EventWeight, Events(u, t))
        <= SumFunctionOnSet(EntryWeight(limiters[u]), Entries(limiters[u], t))

\* The inductive invariant of the limits.
LimitInv == \A u \in Users : /\ Sorted(limiters[u])
                             /\ \A t \in Int : Remembered(u, t)

-------------------------------------------------------------------------------
(* What the windows of a limiter hold (core/limit.rs).                        *)

Entry == [weight : Nat, time : Nat]

\* A window that is sorted loses at most its older end: what is younger than the
\* age stays where it is (purge_old_weights, current_weight).
LEMMA UpToFacts ==
    ASSUME NEW ws \in Seq(Entry), Sorted(ws), now \in Nat, NEW age \in Int
    PROVE  /\ UpTo(ws, age, now) \in Seq(Entry)
           /\ Len(UpTo(ws, age, now)) \in 0 .. Len(ws)
           /\ \A i \in 1 .. Len(UpTo(ws, age, now)) : UpTo(ws, age, now)[i] = ws[i]
           /\ \A i \in 1 .. Len(ws) : now - ws[i].time < age =>
                                            i <= Len(UpTo(ws, age, now))
<1> DEFINE old == {i \in 1 .. Len(ws) : now - ws[i].time >= age}
           pos == IF old # {} THEN Min(old) ELSE 0
<1>1. UpTo(ws, age, now) = IF pos = 0 THEN ws ELSE SubSeq(ws, 1, pos - 1)
  BY DEF UpTo, SelectInSeq
<1>2. Len(ws) \in Nat /\ DOMAIN ws = 1 .. Len(ws) /\ \A i \in 1 .. Len(ws) : ws[i] \in Entry
  BY LenProperties, ElementOfSeq
<1>3. CASE old = {}
  <2>1. UpTo(ws, age, now) = ws
    BY <1>1, <1>3
  <2> QED  BY <1>2, <2>1
<1>4. CASE old # {}
  <2>1. old \in SUBSET (0 .. Len(ws))
    BY <1>2
  <2>2. pos \in old /\ \A k \in old : pos <= k
    <3> HIDE DEF old
    <3> QED  BY <1>2, <1>4, <2>1, MinFacts
  <2>3. pos \in 1 .. Len(ws) /\ now - ws[pos].time >= age
    BY <2>2
  <2> HIDE DEF pos
  <2>4. UpTo(ws, age, now) = SubSeq(ws, 1, pos - 1)
    BY <1>1, <2>3
  <2>5. \A i \in 1 .. pos - 1 : ws[i] \in Entry
    BY <1>2, <2>3
  <2>6. /\ SubSeq(ws, 1, pos - 1) \in Seq(Entry)
        /\ Len(SubSeq(ws, 1, pos - 1)) = IF 1 <= pos - 1 THEN pos - 1 - 1 + 1 ELSE 0
        /\ \A i \in 1 .. pos - 1 - 1 + 1 : SubSeq(ws, 1, pos - 1)[i] = ws[1 + i - 1]
    <3> HIDE DEF Entry
    <3>1. 1 \in Int /\ pos - 1 \in Int  BY <2>3
    <3> QED  BY <2>5, <3>1, SubSeqProperties
  <2>7. Len(SubSeq(ws, 1, pos - 1)) = pos - 1
    BY <2>3, <2>6
  <2>8. \A i \in 1 .. Len(ws) : now - ws[i].time < age => i <= pos - 1
    <3> SUFFICES ASSUME NEW i \in 1 .. Len(ws), now - ws[i].time < age, i > pos - 1
                 PROVE  FALSE
      BY <1>2, <2>3
    <3>1. ws[i].time \in Nat /\ ws[pos].time \in Nat
      BY <1>2, <2>3 DEF Entry
    <3>2. now - ws[i].time # now - ws[pos].time
      BY <2>3, <3>1
    <3>3. i # pos
      BY <3>2
    <3>4. pos < i /\ pos \in DOMAIN ws /\ i \in DOMAIN ws
      BY <1>2, <2>3, <3>3
    <3>5. ws[i].time <= ws[pos].time
      BY <3>4 DEF Sorted
    <3> QED  BY <2>3, <3>1, <3>5
  <2> QED  BY <1>2, <2>3, <2>4, <2>6, <2>7, <2>8
<1> QED  BY <1>3, <1>4

\* A purged window is a sorted window (purge_old_weights).
LEMMA UpToSorted ==
    ASSUME NEW ws \in Seq(Entry), Sorted(ws), now \in Nat, NEW age \in Int
    PROVE  Sorted(UpTo(ws, age, now))
<1> DEFINE kept == UpTo(ws, age, now)
<1>1. /\ kept \in Seq(Entry) /\ Len(kept) \in 0 .. Len(ws)
      /\ \A i \in 1 .. Len(kept) : kept[i] = ws[i]
  BY UpToFacts
<1> HIDE DEF kept
<1>2. DOMAIN ws = 1 .. Len(ws) /\ DOMAIN kept = 1 .. Len(kept) /\ Len(ws) \in Nat
  BY <1>1, LenProperties
<1>3. \A i \in DOMAIN kept : i \in DOMAIN ws /\ kept[i] = ws[i]
  BY <1>1, <1>2
<1>4. Sorted(kept)
  BY <1>3 DEF Sorted
<1> QED  BY <1>4 DEF kept

\* What is younger than the age weighs the same in the window and in what is left
\* of it.
LEMMA UpToEntries ==
    ASSUME NEW ws \in Seq(Entry), Sorted(ws), now \in Nat, NEW age \in Int, NEW t \in Int,
           now - t < age
    PROVE  /\ Entries(UpTo(ws, age, now), t) = Entries(ws, t)
           /\ SumFunctionOnSet(EntryWeight(UpTo(ws, age, now)), Entries(ws, t))
                = SumFunctionOnSet(EntryWeight(ws), Entries(ws, t))
           /\ IsFiniteSet(Entries(ws, t))
<1> DEFINE kept == UpTo(ws, age, now)
<1>1. /\ kept \in Seq(Entry) /\ Len(kept) \in 0 .. Len(ws)
      /\ \A i \in 1 .. Len(kept) : kept[i] = ws[i]
      /\ \A i \in 1 .. Len(ws) : now - ws[i].time < age => i <= Len(kept)
  BY UpToFacts
<1> HIDE DEF kept
<1>2. /\ DOMAIN ws = 1 .. Len(ws) /\ DOMAIN kept = 1 .. Len(kept) /\ Len(ws) \in Nat
      /\ \A i \in 1 .. Len(ws) : ws[i] \in Entry
  BY <1>1, LenProperties, ElementOfSeq
<1>3. \A i \in 1 .. Len(ws) : ws[i].time \in Nat /\ ws[i].weight \in Nat
  BY <1>2 DEF Entry
<1>4. Entries(kept, t) = Entries(ws, t)
  <2>1. \A i \in Entries(ws, t) : i \in Entries(kept, t)
    BY <1>1, <1>2, <1>3 DEF Entries
  <2>2. \A i \in Entries(kept, t) : i \in Entries(ws, t)
    BY <1>1, <1>2 DEF Entries
  <2> QED  BY <2>1, <2>2
<1>5. IsFiniteSet(Entries(ws, t))
  <2>1. Entries(ws, t) \subseteq 1 .. Len(ws) /\ IsFiniteSet(1 .. Len(ws))
    BY <1>2, FS_Interval DEF Entries
  <2> QED  BY <2>1, FS_Subset
<1>6. \A i \in Entries(ws, t) : /\ EntryWeight(kept)[i] = EntryWeight(ws)[i]
                                /\ EntryWeight(kept)[i] \in Int
  <2> SUFFICES ASSUME NEW i \in Entries(ws, t)
               PROVE  EntryWeight(kept)[i] = EntryWeight(ws)[i] /\ EntryWeight(kept)[i] \in Int
    OBVIOUS
  <2>1. i \in DOMAIN kept /\ i \in DOMAIN ws
    BY <1>4 DEF Entries
  <2>2. kept[i] = ws[i] /\ ws[i].weight \in Nat
    BY <1>1, <1>2, <1>3, <2>1
  <2> QED  BY <2>1, <2>2 DEF EntryWeight
<1>7. SumFunctionOnSet(EntryWeight(kept), Entries(ws, t))
        = SumFunctionOnSet(EntryWeight(ws), Entries(ws, t))
  BY <1>5, <1>6, SumAgrees
<1> QED  BY <1>4, <1>5, <1>7 DEF kept

\* What a limit counts is at least what was put within its period (current_weight).
LEMMA CurrentCounts ==
    ASSUME NEW ws \in Seq(Entry), Sorted(ws), now \in Nat, NEW period \in Nat
    PROVE  /\ CurrentWeight(ws, period, now) \in Nat
           /\ SumFunctionOnSet(EntryWeight(ws), Entries(ws, now - period + 1))
                <= CurrentWeight(ws, period, now)
<1> DEFINE kept == UpTo(ws, period, now)
           t == now - period + 1
<1>1. t \in Int /\ now - t < period
  OBVIOUS
<1>2. kept \in Seq(Entry)
  BY UpToFacts
<1>3. /\ Entries(kept, t) = Entries(ws, t)
      /\ SumFunctionOnSet(EntryWeight(kept), Entries(ws, t))
           = SumFunctionOnSet(EntryWeight(ws), Entries(ws, t))
  <2> HIDE DEF t
  <2> QED  BY <1>1, UpToEntries
<1> HIDE DEF kept, t
<1>4. /\ DOMAIN kept = 1 .. Len(kept) /\ Len(kept) \in Nat
      /\ \A i \in 1 .. Len(kept) : kept[i] \in Entry
  BY <1>2, LenProperties, ElementOfSeq
<1>5. IsFiniteSet(DOMAIN kept)
  BY <1>4, FS_Interval
<1>6. \A i \in DOMAIN kept : EntryWeight(kept)[i] \in Nat
  BY <1>4 DEF EntryWeight, Entry
<1>7. Entries(kept, t) \in SUBSET (DOMAIN kept)
  BY DEF Entries
<1>8. SumFunctionOnSet(EntryWeight(kept), Entries(kept, t))
        <= SumFunctionOnSet(EntryWeight(kept), DOMAIN kept)
  BY <1>5, <1>6, <1>7, SumSubset
<1>9. SumFunctionOnSet(EntryWeight(kept), DOMAIN kept) \in Nat
  BY <1>5, <1>6, SumNatural
<1>10. CurrentWeight(ws, period, now) = SumFunctionOnSet(EntryWeight(kept), DOMAIN kept)
  BY DEF CurrentWeight, TotalWeight, EntryWeight, kept
<1> QED  BY <1>3, <1>8, <1>9, <1>10 DEF t

\* A weight that is put is the newest of the window, and adds to what was put since
\* any time up to now (put_weight).
LEMMA PutCounts ==
    ASSUME NEW ws \in Seq(Entry), Sorted(ws), now \in Nat, NEW w \in Nat
    PROVE  /\ PutWeight(ws, w, now) \in Seq(Entry)
           /\ Sorted(PutWeight(ws, w, now))
           /\ \A t \in Int :
                SumFunctionOnSet(EntryWeight(PutWeight(ws, w, now)), Entries(PutWeight(ws, w, now), t))
                  = (IF t <= now THEN w ELSE 0) + SumFunctionOnSet(EntryWeight(ws), Entries(ws, t))
<1> DEFINE x == [weight |-> w, time |-> now]
           put == PutWeight(ws, w, now)
<1>1. x \in Entry /\ <<x>> \in Seq(Entry) /\ Len(<<x>>) = 1 /\ <<x>>[1] = x
  BY DEF Entry
<1>2. /\ put \in Seq(Entry) /\ Len(put) = 1 + Len(ws)
      /\ \A i \in 1 .. 1 + Len(ws) : put[i] = IF i <= 1 THEN <<x>>[i] ELSE ws[i - 1]
  BY <1>1, ConcatProperties DEF PutWeight
<1> HIDE DEF put
<1>3. /\ Len(ws) \in Nat /\ DOMAIN ws = 1 .. Len(ws) /\ DOMAIN put = 1 .. Len(ws) + 1
      /\ \A i \in 1 .. Len(ws) : ws[i] \in Entry
  BY <1>2, LenProperties, ElementOfSeq
<1>4. put[1] = x /\ \A i \in 1 .. Len(ws) : put[i + 1] = ws[i]
  BY <1>1, <1>2, <1>3
<1>5. x.time = now /\ x.weight = w
  OBVIOUS
<1> HIDE DEF x
<1>6. \A i \in 1 .. Len(ws) : ws[i].time \in Nat /\ ws[i].weight \in Nat /\ ws[i].time <= now
  BY <1>3 DEF Sorted, Entry
<1>7. Sorted(put)
  <2>1. \A i \in DOMAIN put : i = 1 \/ (i - 1 \in 1 .. Len(ws) /\ put[i] = ws[i - 1])
    <3> SUFFICES ASSUME NEW i \in 1 .. Len(ws) + 1, i # 1
                 PROVE  i - 1 \in 1 .. Len(ws) /\ put[i] = ws[i - 1]
      BY <1>3
    <3>1. i - 1 \in 1 .. Len(ws)
      BY <1>3
    <3>2. i - 1 + 1 = i
      OBVIOUS
    <3> QED  BY <1>4, <3>1, <3>2
  <2>2. \A i \in DOMAIN put : put[i].time <= now
    BY <1>4, <1>5, <1>6, <2>1
  <2>3. ASSUME NEW i \in DOMAIN put, NEW j \in DOMAIN put, i < j
        PROVE  put[j].time <= put[i].time
    <3>1. CASE i = 1
      BY <1>4, <1>5, <2>2, <3>1
    <3>2. CASE i # 1
      <4>1. j # 1
        BY <1>3, <2>3, <3>2
      <4>2. /\ i - 1 \in DOMAIN ws /\ j - 1 \in DOMAIN ws /\ i - 1 < j - 1
            /\ put[i] = ws[i - 1] /\ put[j] = ws[j - 1]
        BY <1>3, <2>1, <2>3, <3>2, <4>1
      <4> QED  BY <4>2 DEF Sorted
    <3> QED  BY <3>1, <3>2
  <2> QED  BY <2>2, <2>3 DEF Sorted
<1>8. ASSUME NEW t \in Int
      PROVE  SumFunctionOnSet(EntryWeight(put), Entries(put, t))
               = (IF t <= now THEN w ELSE 0) + SumFunctionOnSet(EntryWeight(ws), Entries(ws, t))
  <2> DEFINE up == {i + 1 : i \in Entries(ws, t)}
             first == IF t <= now THEN {1} ELSE {}
  <2>1. Entries(ws, t) \in SUBSET Int /\ IsFiniteSet(Entries(ws, t))
    <3>1. Entries(ws, t) \subseteq 1 .. Len(ws) /\ IsFiniteSet(1 .. Len(ws))
      BY <1>3, FS_Interval DEF Entries
    <3> QED  BY <3>1, FS_Subset
  <2>2. \A i \in Entries(ws, t) : /\ EntryWeight(ws)[i] \in Int
                                  /\ EntryWeight(put)[i + 1] = EntryWeight(ws)[i]
    BY <1>3, <1>4, <1>6 DEF Entries, EntryWeight
  <2>3. /\ IsFiniteSet(up)
        /\ SumFunctionOnSet(EntryWeight(put), up) = SumFunctionOnSet(EntryWeight(ws), Entries(ws, t))
    BY <2>1, <2>2, SumShifted
  <2>4. Entries(put, t) = first \cup up
    <3>1. \A i \in Entries(put, t) : i \in first \cup up
      <4> SUFFICES ASSUME NEW i \in Entries(put, t) PROVE i \in first \cup up
        OBVIOUS
      <4>1. i \in 1 .. Len(ws) + 1 /\ put[i].time >= t
        BY <1>3 DEF Entries
      <4>2. CASE i = 1
        BY <1>4, <1>5, <4>1, <4>2
      <4>3. CASE i # 1
        <5>1. i - 1 \in 1 .. Len(ws) /\ i - 1 + 1 = i
          BY <1>3, <4>1, <4>3
        <5>2. put[i] = ws[i - 1]
          BY <1>4, <5>1
        <5>3. i - 1 \in Entries(ws, t)
          BY <1>3, <4>1, <5>1, <5>2 DEF Entries
        <5> QED  BY <5>1, <5>3
      <4> QED  BY <4>2, <4>3
    <3>2. \A i \in up : i \in Entries(put, t)
      <4> SUFFICES ASSUME NEW j \in Entries(ws, t) PROVE j + 1 \in Entries(put, t)
        OBVIOUS
      <4>1. j \in 1 .. Len(ws) /\ ws[j].time >= t
        BY <1>3 DEF Entries
      <4>2. j + 1 \in DOMAIN put /\ put[j + 1] = ws[j]
        BY <1>3, <1>4, <4>1
      <4> QED  BY <4>1, <4>2 DEF Entries
    <3>3. \A i \in first : i \in Entries(put, t)
      BY <1>3, <1>4, <1>5 DEF Entries
    <3> QED  BY <3>1, <3>2, <3>3
  <2>5. EntryWeight(put)[1] = w
    BY <1>3, <1>4, <1>5 DEF EntryWeight
  <2>6. SumFunctionOnSet(EntryWeight(put), first) = IF t <= now THEN w ELSE 0
    <3>1. IsFiniteSet({1}) /\ {1} \ {1} = {} /\ IsFiniteSet({})
      BY FS_EmptySet, FS_Singleton
    <3>2. SumFunctionOnSet(EntryWeight(put), {1}) = w
      <4>1. \A i \in {1} : EntryWeight(put)[i] \in Int
        BY <2>5
      <4>2. SumFunctionOnSet(EntryWeight(put), {1})
              = EntryWeight(put)[1] + SumFunctionOnSet(EntryWeight(put), {1} \ {1})
        BY <3>1, <4>1, SumRemove
      <4>3. SumFunctionOnSet(EntryWeight(put), {}) = 0
        BY SumEmpty
      <4> DEFINE none == SumFunctionOnSet(EntryWeight(put), {})
                 one == SumFunctionOnSet(EntryWeight(put), {1})
      <4>4. one = EntryWeight(put)[1] + none
        BY <3>1, <4>2
      <4> HIDE DEF none, one
      <4>5. none = 0 /\ one = w + none
        BY <2>5, <4>3, <4>4 DEF none
      <4>6. one = w
        BY <4>5
      <4> QED  BY <4>6 DEF one
    <3> QED  BY <3>2, SumEmpty
  <2>7. IsFiniteSet(first) /\ first \cap up = {}
    <3>1. IsFiniteSet(first)
      BY FS_EmptySet, FS_Singleton
    <3>2. 1 \notin up
      BY <1>3 DEF Entries
    <3> QED  BY <3>1, <3>2
  <2>8. \A i \in first \cup up : EntryWeight(put)[i] \in Int
    BY <2>2, <2>5
  <2> HIDE DEF first, up
  <2>9. SumFunctionOnSet(EntryWeight(put), first \cup up)
          = SumFunctionOnSet(EntryWeight(put), first) + SumFunctionOnSet(EntryWeight(put), up)
    BY <2>3, <2>7, <2>8, SumSplits
  <2> QED  BY <2>3, <2>4, <2>6, <2>9
<1> QED  BY <1>2, <1>7, <1>8 DEF put

\* A window of weights stays one, whatever is asked of it (try_consume).
LEMMA ConsumeTyped ==
    ASSUME NEW ws \in Seq(Entry), now \in Nat, NEW w \in Nat, NEW configs
    PROVE  Consume(ws, configs, w, now) \in Seq(Entry)
<1>1. PutWeight(ws, w, now) \in Seq(Entry)
  <2> DEFINE x == [weight |-> w, time |-> now]
  <2>1. x \in Entry /\ <<x>> \in Seq(Entry)
    BY DEF Entry
  <2> QED  BY <2>1, ConcatProperties DEF PutWeight
<1>2. ASSUME NEW age PROVE UpTo(ws, age, now) \in Seq(Entry)
  <2> DEFINE old == {i \in 1 .. Len(ws) : now - ws[i].time >= age}
             pos == IF old # {} THEN Min(old) ELSE 0
  <2>1. UpTo(ws, age, now) = IF pos = 0 THEN ws ELSE SubSeq(ws, 1, pos - 1)
    BY DEF UpTo, SelectInSeq
  <2>2. Len(ws) \in Nat /\ \A i \in 1 .. Len(ws) : ws[i] \in Entry
    BY LenProperties, ElementOfSeq
  <2>3. pos \in 0 .. Len(ws)
    <3>1. CASE old # {}
      <4>1. old \in SUBSET (0 .. Len(ws))
        BY <2>2
      <4> HIDE DEF old
      <4>2. Min(old) \in old
        BY <2>2, <3>1, <4>1, MinFacts
      <4> QED  BY <3>1, <4>1, <4>2
    <3>2. CASE old = {}
      BY <2>2, <3>2
    <3> QED  BY <3>1, <3>2
  <2> HIDE DEF pos
  <2>4. \A i \in 1 .. pos - 1 : ws[i] \in Entry
    BY <2>2, <2>3
  <2>5. SubSeq(ws, 1, pos - 1) \in Seq(Entry)
    <3> HIDE DEF Entry
    <3>1. 1 \in Int /\ pos - 1 \in Int
      BY <2>2, <2>3
    <3> QED  BY <2>4, <3>1, SubSeqProperties
  <2> QED  BY <2>1, <2>5
<1>3. CASE Allowed(ws, configs, w, now)
  BY <1>1, <1>3 DEF Consume
<1>4. CASE ~Allowed(ws, configs, w, now)
  BY <1>2, <1>4 DEF Consume, Purge
<1> QED  BY <1>3, <1>4

\* The longest period of a user's limits is the greatest of them (max_period).
LEMMA LongestFacts ==
    /\ Longest \in Nat
    /\ \A config \in UserLimits : config.period \in Nat /\ config.period <= Longest
<1> DEFINE periods == {config.period : config \in UserLimits}
<1>1. \A config \in UserLimits : config.period \in Nat
  BY LimitsAssumption
<1>2. periods \in SUBSET Nat /\ periods # {}
  BY <1>1, LimitsAssumption
<1>3. IsFiniteSet(periods)
  <2> DEFINE f == [config \in UserLimits |-> config.period]
  <2>1. f \in Surjection(UserLimits, periods)
    BY DEF Surjection
  <2> HIDE DEF f, periods
  <2> QED  BY <2>1, LimitsAssumption, FS_Surjection
<1> HIDE DEF periods
<1>4. Max(periods) \in periods /\ \A k \in periods : k <= Max(periods)
  BY <1>2, <1>3, FiniteMaxFacts
<1>5. Longest = Max(periods)
  BY DEF Longest, periods
<1>6. \A config \in UserLimits : config.period \in periods
  BY DEF periods
<1> QED  BY <1>1, <1>2, <1>4, <1>5, <1>6

\* A window of a user is charged, or purged of what no limit counts any more
\* (MultiLimiter::try_consume).
LEMMA ConsumeRemembers ==
    ASSUME NEW ws \in Seq(Entry), Sorted(ws), now \in Nat, NEW w \in Nat
    PROVE  /\ Sorted(Consume(ws, UserLimits, w, now))
           /\ \A t \in Int : now - Longest <= t =>
                SumFunctionOnSet(EntryWeight(ws), Entries(ws, t))
                  + (IF Allowed(ws, UserLimits, w, now) /\ t <= now THEN w ELSE 0)
                  = SumFunctionOnSet(EntryWeight(Consume(ws, UserLimits, w, now)),
                                     Entries(Consume(ws, UserLimits, w, now), t))
<1>1. \A t \in Int : SumFunctionOnSet(EntryWeight(ws), Entries(ws, t)) \in Nat
  <2> SUFFICES ASSUME NEW t \in Int
               PROVE  SumFunctionOnSet(EntryWeight(ws), Entries(ws, t)) \in Nat
    OBVIOUS
  <2>1. DOMAIN ws = 1 .. Len(ws) /\ Len(ws) \in Nat /\ \A i \in 1 .. Len(ws) : ws[i] \in Entry
    BY LenProperties, ElementOfSeq
  <2>2. Entries(ws, t) \subseteq 1 .. Len(ws) /\ IsFiniteSet(1 .. Len(ws))
    BY <2>1, FS_Interval DEF Entries
  <2>3. IsFiniteSet(Entries(ws, t))
    BY <2>2, FS_Subset
  <2>4. \A i \in Entries(ws, t) : EntryWeight(ws)[i] \in Nat
    BY <2>1, <2>2 DEF EntryWeight, Entry
  <2> QED  BY <2>3, <2>4, SumNatural
<1>2. CASE Allowed(ws, UserLimits, w, now)
  <2>1. Consume(ws, UserLimits, w, now) = PutWeight(ws, w, now)
    BY <1>2 DEF Consume
  <2> DEFINE put == PutWeight(ws, w, now)
  <2>2. /\ Sorted(put)
        /\ \A t \in Int : SumFunctionOnSet(EntryWeight(put), Entries(put, t))
                            = (IF t <= now THEN w ELSE 0)
                                + SumFunctionOnSet(EntryWeight(ws), Entries(ws, t))
    BY PutCounts
  <2> HIDE DEF put
  <2>3. Consume(ws, UserLimits, w, now) = put
    BY <2>1 DEF put
  <2>4. ASSUME NEW t \in Int
        PROVE  SumFunctionOnSet(EntryWeight(ws), Entries(ws, t)) + (IF t <= now THEN w ELSE 0)
                 = SumFunctionOnSet(EntryWeight(put), Entries(put, t))
    <3> DEFINE a == SumFunctionOnSet(EntryWeight(ws), Entries(ws, t))
               b == SumFunctionOnSet(EntryWeight(put), Entries(put, t))
    <3>1. a \in Nat
      BY <1>1
    <3>2. b = (IF t <= now THEN w ELSE 0) + a
      BY <2>2
    <3> HIDE DEF a, b
    <3>3. a + (IF t <= now THEN w ELSE 0) = b
      BY <3>1, <3>2
    <3> QED  BY <3>3 DEF a, b
  <2> QED  BY <1>2, <2>2, <2>3, <2>4
<1>3. CASE ~Allowed(ws, UserLimits, w, now)
  <2>1. Consume(ws, UserLimits, w, now) = UpTo(ws, Longest + 1, now)
    BY <1>3 DEF Consume, Purge, Longest
  <2>2. Longest + 1 \in Int /\ \A t \in Int : now - Longest <= t => now - t < Longest + 1
    BY LongestFacts
  <2>3. Sorted(UpTo(ws, Longest + 1, now))
    BY <2>2, UpToSorted
  <2>4. \A t \in Int : now - Longest <= t =>
          SumFunctionOnSet(EntryWeight(ws), Entries(ws, t))
            = SumFunctionOnSet(EntryWeight(UpTo(ws, Longest + 1, now)),
                               Entries(UpTo(ws, Longest + 1, now), t))
    BY <2>2, UpToEntries
  <2> QED  BY <1>1, <1>3, <2>1, <2>3, <2>4
<1> QED  BY <1>2, <1>3

\* A user's window is neither a session's nor one that all share (user_id_to_key).
LEMMA UserKeys == \A u \in Users : u \in Keys /\ u \notin Sessions /\ u # Global /\ u # NoUser
  BY NamesAssumption DEF Keys

\* The check of a message leaves the windows of the users alone (check_rate_limits).
LEMMA CheckedFacts ==
    ASSUME limiters \in [Keys -> Seq(Entry)], now \in Nat, NEW s \in Sessions
    PROVE  /\ Checked(s) \in [Keys -> Seq(Entry)]
           /\ \A u \in Users : Checked(s)[u] = limiters[u]
<1>1. ASSUME NEW key \in Keys
      PROVE  (IF key \in Charged(s) THEN Consume(limiters[key], Configs(key), 1, now)
                                    ELSE limiters[key]) \in Seq(Entry)
  <2>1. limiters[key] \in Seq(Entry)
    OBVIOUS
  <2> HIDE DEF Entry
  <2>2. Consume(limiters[key], Configs(key), 1, now) \in Seq(Entry)
    <3> DEFINE configs == Configs(key)
    <3> HIDE DEF configs
    <3>1. 1 \in Nat /\ Consume(limiters[key], configs, 1, now) \in Seq(Entry)
      BY <2>1, ConsumeTyped
    <3> QED  BY <3>1 DEF configs
  <2> QED  BY <2>1, <2>2
<1>2. Checked(s) \in [Keys -> Seq(Entry)]
  BY <1>1 DEF Checked
<1>3. \A u \in Users : u \in Keys /\ u \notin Charged(s)
  BY UserKeys DEF Charged
<1> QED  BY <1>2, <1>3 DEF Checked

\* The weight of a request is put into its user's window, or that is purged
\* (consume_message_weight).
LEMMA WeighedFacts ==
    ASSUME limiters \in [Keys -> Seq(Entry)], now \in Nat, NEW s \in Sessions, NEW u \in Users,
           NEW kind \in Kinds
    PROVE  /\ Weighed(s, u, kind) \in [Keys -> Seq(Entry)]
           /\ \A v \in Users : Weighed(s, u, kind)[v] =
                IF v = u THEN Consume(limiters[u], UserLimits, Weight[kind], now) ELSE limiters[v]
<1>1. /\ Checked(s) \in [Keys -> Seq(Entry)]
      /\ \A v \in Users : Checked(s)[v] = limiters[v]
  BY CheckedFacts
<1>2. \A v \in Users : v \in Keys
  BY UserKeys
<1> DEFINE new == Consume(Checked(s)[u], UserLimits, Weight[kind], now)
<1>3. new \in Seq(Entry) /\ new = Consume(limiters[u], UserLimits, Weight[kind], now)
  <2>1. limiters[u] \in Seq(Entry) /\ Weight[kind] \in Nat
    BY <1>2, WeightAssumption
  <2>2. Consume(limiters[u], UserLimits, Weight[kind], now) \in Seq(Entry)
    BY <2>1, ConsumeTyped
  <2> QED  BY <1>1, <2>2
<1>4. Weighed(s, u, kind) = [Checked(s) EXCEPT ![u] = new]
  BY DEF Weighed
<1> HIDE DEF new
<1> QED  BY <1>1, <1>2, <1>3, <1>4

\* Only the window of the session goes with the session (destroy_session).
LEMMA DestroyFacts ==
    ASSUME limiters \in [Keys -> Seq(Entry)], NEW s \in Sessions, Destroy(s)
    PROVE  /\ limiters' \in [Keys -> Seq(Entry)]
           /\ \A u \in Users : limiters'[u] = limiters[u]
<1>1. limiters' = [limiters EXCEPT ![s] = <<>>]
  BY DEF Destroy
<1>2. <<>> \in Seq(Entry)
  BY EmptySeq
<1> QED  BY <1>1, <1>2, UserKeys

-------------------------------------------------------------------------------
(* Every step keeps the invariant of the limits.                              *)

Event == [session : Sessions, user : Users, kind : Kinds, seq : Nat, time : 0 .. now]

\* What the proofs about the limits need of the types.
Timed == /\ limiters \in [Keys -> Seq(Entry)]
         /\ published \in Seq(Event)
         /\ now \in Nat

\* Sums of weights of events and of entries are numbers.
LEMMA WeightsTyped ==
    ASSUME Timed, NEW u \in Users, NEW t \in Int
    PROVE  /\ SumFunctionOnSet(EventWeight, Events(u, t)) \in Nat
           /\ SumFunctionOnSet(EntryWeight(limiters[u]), Entries(limiters[u], t)) \in Nat
           /\ IsFiniteSet(Events(u, t)) /\ IsFiniteSet(Entries(limiters[u], t))
           /\ \A i \in DOMAIN published : EventWeight[i] \in Nat
           /\ \A i \in DOMAIN limiters[u] : EntryWeight(limiters[u])[i] \in Nat
<1>1. limiters[u] \in Seq(Entry) /\ published \in Seq(Event)
  BY UserKeys DEF Timed
<1>2. /\ DOMAIN published = 1 .. Len(published) /\ Len(published) \in Nat
      /\ \A i \in 1 .. Len(published) : published[i] \in Event
  BY <1>1, LenProperties, ElementOfSeq
<1>3. /\ DOMAIN limiters[u] = 1 .. Len(limiters[u]) /\ Len(limiters[u]) \in Nat
      /\ \A i \in 1 .. Len(limiters[u]) : limiters[u][i] \in Entry
  BY <1>1, LenProperties, ElementOfSeq
<1>4. \A i \in DOMAIN published : EventWeight[i] \in Nat
  <2>1. \A i \in DOMAIN published : published[i].kind \in Kinds
    BY <1>2 DEF Event
  <2> QED  BY <2>1, WeightAssumption DEF EventWeight
<1>5. \A i \in DOMAIN limiters[u] : EntryWeight(limiters[u])[i] \in Nat
  BY <1>3 DEF EntryWeight, Entry
<1>6. IsFiniteSet(Events(u, t))
  <2>1. Events(u, t) \subseteq DOMAIN published
    BY DEF Events
  <2>2. IsFiniteSet(DOMAIN published)
    BY <1>2, FS_Interval
  <2> QED  BY <2>1, <2>2, FS_Subset
<1>7. IsFiniteSet(Entries(limiters[u], t))
  <2>1. Entries(limiters[u], t) \subseteq 1 .. Len(limiters[u]) /\ IsFiniteSet(1 .. Len(limiters[u]))
    BY <1>3, FS_Interval DEF Entries
  <2> QED  BY <2>1, FS_Subset
<1>8. SumFunctionOnSet(EventWeight, Events(u, t)) \in Nat
  <2>1. \A i \in Events(u, t) : EventWeight[i] \in Nat
    BY <1>4 DEF Events
  <2> QED  BY <1>6, <2>1, SumNatural
<1>9. SumFunctionOnSet(EntryWeight(limiters[u]), Entries(limiters[u], t)) \in Nat
  <2>1. \A i \in Entries(limiters[u], t) : EntryWeight(limiters[u])[i] \in Nat
    BY <1>5 DEF Entries
  <2> QED  BY <1>7, <2>1, SumNatural
<1> QED  BY <1>4, <1>5, <1>6, <1>7, <1>8, <1>9

\* Time passes, and what does not concern users changes: they are owed no less
\* (Limiter has no clock of its own).
LEMMA LimitsWait ==
    ASSUME LimitInv, now \in Nat, now' \in Nat, now <= now', published' = published,
           Timed, \A u \in Users : limiters'[u] = limiters[u]
    PROVE  LimitInv'
<1> SUFFICES ASSUME NEW u \in Users PROVE Sorted(limiters[u])' /\ \A t \in Int : Remembered(u, t)'
  BY DEF LimitInv
<1>1. limiters'[u] = limiters[u] /\ Sorted(limiters[u]) /\ \A t \in Int : Remembered(u, t)
  BY DEF LimitInv
<1>2. Sorted(limiters[u])'
  <2>1. limiters[u] \in Seq(Entry)
    BY UserKeys DEF Timed
  <2>2. \A i \in DOMAIN limiters[u] : limiters[u][i] \in Entry
    BY <2>1, LenProperties, ElementOfSeq
  <2>3. \A i \in DOMAIN limiters[u] : limiters[u][i].time <= now /\ limiters[u][i].time \in Nat
    BY <1>1, <2>2 DEF Sorted, Entry
  <2>4. \A i \in DOMAIN limiters[u] : limiters[u][i].time <= now'
    BY <2>3
  <2> QED  BY <1>1, <2>4 DEF Sorted
<1>3. ASSUME NEW t \in Int PROVE Remembered(u, t)'
  <2> SUFFICES ASSUME now' - Longest <= t
               PROVE  (SumFunctionOnSet(EventWeight, Events(u, t)) <=
                         SumFunctionOnSet(EntryWeight(limiters[u]), Entries(limiters[u], t)))'
    BY DEF Remembered, Longest
  <2>1. now - Longest <= t
    BY LongestFacts
  <2>2. SumFunctionOnSet(EventWeight, Events(u, t)) <=
          SumFunctionOnSet(EntryWeight(limiters[u]), Entries(limiters[u], t))
    BY <1>1, <2>1 DEF Remembered
  <2>3. EventWeight' = EventWeight /\ Events(u, t)' = Events(u, t)
    BY DEF EventWeight, Events
  <2>4. EntryWeight(limiters[u])' = EntryWeight(limiters[u])
        /\ Entries(limiters[u], t)' = Entries(limiters[u], t)
    BY <1>1 DEF EntryWeight, Entries
  <2> QED  BY <2>2, <2>3, <2>4
<1> QED  BY <1>2, <1>3

\* A request is weighed, and what is published of it is what was put into the
\* window of its user (consume_message_weight).
LEMMA LimitsCharged ==
    ASSUME LimitInv, Timed, now' = now, NEW u \in Users, NEW kind \in Kinds,
           \A v \in Users : limiters'[v] =
              IF v = u THEN Consume(limiters[u], UserLimits, Weight[kind], now) ELSE limiters[v],
           \A v \in Users, t \in Int :
              \/ (SumFunctionOnSet(EventWeight, Events(v, t)))'
                    = SumFunctionOnSet(EventWeight, Events(v, t))
              \/ /\ v = u /\ t <= now /\ WeightAllowed(u, kind)
                 /\ (SumFunctionOnSet(EventWeight, Events(v, t)))'
                       = SumFunctionOnSet(EventWeight, Events(v, t)) + Weight[kind]
    PROVE  LimitInv'
<1> SUFFICES ASSUME NEW v \in Users PROVE Sorted(limiters[v])' /\ \A t \in Int : Remembered(v, t)'
  BY DEF LimitInv
<1> DEFINE ws == limiters[v]
           w == Weight[kind]
           sum(t) == SumFunctionOnSet(EventWeight, Events(v, t))
           held(t) == SumFunctionOnSet(EntryWeight(ws), Entries(ws, t))
<1>1. ws \in Seq(Entry) /\ Sorted(ws) /\ now \in Nat /\ w \in Nat
  BY UserKeys, WeightAssumption DEF Timed, LimitInv
<1>2. \A t \in Int : sum(t) \in Nat /\ held(t) \in Nat
  BY WeightsTyped
<1>3. \A t \in Int : now - Longest <= t => sum(t) <= held(t)
  BY DEF LimitInv, Remembered
<1>4. CASE v # u
  <2>1. limiters'[v] = limiters[v]
    BY <1>4
  <2>2. Sorted(limiters[v])'
    BY <1>1, <2>1 DEF Sorted
  <2>3. ASSUME NEW t \in Int PROVE Remembered(v, t)'
    <3>1. sum(t)' = sum(t)
      BY <1>4
    <3>2. held(t)' = held(t)
      BY <2>1 DEF EntryWeight, Entries
    <3> QED  BY <1>3, <3>1, <3>2 DEF Remembered, Longest
  <2> QED  BY <2>2, <2>3
<1>5. CASE v = u
  <2> DEFINE new == Consume(ws, UserLimits, w, now)
  <2>1. limiters'[v] = new
    BY <1>5
  <2>2. /\ Sorted(new)
        /\ \A t \in Int : now - Longest <= t =>
             held(t) + (IF Allowed(ws, UserLimits, w, now) /\ t <= now THEN w ELSE 0)
               = SumFunctionOnSet(EntryWeight(new), Entries(new, t))
    <3> HIDE DEF w
    <3> QED  BY <1>1, ConsumeRemembers
  <2> HIDE DEF new
  <2>3. Sorted(limiters[v])'
    BY <2>1, <2>2 DEF Sorted
  <2>4. ASSUME NEW t \in Int PROVE Remembered(v, t)'
    <3> SUFFICES ASSUME now - Longest <= t PROVE sum(t)' <= held(t)'
      BY DEF Remembered, Longest
    <3>1. held(t)' = SumFunctionOnSet(EntryWeight(new), Entries(new, t))
      BY <2>1 DEF EntryWeight, Entries
    <3>2. held(t)' = held(t) + (IF Allowed(ws, UserLimits, w, now) /\ t <= now THEN w ELSE 0)
      BY <2>2, <3>1
    <3>3. \/ sum(t)' = sum(t)
          \/ sum(t)' = sum(t) + w /\ t <= now /\ Allowed(ws, UserLimits, w, now)
      BY <1>5 DEF WeightAllowed
    <3>4. sum(t) <= held(t) /\ sum(t) \in Nat /\ held(t) \in Nat
      BY <1>2, <1>3
    <3> HIDE DEF sum, held, w, ws
    <3> QED  BY <1>1, <3>2, <3>3, <3>4
  <2> QED  BY <2>3, <2>4
<1> QED  BY <1>4, <1>5

\* An event that is published weighs on what its user sent until now, and leaves
\* what was published before as it was (process_incoming).
LEMMA PublishedAdds ==
    ASSUME Timed, NEW x \in Event, x.time = now, published' = Append(published, x)
    PROVE  /\ \A T \in SUBSET DOMAIN published :
                SumFunctionOnSet(EventWeight', T) = SumFunctionOnSet(EventWeight, T)
           /\ \A T \in SUBSET DOMAIN published :
                SumFunctionOnSet(EventWeight', T \cup {Len(published) + 1})
                  = SumFunctionOnSet(EventWeight, T) + Weight[x.kind]
           /\ DOMAIN published' = DOMAIN published \cup {Len(published) + 1}
           /\ Len(published) + 1 \notin DOMAIN published
           /\ published'[Len(published) + 1] = x
           /\ \A i \in DOMAIN published : published'[i] = published[i]
<1> DEFINE n == Len(published)
<1>1. /\ DOMAIN published = 1 .. n /\ n \in Nat
      /\ \A i \in 1 .. n : published[i] \in Event
  BY LenProperties, ElementOfSeq DEF Timed
<1>2. /\ published' \in Seq(Event) /\ Len(published') = n + 1
      /\ \A i \in 1 .. n : published'[i] = published[i]
      /\ published'[n + 1] = x
  BY AppendProperties DEF Timed
<1>3. DOMAIN published' = 1 .. n + 1
  BY <1>2, LenProperties
<1> HIDE DEF n
<1>4. /\ DOMAIN published' = DOMAIN published \cup {n + 1}
      /\ n + 1 \notin DOMAIN published
  BY <1>1, <1>3
<1>5. \A i \in 1 .. n : EventWeight'[i] = EventWeight[i] /\ EventWeight[i] \in Nat
  <2>1. \A i \in 1 .. n : published[i].kind \in Kinds
    BY <1>1 DEF Event
  <2> QED  BY <1>1, <1>2, <1>3, <2>1, WeightAssumption DEF EventWeight
<1>6. EventWeight'[n + 1] = Weight[x.kind] /\ Weight[x.kind] \in Nat
  <2>1. x.kind \in Kinds
    BY DEF Event
  <2> QED  BY <1>1, <1>2, <1>3, <2>1, WeightAssumption DEF EventWeight
<1> DEFINE f == EventWeight
           g == EventWeight'
<1> HIDE DEF f, g
<1>7. ASSUME NEW T \in SUBSET (1 .. n)
      PROVE  /\ SumFunctionOnSet(g, T) = SumFunctionOnSet(f, T)
             /\ SumFunctionOnSet(g, T \cup {n + 1}) = SumFunctionOnSet(f, T) + Weight[x.kind]
  <2>1. IsFiniteSet(T)
    <3>1. IsFiniteSet(1 .. n)
      BY <1>1, FS_Interval
    <3> QED  BY <3>1, FS_Subset
  <2>2. \A i \in T : g[i] = f[i] /\ g[i] \in Nat /\ g[i] \in Int
    BY <1>5 DEF f, g
  <2>3. SumFunctionOnSet(g, T) = SumFunctionOnSet(f, T)
    BY <2>1, <2>2, SumAgrees
  <2> DEFINE W == T \cup {n + 1}
  <2>4. n + 1 \in W /\ W \ {n + 1} = T /\ \A i \in W : g[i] \in Int
    BY <1>1, <1>6, <2>2 DEF g
  <2>5. IsFiniteSet(W)
    BY <2>1, FS_AddElement
  <2> HIDE DEF W
  <2>6. SumFunctionOnSet(g, W) = g[n + 1] + SumFunctionOnSet(g, W \ {n + 1})
    BY <2>4, <2>5, SumRemove
  <2>7. SumFunctionOnSet(g, T) \in Nat
    BY <2>1, <2>2, SumNatural
  <2>8. SumFunctionOnSet(g, W) = SumFunctionOnSet(f, T) + Weight[x.kind]
    <3> DEFINE a == SumFunctionOnSet(g, T)
    <3>1. SumFunctionOnSet(g, W) = Weight[x.kind] + a
      BY <1>6, <2>4, <2>6 DEF g
    <3>2. a \in Nat /\ a = SumFunctionOnSet(f, T)
      BY <2>3, <2>7
    <3> HIDE DEF a
    <3>3. Weight[x.kind] + a = a + Weight[x.kind]
      BY <1>6, <3>2
    <3> QED  BY <3>1, <3>2, <3>3
  <2> QED  BY <2>3, <2>8 DEF W
<1> QED  BY <1>1, <1>2, <1>4, <1>7 DEF f, g, n

\* A user is charged for what is published in its name, and for nothing less.
LEMMA EventsAdd ==
    ASSUME Timed, NEW x \in Event, x.time = now, published' = Append(published, x),
           NEW v \in Users, NEW t \in Int
    PROVE  IF v = x.user /\ t <= now
           THEN (SumFunctionOnSet(EventWeight, Events(v, t)))'
                  = SumFunctionOnSet(EventWeight, Events(v, t)) + Weight[x.kind]
           ELSE (SumFunctionOnSet(EventWeight, Events(v, t)))'
                  = SumFunctionOnSet(EventWeight, Events(v, t))
<1> DEFINE n == Len(published) + 1
<1>1. /\ DOMAIN published' = DOMAIN published \cup {n}
      /\ n \notin DOMAIN published
      /\ published'[n] = x
      /\ \A i \in DOMAIN published : published'[i] = published[i]
      /\ \A T \in SUBSET DOMAIN published :
           /\ SumFunctionOnSet(EventWeight', T) = SumFunctionOnSet(EventWeight, T)
           /\ SumFunctionOnSet(EventWeight', T \cup {n})
                = SumFunctionOnSet(EventWeight, T) + Weight[x.kind]
  BY PublishedAdds
<1> HIDE DEF n
<1>2. Events(v, t) \in SUBSET DOMAIN published
  BY DEF Events
<1>3. CASE v = x.user /\ t <= now
  <2>1. Events(v, t)' = Events(v, t) \cup {n}
    BY <1>1, <1>3 DEF Events, Timed
  <2> QED  BY <1>1, <1>2, <1>3, <2>1
<1>4. CASE ~(v = x.user /\ t <= now)
  <2>1. Events(v, t)' = Events(v, t)
    BY <1>1, <1>4 DEF Events, Timed
  <2> QED  BY <1>1, <1>2, <1>4, <2>1
<1> QED  BY <1>3, <1>4

-------------------------------------------------------------------------------
(* No user gets more through than its limits allow.                           *)

\* The events of a user within a window of a limit.
Within(u, config, t) == {i \in DOMAIN published :
                            /\ published[i].user = u
                            /\ published[i].time \in t .. t + config.period - 1}

\* While nothing is published time may pass: later windows are empty.
LEMMA ThrottleWaits ==
    ASSUME Timed, Throttled, published' = published, now' \in Nat, now <= now'
    PROVE  Throttled'
<1> SUFFICES ASSUME NEW u \in Users, NEW config \in UserLimits, NEW t \in 0 .. now'
             PROVE  SumFunctionOnSet(EventWeight, Within(u, config, t)) <= config.limit
  BY DEF Throttled, EventWeight, Within
<1>1. CASE t <= now
  <2>1. t \in 0 .. now
    BY <1>1 DEF Timed
  <2> QED  BY <2>1 DEF Throttled, EventWeight, Within
<1>2. CASE ~(t <= now)
  <2>1. \A i \in DOMAIN published : published[i].time \in 0 .. now
    <3>1. \A i \in DOMAIN published : published[i] \in Event
      BY LenProperties, ElementOfSeq DEF Timed
    <3> QED  BY <3>1 DEF Event
  <2>2. Within(u, config, t) = {}
    <3> SUFFICES ASSUME NEW i \in DOMAIN published,
                        published[i].time \in t .. t + config.period - 1
                 PROVE  FALSE
      BY DEF Within
    <3>1. config.period \in Nat
      BY LimitsAssumption
    <3> QED  BY <1>2, <2>1, <3>1 DEF Timed
  <2>3. SumFunctionOnSet(EventWeight, {}) = 0
    BY SumEmpty
  <2> QED  BY <2>2, <2>3, LimitsAssumption
<1> QED  BY <1>1, <1>2

\* What is published was allowed by every limit of its user, and what the limit
\* counted is no less than what was published within its period.
LEMMA ThrottleAllows ==
    ASSUME Timed, LimitInv, Throttled, now' = now,
           NEW x \in Event, x.time = now, published' = Append(published, x),
           x.user \in Users, WeightAllowed(x.user, x.kind)
    PROVE  Throttled'
<1> SUFFICES ASSUME NEW u \in Users, NEW config \in UserLimits, NEW t \in 0 .. now
             PROVE  (SumFunctionOnSet(EventWeight, Within(u, config, t)))' <= config.limit
  BY DEF Throttled, EventWeight, Within
<1> DEFINE n == Len(published) + 1
           w == Weight[x.kind]
<1>1. /\ DOMAIN published' = DOMAIN published \cup {n}
      /\ n \notin DOMAIN published
      /\ published'[n] = x
      /\ \A i \in DOMAIN published : published'[i] = published[i]
      /\ \A T \in SUBSET DOMAIN published :
           /\ SumFunctionOnSet(EventWeight', T) = SumFunctionOnSet(EventWeight, T)
           /\ SumFunctionOnSet(EventWeight', T \cup {n}) = SumFunctionOnSet(EventWeight, T) + w
  BY PublishedAdds
<1>2. Within(u, config, t) \in SUBSET DOMAIN published
  BY DEF Within
<1>3. SumFunctionOnSet(EventWeight, Within(u, config, t)) <= config.limit
  BY DEF Throttled, EventWeight, Within
<1>4. config.limit \in Nat /\ config.period \in Nat /\ now \in Nat /\ w \in Nat
  BY LimitsAssumption, WeightAssumption DEF Timed, Event
<1> HIDE DEF n
<1>5. CASE u = x.user /\ now <= t + config.period - 1
  <2> DEFINE from == now - config.period + 1
             ws == limiters[u]
             S == Within(u, config, t)
  <2>1. from \in Int /\ from <= t /\ now - Longest <= t /\ t \in Int
    BY <1>4, <1>5, LongestFacts
  <2>2. S \in SUBSET Events(u, t)
    BY <1>4, <2>1 DEF Within, Events
  <2>3. /\ IsFiniteSet(Events(u, t)) /\ \A i \in Events(u, t) : EventWeight[i] \in Nat
        /\ IsFiniteSet(Entries(ws, from)) /\ \A i \in Entries(ws, from) : EntryWeight(ws)[i] \in Nat
    <3> HIDE DEF from
    <3>1. /\ IsFiniteSet(Events(u, t)) /\ \A i \in DOMAIN published : EventWeight[i] \in Nat
          /\ IsFiniteSet(Entries(ws, from)) /\ \A i \in DOMAIN ws : EntryWeight(ws)[i] \in Nat
      BY <2>1, WeightsTyped
    <3> QED  BY <3>1 DEF Events, Entries
  <2>4. SumFunctionOnSet(EventWeight, S) <= SumFunctionOnSet(EventWeight, Events(u, t))
    <3> HIDE DEF S
    <3> QED  BY <2>2, <2>3, SumSubset
  <2>5. SumFunctionOnSet(EventWeight, Events(u, t)) <= SumFunctionOnSet(EntryWeight(ws), Entries(ws, t))
    BY <2>1 DEF LimitInv, Remembered
  <2>6. SumFunctionOnSet(EntryWeight(ws), Entries(ws, t))
          <= SumFunctionOnSet(EntryWeight(ws), Entries(ws, from))
    <3>1. \A i \in DOMAIN ws : ws[i].time \in Nat
      <4>1. ws \in Seq(Entry)
        BY UserKeys DEF Timed
      <4>2. \A i \in DOMAIN ws : ws[i] \in Entry
        BY <4>1, LenProperties, ElementOfSeq
      <4> QED  BY <4>2 DEF Entry
    <3>2. Entries(ws, t) \in SUBSET Entries(ws, from)
      BY <2>1, <3>1 DEF Entries
    <3> HIDE DEF from, ws
    <3> QED  BY <2>3, <3>2, SumSubset
  <2>7. /\ CurrentWeight(ws, config.period, now) \in Nat
        /\ SumFunctionOnSet(EntryWeight(ws), Entries(ws, from)) <= CurrentWeight(ws, config.period, now)
    <3>1. ws \in Seq(Entry) /\ Sorted(ws)
      BY UserKeys DEF Timed, LimitInv
    <3> HIDE DEF ws
    <3> QED  BY <1>4, <3>1, CurrentCounts
  <2>8. CurrentWeight(ws, config.period, now) + w <= config.limit
    BY <1>5 DEF WeightAllowed, Allowed, CheckLimit
  <2>9. Within(u, config, t)' = S \cup {n}
    <3>1. x.time \in t .. t + config.period - 1
      BY <1>4, <1>5
    <3> QED  BY <1>1, <1>5, <3>1 DEF Within
  <2>10. SumFunctionOnSet(EventWeight', S \cup {n}) = SumFunctionOnSet(EventWeight, S) + w
    BY <1>1, <1>2
  <2>11. /\ SumFunctionOnSet(EventWeight, S) \in Nat
         /\ SumFunctionOnSet(EventWeight, Events(u, t)) \in Nat
         /\ SumFunctionOnSet(EntryWeight(ws), Entries(ws, t)) \in Nat
         /\ SumFunctionOnSet(EntryWeight(ws), Entries(ws, from)) \in Nat
    <3> HIDE DEF from
    <3>1. IsFiniteSet(S) /\ \A i \in S : EventWeight[i] \in Nat
      BY <2>2, <2>3, FS_Subset
    <3>2. SumFunctionOnSet(EventWeight, S) \in Nat
      BY <3>1, SumNatural
    <3>3. /\ SumFunctionOnSet(EventWeight, Events(u, t)) \in Nat
          /\ SumFunctionOnSet(EntryWeight(ws), Entries(ws, t)) \in Nat
      BY <2>1, WeightsTyped
    <3>4. SumFunctionOnSet(EntryWeight(ws), Entries(ws, from)) \in Nat
      BY <2>1, WeightsTyped
    <3> QED  BY <3>2, <3>3, <3>4
  <2> HIDE DEF S, ws, from, w
  <2>12. SumFunctionOnSet(EventWeight, S) + w <= config.limit
    BY <1>4, <2>4, <2>5, <2>6, <2>7, <2>8, <2>11
  <2> QED  BY <2>9, <2>10, <2>12
<1>6. CASE ~(u = x.user /\ now <= t + config.period - 1)
  <2>1. ~(x.user = u /\ x.time \in t .. t + config.period - 1)
    BY <1>4, <1>6
  <2>2. Within(u, config, t)' = Within(u, config, t)
    BY <1>1, <2>1 DEF Within
  <2> QED  BY <1>1, <1>2, <1>3, <2>2
<1> QED  BY <1>5, <1>6

-------------------------------------------------------------------------------
(* Every step keeps the types.                                                *)

\* A map of numbers with a number more or a session less is one
\* (SeqNumPlugin: last_received_seq_num, last_sent_seq_num).
LEMMA SeqMaps ==
    ASSUME NEW map, map \in [DOMAIN map -> Nat], NEW s
    PROVE  /\ SeqNum(map, s) \in Nat
           /\ s \in DOMAIN map => SeqNum(map, s) = map[s]
           /\ \A n \in Nat : /\ DOMAIN WithSeq(map, s, n) = DOMAIN map \cup {s}
                             /\ WithSeq(map, s, n) \in [DOMAIN map \cup {s} -> Nat]
                             /\ WithSeq(map, s, n)[s] = n
                             /\ \A t \in DOMAIN map : t # s => WithSeq(map, s, n)[t] = map[t]
           /\ DOMAIN Without(map, s) = DOMAIN map \ {s}
           /\ Without(map, s) \in [DOMAIN map \ {s} -> Nat]
           /\ \A t \in DOMAIN map : t # s => Without(map, s)[t] = map[t]
<1>1. SeqNum(map, s) \in Nat /\ (s \in DOMAIN map => SeqNum(map, s) = map[s])
  BY DEF SeqNum
<1>2. ASSUME NEW n \in Nat
      PROVE  /\ DOMAIN WithSeq(map, s, n) = DOMAIN map \cup {s}
             /\ WithSeq(map, s, n) \in [DOMAIN map \cup {s} -> Nat]
             /\ WithSeq(map, s, n)[s] = n
             /\ \A t \in DOMAIN map : t # s => WithSeq(map, s, n)[t] = map[t]
  BY DEF WithSeq
<1>3. /\ DOMAIN Without(map, s) = DOMAIN map \ {s}
      /\ Without(map, s) \in [DOMAIN map \ {s} -> Nat]
      /\ \A t \in DOMAIN map : t # s => Without(map, s)[t] = map[t]
  BY DEF Without
<1> QED  BY <1>1, <1>2, <1>3

\* The maps of numbers keep their type.
LEMMA SeqMapsTyped ==
    ASSUME NEW S, NEW map, map \in [DOMAIN map -> Nat], DOMAIN map \subseteq S, NEW s \in S
    PROVE  /\ \A n \in Nat : /\ DOMAIN WithSeq(map, s, n) \subseteq S
                             /\ WithSeq(map, s, n) \in [DOMAIN WithSeq(map, s, n) -> Nat]
           /\ DOMAIN Without(map, s) \subseteq S
           /\ Without(map, s) \in [DOMAIN Without(map, s) -> Nat]
<1>1. ASSUME NEW n \in Nat
      PROVE  /\ DOMAIN WithSeq(map, s, n) \subseteq S
             /\ WithSeq(map, s, n) \in [DOMAIN WithSeq(map, s, n) -> Nat]
  <2>1. DOMAIN WithSeq(map, s, n) = DOMAIN map \cup {s} /\ WithSeq(map, s, n) \in [DOMAIN map \cup {s} -> Nat]
    BY SeqMaps
  <2> QED  BY <2>1
<1>2. /\ DOMAIN Without(map, s) \subseteq S
      /\ Without(map, s) \in [DOMAIN Without(map, s) -> Nat]
  <2>1. DOMAIN Without(map, s) = DOMAIN map \ {s} /\ Without(map, s) \in [DOMAIN map \ {s} -> Nat]
    BY SeqMaps
  <2> QED  BY <2>1
<1> QED  BY <1>1, <1>2

\* Numbers are counted in Nat, and what is published is an event of its time.
LEMMA TypeFacts ==
    ASSUME TypeOK
    PROVE  /\ Timed
           /\ \A s \in Sessions : SeqNum(sentSeq, s) \in Nat /\ SeqNum(recvSeq, s) \in Nat
           /\ Len(published) \in Nat /\ DOMAIN published = 1 .. Len(published)
           /\ \A i \in DOMAIN published : published[i] \in Event
           /\ NoReply \in Message
           /\ \A s \in Sessions : /\ wire[s] \in Seq(Message) /\ channel[s] \in Seq(Message)
                                  /\ reply[s] \in Message
<1>1. limiters \in [Keys -> Seq(Entry)] /\ published \in Seq(Event) /\ now \in Nat
  BY DEF TypeOK, Entry, Event
<1>2. \A s \in Sessions : SeqNum(sentSeq, s) \in Nat /\ SeqNum(recvSeq, s) \in Nat
  BY SeqMaps DEF TypeOK
<1>3. /\ Len(published) \in Nat /\ DOMAIN published = 1 .. Len(published)
      /\ \A i \in DOMAIN published : published[i] \in Event
  BY <1>1, LenProperties, ElementOfSeq
<1>4. NoReply \in Message
  BY DEF NoReply, Message
<1> QED  BY <1>1, <1>2, <1>3, <1>4 DEF TypeOK, Timed

\* The initial state is typed: nothing is there yet.
LEMMA InitTyped == ASSUME Init PROVE TypeOK
<1>1. /\ accepting \in BOOLEAN /\ upgrading \in 0 .. Cardinality(Sessions)
      /\ registered \subseteq Sessions /\ cancelled \subseteq Sessions
      /\ pinged \subseteq Sessions /\ stopping \subseteq Sessions
  <2>1. Cardinality(Sessions) \in Nat
    BY SessionsAssumption, FS_CardinalityType
  <2> QED  BY <2>1 DEF Init
<1>2. /\ handler \in [Sessions -> {"new", "open", "replying", "closing", "gone"}]
      /\ peer \in [Sessions -> {"up", "closed", "silent"}]
      /\ userSessions \in [Users -> SUBSET Sessions]
      /\ now \in 0 .. MaxTime
  BY TimeAssumption DEF Init
<1>3. reply \in [Sessions -> Message]
  BY DEF Init, NoReply, Message
<1>4. /\ channel \in [Sessions -> Seq(Message)] /\ wire \in [Sessions -> Seq(Message)]
      /\ limiters \in [Keys -> Seq([weight : Nat, time : Nat])]
      /\ published \in Seq([session : Sessions, user : Users, kind : Kinds,
                            seq : Nat, time : 0 .. now])
  BY EmptySeq DEF Init
<1>5. /\ DOMAIN recvSeq \subseteq Sessions /\ recvSeq \in [DOMAIN recvSeq -> Nat]
      /\ DOMAIN sentSeq \subseteq Sessions \cup {Proto} /\ sentSeq \in [DOMAIN sentSeq -> Nat]
  <2>1. recvSeq = <<>> /\ sentSeq = <<>>
    BY DEF Init
  <2>2. <<>> \in Seq(Nat) /\ Len(<<>>) = 0
    BY EmptySeq
  <2>3. <<>> \in [1 .. 0 -> Nat] /\ DOMAIN <<>> = 1 .. 0
    BY <2>2, LenProperties
  <2> QED  BY <2>1, <2>3
<1>6. outgoing \subseteq [session : Sessions \cup {Proto}, re : Nat, seq : Nat]
  BY DEF Init
<1> QED  BY <1>1, <1>2, <1>3, <1>4, <1>5, <1>6 DEF TypeOK

\* A message that is refused: it may have taken its number, and subscribed its
\* session to its user (the error paths of process_incoming).
Refused(s) == /\ Reading(s)
              /\ Reply(s, "nak", 0)
              /\ UNCHANGED solving
              /\ \/ recvSeq' = recvSeq
                 \/ recvSeq' = WithSeq(recvSeq, s, SeqNum(recvSeq, s) + 1)
              /\ userSessions' = userSessions \/ \E u \in Users : AddUserSession(s, u)

\* What a handler reads is refused or accepted, and charged to its session, and to
\* its user once that is known (process_incoming).
LEMMA ReadFacts ==
    ASSUME TypeOK, NEW s \in Sessions, Read(s)
    PROVE  /\ limiters' \in [Keys -> Seq(Entry)]
           /\ Refused(s) \/ \E u \in Users, kind \in Kinds : Accept(s, u, kind, SeqNum(recvSeq, s) + 1)
<1>1. limiters \in [Keys -> Seq(Entry)] /\ now \in Nat
  BY TypeFacts DEF Timed
<1>2. /\ Checked(s) \in [Keys -> Seq(Entry)]
      /\ \A u \in Users, kind \in Kinds : Weighed(s, u, kind) \in [Keys -> Seq(Entry)]
  BY <1>1, CheckedFacts, WeighedFacts
<1>3. CASE RefuseRate(s) \/ RefuseUnread(s)
  BY <1>2, <1>3 DEF RefuseRate, RefuseUnread, Refused
<1>4. CASE \E u \in Users, kind \in Kinds : RefuseWeight(s, u, kind)
  <2>1. PICK u \in Users, kind \in Kinds : RefuseWeight(s, u, kind)
    BY <1>4
  <2>2. /\ limiters' = Weighed(s, u, kind) /\ Reading(s) /\ Reply(s, "nak", 0)
        /\ AddUserSession(s, u) /\ UNCHANGED <<recvSeq, solving>>
    BY <2>1 DEF RefuseWeight
  <2> QED  BY <1>2, <2>2 DEF Refused
<1>5. CASE \E u \in Users, kind \in Kinds, n \in 0 .. MaxReceived + 1 : RefuseSequence(s, u, kind, n)
  <2>1. PICK u \in Users, kind \in Kinds, n \in 0 .. MaxReceived + 1 : RefuseSequence(s, u, kind, n)
    BY <1>5
  <2>2. /\ limiters' = Weighed(s, u, kind) /\ Reading(s) /\ Reply(s, "nak", 0)
        /\ AddUserSession(s, u) /\ UNCHANGED <<recvSeq, solving>>
    BY <2>1 DEF RefuseSequence, Weighing
  <2> QED  BY <1>2, <2>2 DEF Refused
<1>6. CASE \E u \in Users, kind \in Kinds, n \in 0 .. MaxReceived + 1 : RefuseContent(s, u, kind, n)
  <2>1. PICK u \in Users, kind \in Kinds, n \in 0 .. MaxReceived + 1 : RefuseContent(s, u, kind, n)
    BY <1>6
  <2>2. /\ limiters' = Weighed(s, u, kind) /\ Reading(s) /\ Reply(s, "nak", 0)
        /\ AddUserSession(s, u) /\ UNCHANGED solving
        /\ recvSeq' = WithSeq(recvSeq, s, SeqNum(recvSeq, s) + 1)
    BY <2>1 DEF RefuseContent, Weighing, ValidSeqNum
  <2> QED  BY <1>2, <2>2 DEF Refused
<1>7. CASE \E u \in Users, kind \in Kinds, n \in 0 .. MaxReceived + 1 : Accept(s, u, kind, n)
  <2>1. PICK u \in Users, kind \in Kinds, n \in 0 .. MaxReceived + 1 : Accept(s, u, kind, n)
    BY <1>7
  <2>2. limiters' = Weighed(s, u, kind) /\ n = SeqNum(recvSeq, s) + 1
    BY <2>1 DEF Accept, Weighing, ValidSeqNum
  <2> QED  BY <1>2, <2>1, <2>2
<1> QED  BY <1>3, <1>4, <1>5, <1>6, <1>7 DEF Read

\* Every answer is a message of the session's next number (process_ack, process_error).
LEMMA ReplyTyped ==
    ASSUME TypeOK, NEW s \in Sessions, NEW type \in {"ack", "nak"}, NEW re \in Nat, Reply(s, type, re)
    PROVE  /\ handler' \in [Sessions -> {"new", "open", "replying", "closing", "gone"}]
           /\ reply' \in [Sessions -> Message]
           /\ DOMAIN sentSeq' \subseteq Sessions \cup {Proto} /\ sentSeq' \in [DOMAIN sentSeq' -> Nat]
<1>1. SeqNum(sentSeq, s) + 1 \in Nat
  BY TypeFacts
<1>2. [type |-> type, seq |-> SeqNum(sentSeq, s) + 1, re |-> re] \in Message
  BY <1>1 DEF Message
<1>3. sentSeq' = WithSeq(sentSeq, s, SeqNum(sentSeq, s) + 1)
  BY DEF Reply
<1>4. handler' \in [Sessions -> {"new", "open", "replying", "closing", "gone"}]
  BY DEF Reply, TypeOK
<1>5. reply' \in [Sessions -> Message]
  <2> DEFINE m == [type |-> type, seq |-> SeqNum(sentSeq, s) + 1, re |-> re]
  <2>1. reply' = [reply EXCEPT ![s] = m] /\ m \in Message /\ reply \in [Sessions -> Message]
    BY <1>2 DEF Reply, TypeOK
  <2> HIDE DEF m
  <2> QED  BY <2>1
<1>6. DOMAIN sentSeq' \subseteq Sessions \cup {Proto} /\ sentSeq' \in [DOMAIN sentSeq' -> Nat]
  <2>1. sentSeq \in [DOMAIN sentSeq -> Nat] /\ DOMAIN sentSeq \subseteq Sessions \cup {Proto}
    BY DEF TypeOK
  <2>2. s \in Sessions \cup {Proto}
    OBVIOUS
  <2> QED  BY <1>1, <1>3, <2>1, <2>2, SeqMapsTyped
<1> QED  BY <1>4, <1>5, <1>6

\* What a handler reads keeps the types.
LEMMA ReadTyped ==
    ASSUME TypeOK, NEW s \in Sessions, Read(s)
    PROVE  TypeOK'
<1>1. limiters' \in [Keys -> Seq(Entry)]
  BY ReadFacts
<1>2. recvSeq \in [DOMAIN recvSeq -> Nat] /\ DOMAIN recvSeq \subseteq Sessions
  BY DEF TypeOK
<1>3. SeqNum(recvSeq, s) + 1 \in Nat
  BY TypeFacts
<1>4. /\ DOMAIN WithSeq(recvSeq, s, SeqNum(recvSeq, s) + 1) \subseteq Sessions
      /\ WithSeq(recvSeq, s, SeqNum(recvSeq, s) + 1)
           \in [DOMAIN WithSeq(recvSeq, s, SeqNum(recvSeq, s) + 1) -> Nat]
  <2> DEFINE n == SeqNum(recvSeq, s) + 1
  <2> HIDE DEF n
  <2>1. n \in Nat
    BY <1>3 DEF n
  <2>2. /\ DOMAIN WithSeq(recvSeq, s, n) \subseteq Sessions
        /\ WithSeq(recvSeq, s, n) \in [DOMAIN WithSeq(recvSeq, s, n) -> Nat]
    BY <1>2, <2>1, SeqMapsTyped
  <2> QED  BY <2>2 DEF n
<1>5. Reading(s) => UNCHANGED <<connection, pinged, peer, channel, wire, faults, now>>
  BY DEF Reading
<1>6. ASSUME NEW u \in Users, AddUserSession(s, u) PROVE userSessions' \in [Users -> SUBSET Sessions]
  BY <1>6 DEF AddUserSession, TypeOK
<1>7. CASE Refused(s)
  <2>1. Reading(s) /\ Reply(s, "nak", 0) /\ UNCHANGED <<published, outgoing>> /\ 0 \in Nat
    BY <1>7 DEF Refused, solving
  <2>2. /\ handler' \in [Sessions -> {"new", "open", "replying", "closing", "gone"}]
        /\ reply' \in [Sessions -> Message]
        /\ DOMAIN sentSeq' \subseteq Sessions \cup {Proto} /\ sentSeq' \in [DOMAIN sentSeq' -> Nat]
    BY <2>1, ReplyTyped
  <2>3. DOMAIN recvSeq' \subseteq Sessions /\ recvSeq' \in [DOMAIN recvSeq' -> Nat]
    BY <1>2, <1>4, <1>7 DEF Refused
  <2>4. userSessions' \in [Users -> SUBSET Sessions]
    BY <1>6, <1>7 DEF Refused, TypeOK
  <2> QED  BY <1>1, <1>5, <2>1, <2>2, <2>3, <2>4 DEF TypeOK, Entry, connection
<1>8. CASE \E u \in Users, kind \in Kinds : Accept(s, u, kind, SeqNum(recvSeq, s) + 1)
  <2>1. PICK u \in Users, kind \in Kinds : Accept(s, u, kind, SeqNum(recvSeq, s) + 1)
    BY <1>8
  <2> DEFINE n == SeqNum(recvSeq, s) + 1
             x == ServerEvent(s, u, kind, n)
  <2>2. /\ Reading(s) /\ Reply(s, "ack", Len(published) + 1) /\ outgoing' = outgoing
        /\ recvSeq' = WithSeq(recvSeq, s, n) /\ published' = Append(published, x)
        /\ AddUserSession(s, u)
    BY <2>1 DEF Accept, Weighing
  <2>3. Len(published) + 1 \in Nat
    BY TypeFacts
  <2>4. /\ handler' \in [Sessions -> {"new", "open", "replying", "closing", "gone"}]
        /\ reply' \in [Sessions -> Message]
        /\ DOMAIN sentSeq' \subseteq Sessions \cup {Proto} /\ sentSeq' \in [DOMAIN sentSeq' -> Nat]
    BY <2>2, <2>3, ReplyTyped
  <2>5. DOMAIN recvSeq' \subseteq Sessions /\ recvSeq' \in [DOMAIN recvSeq' -> Nat]
    BY <1>4, <2>2
  <2>6. x \in Event /\ now' = now
    BY <1>3, <1>5, <2>2, TypeFacts DEF ServerEvent, Event, Timed
  <2>7. published' \in Seq(Event)
    <3>1. published \in Seq(Event)
      BY TypeFacts DEF Timed
    <3> HIDE DEF x
    <3> QED  BY <2>2, <2>6, <3>1, AppendProperties
  <2>8. published' \in Seq([session : Sessions, user : Users, kind : Kinds,
                           seq : Nat, time : 0 .. now'])
    BY <2>6, <2>7 DEF Event
  <2> QED  BY <1>1, <1>5, <1>6, <2>2, <2>4, <2>5, <2>8 DEF TypeOK, Entry, connection
<1> QED  BY <1>7, <1>8, ReadFacts

\* The handler sends what it has in hand or what waits in its channel (send_text).
LEMMA SendTyped ==
    ASSUME TypeOK, NEW s \in Sessions, SendReply(s) \/ Forward(s)
    PROVE  TypeOK'
<1>1. /\ reply[s] \in Message /\ wire[s] \in Seq(Message) /\ channel[s] \in Seq(Message)
      /\ NoReply \in Message
  BY TypeFacts
<1>2. /\ wire \in [Sessions -> Seq(Message)] /\ channel \in [Sessions -> Seq(Message)]
      /\ reply \in [Sessions -> Message]
  BY DEF TypeOK
<1>3. CASE SendReply(s)
  <2>1. Append(wire[s], reply[s]) \in Seq(Message)
    BY <1>1, AppendProperties
  <2>2. wire' \in [Sessions -> Seq(Message)] /\ reply' \in [Sessions -> Message] /\ channel' = channel
    BY <1>1, <1>2, <1>3, <2>1 DEF SendReply
  <2> QED  BY <1>3, <2>2 DEF TypeOK, SendReply, Rest, Leave, connection, solving
<1>4. CASE Forward(s)
  <2>1. /\ Head(channel[s]) \in Message /\ Tail(channel[s]) \in Seq(Message)
    BY <1>1, <1>4, HeadTailProperties DEF Forward
  <2>2. Append(wire[s], Head(channel[s])) \in Seq(Message)
    BY <1>1, <2>1, AppendProperties
  <2>3. /\ wire' \in [Sessions -> Seq(Message)] /\ channel' \in [Sessions -> Seq(Message)]
        /\ reply' = reply
    BY <1>2, <1>4, <2>1, <2>2 DEF Forward
  <2> QED  BY <1>4, <2>3 DEF TypeOK, Forward, Rest, Leave, connection, solving
<1> QED  BY <1>3, <1>4

\* What else a handler does, up to its end (process_timeout, handle_websocket).
LEMMA ConnectionTyped ==
    ASSUME TypeOK, NEW s \in Sessions,
           \/ Ended(s) \/ Timeout(s) \/ Pong(s) \/ OddFrame(s)
           \/ \E how \in {"closed", "silent"} : PeerTurns(s, how)
    PROVE  TypeOK'
<1>1. CASE Ended(s) \/ OddFrame(s)
  BY <1>1 DEF Ended, OddFrame, TypeOK, Rest, Leave, connection, solving
<1>2. CASE Timeout(s)
  BY <1>2 DEF Timeout, TypeOK, Rest, Leave, connection, solving
<1>3. CASE Pong(s)
  BY <1>3 DEF Pong, TypeOK, Rest, connection, solving
<1>4. CASE \E how \in {"closed", "silent"} : PeerTurns(s, how)
  BY <1>4 DEF PeerTurns, TypeOK, Rest, connection, solving
<1> QED  BY <1>1, <1>2, <1>3, <1>4

\* A session leaves the maps of the server and of the plugins (destroy_session).
LEMMA DestroyTyped ==
    ASSUME TypeOK, NEW s \in Sessions, Destroy(s)
    PROVE  /\ limiters' \in [Keys -> Seq(Entry)]
           /\ userSessions' \in [Users -> SUBSET Sessions]
           /\ \A u \in Users : \A t \in Sessions : t # s => (t \in userSessions'[u] <=> t \in userSessions[u])
           /\ \A u \in Users : userSessions'[u] \subseteq userSessions[u]
           /\ DOMAIN recvSeq' \subseteq Sessions /\ recvSeq' \in [DOMAIN recvSeq' -> Nat]
           /\ DOMAIN sentSeq' \subseteq Sessions \cup {Proto} /\ sentSeq' \in [DOMAIN sentSeq' -> Nat]
           /\ registered' = registered \ {s}
<1>1. limiters' \in [Keys -> Seq(Entry)]
  <2>1. limiters \in [Keys -> Seq(Entry)]
    BY TypeFacts DEF Timed
  <2> QED  BY <2>1, DestroyFacts
<1>2. /\ userSessions' \in [Users -> SUBSET Sessions]
      /\ \A u \in Users : \A t \in Sessions : t # s => (t \in userSessions'[u] <=> t \in userSessions[u])
      /\ \A u \in Users : userSessions'[u] \subseteq userSessions[u]
  <2>1. userSessions \in [Users -> SUBSET Sessions]
    BY DEF TypeOK
  <2>2. \/ userSessions' = userSessions
        \/ \E u \in Users : userSessions' = [userSessions EXCEPT ![u] = @ \ {s}]
    BY DEF Destroy
  <2> QED  BY <2>1, <2>2
<1>3. /\ recvSeq \in [DOMAIN recvSeq -> Nat] /\ DOMAIN recvSeq \subseteq Sessions
      /\ sentSeq \in [DOMAIN sentSeq -> Nat] /\ DOMAIN sentSeq \subseteq Sessions \cup {Proto}
      /\ s \in Sessions \cup {Proto}
  BY DEF TypeOK
<1>4. /\ recvSeq' = Without(recvSeq, s) /\ sentSeq' = Without(sentSeq, s)
      /\ registered' = registered \ {s}
  BY DEF Destroy
<1>5. /\ DOMAIN Without(recvSeq, s) \subseteq Sessions
      /\ Without(recvSeq, s) \in [DOMAIN Without(recvSeq, s) -> Nat]
  BY <1>3, SeqMapsTyped
<1>6. /\ DOMAIN Without(sentSeq, s) \subseteq Sessions \cup {Proto}
      /\ Without(sentSeq, s) \in [DOMAIN Without(sentSeq, s) -> Nat]
  BY <1>3, SeqMapsTyped
<1> QED  BY <1>1, <1>2, <1>4, <1>5, <1>6

\* A handler ends, or the server closes a session (handle_websocket, close_session).
LEMMA CloseTyped ==
    ASSUME TypeOK, NEW s \in Sessions, Close(s) \/ StopClose(s)
    PROVE  TypeOK'
<1>1. Destroy(s)
  BY DEF Close, StopClose
<1>2. /\ limiters' \in [Keys -> Seq(Entry)]
      /\ userSessions' \in [Users -> SUBSET Sessions]
      /\ DOMAIN recvSeq' \subseteq Sessions /\ recvSeq' \in [DOMAIN recvSeq' -> Nat]
      /\ DOMAIN sentSeq' \subseteq Sessions \cup {Proto} /\ sentSeq' \in [DOMAIN sentSeq' -> Nat]
      /\ registered' = registered \ {s}
  BY <1>1, DestroyTyped
<1>3. <<>> \in Seq(Message)
  BY EmptySeq
<1>4. CASE Close(s)
  BY <1>2, <1>3, <1>4 DEF Close, TypeOK, Entry, solving
<1>5. CASE StopClose(s)
  BY <1>2, <1>5 DEF StopClose, TypeOK, Entry, solving
<1> QED  BY <1>4, <1>5

\* The sessions that have been created are counted.
LEMMA Counts ==
    ASSUME Admitted
    PROVE  /\ Cardinality(Sessions) \in Nat /\ Cardinality(Created) \in Nat
           /\ upgrading \in Nat /\ upgrading > 0 =>
                /\ Cardinality(Created) + 1 \in Sessions
                /\ handler[Cardinality(Created) + 1] = "new"
<1>1. IsFiniteSet(Created) /\ IsFiniteSet(Sessions)
  BY SessionsAssumption, FS_Subset DEF Created
<1>2. Cardinality(Sessions) \in Nat /\ Cardinality(Created) \in Nat
  BY <1>1, FS_CardinalityType
<1> DEFINE c == Cardinality(Created)
           m == Cardinality(Sessions)
<1>3. ASSUME upgrading \in Nat, upgrading > 0
      PROVE  c + 1 \in Sessions /\ handler[c + 1] = "new"
  <2>1. Sessions = 1 .. m /\ Created = 1 .. c /\ c + upgrading <= m /\ m \in Nat /\ c \in Nat
    BY <1>2, SessionsAssumption DEF Admitted
  <2> HIDE DEF c, m
  <2>2. c + 1 \in 1 .. m /\ c + 1 \notin 1 .. c
    BY <1>3, <2>1
  <2>3. c + 1 \in Sessions /\ c + 1 \notin Created
    BY <2>1, <2>2
  <2> QED  BY <2>3 DEF Created
<1> QED  BY <1>2, <1>3

\* A connection is admitted and becomes a session (create_session).
LEMMA CreateTyped ==
    ASSUME TypeOK, Admitted, Upgrade \/ CreateSession
    PROVE  TypeOK'
<1>1. upgrading \in Nat /\ Cardinality(Sessions) \in Nat /\ Cardinality(Created) \in Nat
  BY Counts, SessionsAssumption, FS_CardinalityType DEF TypeOK
<1>2. CASE Upgrade
  <2>1. upgrading' \in 0 .. Cardinality(Sessions)
    BY <1>1, <1>2 DEF Upgrade
  <2> QED  BY <1>2, <2>1 DEF Upgrade, TypeOK
<1>3. CASE CreateSession
  <2> DEFINE s == Cardinality(Created) + 1
  <2>1. s \in Sessions
    BY <1>1, <1>3, Counts DEF CreateSession
  <2>2. /\ upgrading' = upgrading - 1 /\ upgrading > 0
        /\ handler' = [handler EXCEPT ![s] = "open"]
        /\ registered' = registered \cup {s}
        /\ recvSeq' = WithSeq(recvSeq, s, 0)
        /\ sentSeq' = WithSeq(sentSeq, s, 0)
        /\ UNCHANGED <<accepting, cancelled, pinged, peer, reply, channel, wire,
                       userSessions, limiters, published, outgoing,
                       stopping, received, answered, faults, now>>
    BY <1>3 DEF CreateSession
  <2> HIDE DEF s
  <2>3. /\ recvSeq \in [DOMAIN recvSeq -> Nat] /\ DOMAIN recvSeq \subseteq Sessions
        /\ sentSeq \in [DOMAIN sentSeq -> Nat] /\ DOMAIN sentSeq \subseteq Sessions \cup {Proto}
        /\ s \in Sessions \cup {Proto} /\ 0 \in Nat
    BY <2>1 DEF TypeOK
  <2>4. DOMAIN recvSeq' \subseteq Sessions /\ recvSeq' \in [DOMAIN recvSeq' -> Nat]
    BY <2>1, <2>2, <2>3, SeqMapsTyped
  <2>5. DOMAIN sentSeq' \subseteq Sessions \cup {Proto} /\ sentSeq' \in [DOMAIN sentSeq' -> Nat]
    BY <2>2, <2>3, SeqMapsTyped
  <2>6. upgrading' \in 0 .. Cardinality(Sessions)
    BY <1>1, <2>2 DEF TypeOK
  <2> QED  BY <2>1, <2>2, <2>4, <2>5, <2>6 DEF TypeOK
<1> QED  BY <1>2, <1>3

\* The sessions that a response is for, the stand-in for none among them.
LEMMA Addressed ==
    ASSUME TypeOK, NEW e \in DOMAIN published
    PROVE  /\ published[e].user \in Users
           /\ UserSessions(published[e].user) \subseteq Sessions \cup {Proto}
           /\ \A s \in Sessions : s \in UserSessions(published[e].user)
                                     => s \in userSessions[published[e].user]
<1>1. published[e].user \in Users
  BY TypeFacts DEF Event
<1> QED  BY <1>1, NamesAssumption DEF UserSessions, TypeOK

\* The solver's thread numbers a response for every session of its user, and puts
\* it into their channels (process_outgoing).
LEMMA RespondTyped ==
    ASSUME TypeOK, NEW e \in DOMAIN published, Respond(e)
    PROVE  TypeOK'
<1> DEFINE to == UserSessions(published[e].user)
<1>1. to \subseteq Sessions \cup {Proto}
  BY Addressed
<1>2. e \in Nat
  BY TypeFacts
<1>3. sentSeq \in [DOMAIN sentSeq -> Nat] /\ DOMAIN sentSeq \subseteq Sessions \cup {Proto}
  BY DEF TypeOK
<1>4. \A s : NextSeqNum(s) \in Nat
  BY <1>3 DEF NextSeqNum, SeqNum
<1>5. /\ sentSeq' = [s \in DOMAIN sentSeq \cup to |-> IF s \in to THEN NextSeqNum(s) ELSE sentSeq[s]]
      /\ outgoing' = {FixResponse(s, e) : s \in to}
      /\ UNCHANGED <<connection, handler, pinged, peer, reply, channel, wire, recvSeq,
                     userSessions, limiters, published, received, faults, now>>
  BY DEF Respond
<1> HIDE DEF to
<1>6. DOMAIN sentSeq' \subseteq Sessions \cup {Proto} /\ sentSeq' \in [DOMAIN sentSeq' -> Nat]
  BY <1>1, <1>3, <1>4, <1>5
<1>7. outgoing' \subseteq [session : Sessions \cup {Proto}, re : Nat, seq : Nat]
  BY <1>1, <1>2, <1>4, <1>5 DEF FixResponse
<1> QED  BY <1>5, <1>6, <1>7 DEF TypeOK, connection

\* So does handing over.
LEMMA DeliverTyped ==
    ASSUME TypeOK, Deliver
    PROVE  TypeOK'
<1>1. PICK o \in outgoing :
        /\ outgoing' = outgoing \ {o}
        /\ channel' = IF o.session \in registered
                      THEN [channel EXCEPT ![o.session] =
                              Append(@, [type |-> "response", seq |-> o.seq, re |-> o.re])]
                      ELSE channel
        /\ UNCHANGED <<connection, handler, pinged, peer, reply, wire, recvSeq, sentSeq,
                       userSessions, limiters, published, answered, received, faults, now>>
  BY DEF Deliver
<1>2. o.seq \in Nat /\ o.re \in Nat /\ o.session \in Sessions \cup {Proto}
  BY DEF TypeOK
<1>3. [type |-> "response", seq |-> o.seq, re |-> o.re] \in Message
  BY <1>2 DEF Message
<1>4. channel' \in [Sessions -> Seq(Message)]
  <2> DEFINE m == [type |-> "response", seq |-> o.seq, re |-> o.re]
  <2>1. channel \in [Sessions -> Seq(Message)]
    BY DEF TypeOK
  <2>2. CASE o.session \in registered
    <3>1. o.session \in Sessions /\ channel[o.session] \in Seq(Message)
      BY <2>1, <2>2 DEF TypeOK
    <3>2. Append(channel[o.session], m) \in Seq(Message)
      BY <1>3, <3>1, AppendProperties
    <3>3. channel' = [channel EXCEPT ![o.session] = Append(channel[o.session], m)]
      BY <1>1, <2>2
    <3> HIDE DEF m
    <3> QED  BY <2>1, <3>2, <3>3
  <2>3. CASE o.session \notin registered
    BY <1>1, <2>1, <2>3
  <2> QED  BY <2>2, <2>3
<1> QED  BY <1>1, <1>4 DEF TypeOK, connection

\* Main closes the server, begins to stop it, and time passes.
LEMMA ServerTyped ==
    ASSUME TypeOK, CloseServer \/ StopServer \/ Tick
    PROVE  TypeOK'
<1>1. CASE CloseServer
  BY <1>1 DEF CloseServer, TypeOK, solving
<1>2. CASE StopServer
  BY <1>2 DEF StopServer, TypeOK, solving
<1>3. CASE Tick
  <2>1. now' \in 0 .. MaxTime /\ now <= now' /\ now \in Nat /\ now' \in Nat
    BY <1>3, TimeAssumption DEF Tick, TypeOK
  <2>2. published' = published
    BY <1>3 DEF Tick, solving
  <2> DEFINE Later == [session : Sessions, user : Users, kind : Kinds, seq : Nat, time : 0 .. now']
  <2>3. published \in Seq(Later)
    <3>1. published \in Seq(Event) /\ Event \subseteq Later
      BY <2>1, TypeFacts DEF Timed, Event
    <3> HIDE DEF Later
    <3> QED  BY <3>1, SeqMonotonic
  <2> QED  BY <1>3, <2>1, <2>2, <2>3 DEF Tick, TypeOK, connection, solving
<1> QED  BY <1>1, <1>2, <1>3

-------------------------------------------------------------------------------
(* The numbers of a session, as sets.                                         *)

\* A message that joins a queue brings its number.
LEMMA NumsAppended ==
    ASSUME NEW q \in Seq(Message), NEW m \in Message
    PROVE  /\ Len(Append(q, m)) = Len(q) + 1
           /\ Nums(Append(q, m)) = Nums(q) \cup {m.seq}
<1>1. /\ Len(Append(q, m)) = Len(q) + 1 /\ Len(q) \in Nat
      /\ \A i \in 1 .. Len(q) : Append(q, m)[i] = q[i]
      /\ Append(q, m)[Len(q) + 1] = m
  BY AppendProperties, LenProperties
<1> DEFINE a == Append(q, m)
           n == Len(q)
<1> HIDE DEF a, n
<1>2. /\ Len(a) = n + 1 /\ n \in Nat /\ a[n + 1] = m /\ \A i \in 1 .. n : a[i] = q[i]
  BY <1>1 DEF a, n
<1>3. {a[i].seq : i \in 1 .. n + 1} = {q[i].seq : i \in 1 .. n} \cup {m.seq}
  <2>1. \A i \in 1 .. n + 1 : a[i].seq \in {q[j].seq : j \in 1 .. n} \cup {m.seq}
    <3> SUFFICES ASSUME NEW i \in 1 .. n + 1
                 PROVE  a[i].seq \in {q[j].seq : j \in 1 .. n} \cup {m.seq}
      OBVIOUS
    <3>1. i \in 1 .. n \/ i = n + 1
      BY <1>2
    <3> QED  BY <1>2, <3>1
  <2>2. \A i \in 1 .. n : q[i].seq \in {a[j].seq : j \in 1 .. n + 1}
    <3> SUFFICES ASSUME NEW i \in 1 .. n PROVE q[i].seq \in {a[j].seq : j \in 1 .. n + 1}
      OBVIOUS
    <3>1. i \in 1 .. n + 1 /\ a[i] = q[i]
      BY <1>2
    <3> QED  BY <3>1
  <2>3. m.seq \in {a[j].seq : j \in 1 .. n + 1}
    <3>1. n + 1 \in 1 .. n + 1 /\ a[n + 1] = m
      BY <1>2
    <3> QED  BY <3>1
  <2> QED  BY <2>1, <2>2, <2>3
<1> QED  BY <1>1, <1>2, <1>3 DEF Nums, a, n

\* The first message of a queue takes its number along.
LEMMA NumsTaken ==
    ASSUME NEW q \in Seq(Message), q # <<>>
    PROVE  /\ Len(q) = Len(Tail(q)) + 1 /\ Len(Tail(q)) \in Nat
           /\ Nums(q) = {Head(q).seq} \cup Nums(Tail(q))
           /\ Head(q) = q[1] /\ 1 \in 1 .. Len(q)
           /\ Tail(q) \in Seq(Message)
           /\ \A i \in 1 .. Len(Tail(q)) : i + 1 \in 1 .. Len(q) /\ Tail(q)[i] = q[i + 1]
<1> DEFINE u == Tail(q)
           n == Len(u)
<1>1. /\ u \in Seq(Message) /\ n = Len(q) - 1 /\ Head(q) = q[1]
      /\ \A i \in 1 .. n : u[i] = q[i + 1]
  BY HeadTailProperties
<1>2. n \in Nat /\ Len(q) \in Nat \ {0}
  BY <1>1, LenProperties, EmptySeq
<1> HIDE DEF u, n
<1>3. Len(q) = n + 1 /\ \A i \in 1 .. n : i + 1 \in 1 .. n + 1
  BY <1>1, <1>2
<1>4. {q[i].seq : i \in 1 .. n + 1} = {q[1].seq} \cup {u[i].seq : i \in 1 .. n}
  <2>1. \A i \in 1 .. n + 1 : q[i].seq \in {q[1].seq} \cup {u[j].seq : j \in 1 .. n}
    <3> SUFFICES ASSUME NEW i \in 1 .. n + 1, i # 1 PROVE q[i].seq \in {u[j].seq : j \in 1 .. n}
      OBVIOUS
    <3>1. i - 1 \in 1 .. n /\ i - 1 + 1 = i
      BY <1>2
    <3>2. u[i - 1] = q[i]
      BY <1>1, <3>1
    <3> QED  BY <3>1, <3>2
  <2>2. \A j \in 1 .. n : u[j].seq \in {q[i].seq : i \in 1 .. n + 1}
    BY <1>1, <1>3
  <2>3. q[1].seq \in {q[i].seq : i \in 1 .. n + 1}
    <3>1. 1 \in 1 .. n + 1
      BY <1>2
    <3> QED  BY <3>1
  <2> QED  BY <2>1, <2>2, <2>3
<1> QED  BY <1>1, <1>2, <1>3, <1>4 DEF Nums, u, n

\* Two queues, one after the other.
LEMMA NumsJoined ==
    ASSUME NEW p \in Seq(Message), NEW q \in Seq(Message)
    PROVE  /\ p \o q \in Seq(Message)
           /\ Len(p \o q) = Len(p) + Len(q)
           /\ Nums(p \o q) = Nums(p) \cup Nums(q)
           /\ \A i \in 1 .. Len(p) + Len(q) :
                (p \o q)[i] = IF i <= Len(p) THEN p[i] ELSE q[i - Len(p)]
<1> DEFINE r == p \o q
           m == Len(p)
           n == Len(q)
<1>1. /\ r \in Seq(Message) /\ Len(r) = m + n /\ m \in Nat /\ n \in Nat
      /\ \A i \in 1 .. m + n : r[i] = IF i <= m THEN p[i] ELSE q[i - m]
  BY ConcatProperties, LenProperties
<1> HIDE DEF r, m, n
<1>2. {r[i].seq : i \in 1 .. m + n} = {p[i].seq : i \in 1 .. m} \cup {q[i].seq : i \in 1 .. n}
  <2>1. \A i \in 1 .. m + n : r[i].seq \in {p[j].seq : j \in 1 .. m} \cup {q[j].seq : j \in 1 .. n}
    <3> SUFFICES ASSUME NEW i \in 1 .. m + n
                 PROVE  r[i].seq \in {p[j].seq : j \in 1 .. m} \cup {q[j].seq : j \in 1 .. n}
      OBVIOUS
    <3>1. CASE i <= m
      <4>1. i \in 1 .. m /\ r[i] = p[i]
        BY <1>1, <3>1
      <4> QED  BY <4>1
    <3>2. CASE ~(i <= m)
      <4>1. i - m \in 1 .. n /\ r[i] = q[i - m]
        BY <1>1, <3>2
      <4> QED  BY <4>1
    <3> QED  BY <3>1, <3>2
  <2>2. \A i \in 1 .. m : p[i].seq \in {r[j].seq : j \in 1 .. m + n}
    <3> SUFFICES ASSUME NEW i \in 1 .. m PROVE p[i].seq \in {r[j].seq : j \in 1 .. m + n}
      OBVIOUS
    <3>1. i \in 1 .. m + n /\ r[i] = p[i]
      BY <1>1
    <3> QED  BY <3>1
  <2>3. \A i \in 1 .. n : q[i].seq \in {r[j].seq : j \in 1 .. m + n}
    <3> SUFFICES ASSUME NEW i \in 1 .. n PROVE q[i].seq \in {r[j].seq : j \in 1 .. m + n}
      OBVIOUS
    <3>1. i + m \in 1 .. m + n /\ ~(i + m <= m) /\ i + m - m = i
      BY <1>1
    <3>2. r[i + m] = q[i]
      BY <1>1, <3>1
    <3> QED  BY <3>1, <3>2
  <2> QED  BY <2>1, <2>2, <2>3
<1> QED  BY <1>1, <1>2 DEF Nums, r, m, n

\* Sent, taken apart: what is on the wire, in the hand and in the channel.
LEMMA SentIs ==
    ASSUME TypeOK, NEW s \in Sessions, Live(s)
    PROVE  /\ Sent(s) \in Seq(Message)
           /\ Len(Sent(s)) = Len(wire[s]) + (IF reply[s] = NoReply THEN 0 ELSE 1) + Len(channel[s])
           /\ Nums(Sent(s)) = Nums(wire[s]) \cup InHand(s) \cup Nums(channel[s])
           /\ \A i \in 1 .. Len(Sent(s)) :
                \/ i \in 1 .. Len(wire[s]) /\ Sent(s)[i] = wire[s][i]
                \/ i > Len(wire[s]) /\ Sent(s)[i] = reply[s]
                \/ /\ i > Len(wire[s]) + (IF reply[s] = NoReply THEN 0 ELSE 1)
                   /\ \E j \in 1 .. Len(channel[s]) : Sent(s)[i] = channel[s][j]
           /\ \A i \in 1 .. Len(wire[s]) : Sent(s)[i] = wire[s][i]
           /\ reply[s] # NoReply => /\ Len(wire[s]) + 1 \in 1 .. Len(Sent(s))
                                    /\ Sent(s)[Len(wire[s]) + 1] = reply[s]
<1> DEFINE w == wire[s]
           c == channel[s]
           h == IF reply[s] = NoReply THEN <<>> ELSE <<reply[s]>>
<1>1. /\ w \in Seq(Message) /\ c \in Seq(Message) /\ reply[s] \in Message
      /\ Nums(w) = Nums(wire[s]) /\ Nums(c) = Nums(channel[s])
  BY TypeFacts
<1>2. /\ h \in Seq(Message)
      /\ Len(h) = IF reply[s] = NoReply THEN 0 ELSE 1
      /\ \A i \in 1 .. Len(h) : h[i] = reply[s]
      /\ Nums(h) = InHand(s)
  <2>1. CASE reply[s] = NoReply
    <3>1. h = <<>> /\ <<>> \in Seq(Message) /\ Len(<<>>) = 0
      BY <2>1, EmptySeq
    <3>2. \A i \in 1 .. Len(<<>>) : FALSE
      BY <3>1
    <3>3. Nums(<<>>) = {}
      BY <3>2 DEF Nums
    <3> QED  BY <2>1, <3>1, <3>2, <3>3 DEF InHand
  <2>2. CASE reply[s] # NoReply
    <3> DEFINE m == reply[s]
    <3>1. h = <<m>> /\ <<m>> \in Seq(Message) /\ Len(<<m>>) = 1 /\ <<m>>[1] = m
      BY <1>1, <2>2
    <3>2. \A i \in 1 .. 1 : i = 1
      OBVIOUS
    <3>3. Nums(<<m>>) = {m.seq}
      BY <3>1, <3>2 DEF Nums
    <3> QED  BY <2>2, <3>1, <3>2, <3>3 DEF InHand
  <2> QED  BY <2>1, <2>2
<1>3. Sent(s) = w \o (h \o c)
  BY DEF Sent, Queued
<1> HIDE DEF w, c, h
<1>4. /\ h \o c \in Seq(Message) /\ Len(h \o c) = Len(h) + Len(c)
      /\ Nums(h \o c) = Nums(h) \cup Nums(c)
      /\ \A i \in 1 .. Len(h) + Len(c) : (h \o c)[i] = IF i <= Len(h) THEN h[i] ELSE c[i - Len(h)]
  BY <1>1, <1>2, NumsJoined
<1> DEFINE r == h \o c
<1> HIDE DEF r
<1>5. /\ w \o r \in Seq(Message) /\ Len(w \o r) = Len(w) + Len(r)
      /\ Nums(w \o r) = Nums(w) \cup Nums(r)
      /\ \A i \in 1 .. Len(w) + Len(r) : (w \o r)[i] = IF i <= Len(w) THEN w[i] ELSE r[i - Len(w)]
  <2>1. r \in Seq(Message)
    BY <1>4 DEF r
  <2> QED  BY <1>1, <2>1, NumsJoined
<1>6. Len(w) \in Nat /\ Len(c) \in Nat /\ Len(h) \in Nat /\ Len(r) = Len(h) + Len(c)
  BY <1>1, <1>2, <1>4, LenProperties DEF r
<1>7. Sent(s) = w \o r
  BY <1>3 DEF r
<1>8. /\ Sent(s) \in Seq(Message)
      /\ Len(Sent(s)) = Len(w) + (IF reply[s] = NoReply THEN 0 ELSE 1) + Len(c)
      /\ Nums(Sent(s)) = Nums(w) \cup InHand(s) \cup Nums(c)
  BY <1>2, <1>4, <1>5, <1>6, <1>7 DEF r
<1>9. ASSUME NEW i \in 1 .. Len(Sent(s))
      PROVE  \/ i \in 1 .. Len(w) /\ Sent(s)[i] = w[i]
             \/ i > Len(w) /\ Sent(s)[i] = reply[s]
             \/ /\ i > Len(w) + (IF reply[s] = NoReply THEN 0 ELSE 1)
                /\ \E j \in 1 .. Len(c) : Sent(s)[i] = c[j]
  <2>1. i \in 1 .. Len(w) + Len(r)
    BY <1>5, <1>7
  <2>2. CASE i <= Len(w)
    BY <1>5, <1>6, <1>7, <2>1, <2>2
  <2>3. CASE ~(i <= Len(w))
    <3>1. i - Len(w) \in 1 .. Len(h) + Len(c) /\ Sent(s)[i] = r[i - Len(w)] /\ i > Len(w)
      BY <1>5, <1>6, <1>7, <2>1, <2>3
    <3>2. CASE i - Len(w) <= Len(h)
      <4>1. r[i - Len(w)] = h[i - Len(w)] /\ i - Len(w) \in 1 .. Len(h)
        BY <1>4, <1>6, <3>1, <3>2 DEF r
      <4> QED  BY <1>2, <3>1, <4>1
    <3>3. CASE ~(i - Len(w) <= Len(h))
      <4> DEFINE k == i - Len(w)
      <4>1. k \in 1 .. Len(h) + Len(c) /\ ~(k <= Len(h)) /\ Sent(s)[i] = r[k]
        BY <3>1, <3>3
      <4>2. k - Len(h) \in 1 .. Len(c) /\ i > Len(w) + Len(h)
        BY <1>6, <2>1, <3>3, <4>1
      <4> HIDE DEF k
      <4>3. r[k] = c[k - Len(h)]
        BY <1>4, <4>1 DEF r
      <4>4. \E j \in 1 .. Len(c) : Sent(s)[i] = c[j]
        BY <4>1, <4>2, <4>3
      <4> QED  BY <1>2, <4>2, <4>4
    <3> QED  BY <3>2, <3>3
  <2> QED  BY <2>2, <2>3
<1>10. \A i \in 1 .. Len(w) : Sent(s)[i] = w[i]
  BY <1>5, <1>6, <1>7
<1>11. ASSUME reply[s] # NoReply
       PROVE  Len(w) + 1 \in 1 .. Len(Sent(s)) /\ Sent(s)[Len(w) + 1] = reply[s]
  <2>1. Len(h) = 1 /\ h[1] = reply[s]
    BY <1>2, <1>11
  <2>2. Len(w) + 1 \in 1 .. Len(w) + Len(r) /\ Len(w) + 1 - Len(w) = 1 /\ ~(Len(w) + 1 <= Len(w))
    BY <1>6, <2>1
  <2>3. Sent(s)[Len(w) + 1] = r[1]
    BY <1>5, <1>7, <2>2
  <2>4. r[1] = h[1]
    BY <1>4, <1>6, <2>1 DEF r
  <2> QED  BY <1>5, <1>7, <2>1, <2>2, <2>3, <2>4
<1> QED  BY <1>8, <1>9, <1>10, <1>11 DEF w, c

-------------------------------------------------------------------------------
(* The inductive invariant implies what sessions, server and solver agree on. *)

\* The numbers given to a session are those of what it was and will be sent.
LEMMA NumbersFollow == TypeOK /\ Counted /\ Numbers => NumbersUsedOnce
<1> SUFFICES ASSUME TypeOK, Counted, Numbers, NEW s \in registered, Live(s)
             PROVE  LET handed == {o.seq : o \in {p \in outgoing : p.session = s}}
                        sent == [i \in DOMAIN Sent(s) |-> Sent(s)[i].seq]
                    IN  /\ Len(sent) + Cardinality(handed) = sentSeq[s]
                        /\ Range(sent) \cup handed = 1 .. sentSeq[s]
  BY DEF NumbersUsedOnce
<1> DEFINE q == Sent(s)
           sent == [i \in DOMAIN q |-> q[i].seq]
<1>1. s \in Sessions /\ s \in DOMAIN sentSeq /\ sentSeq[s] \in Nat
  BY DEF TypeOK, Counted
<1>2. /\ q \in Seq(Message)
      /\ Len(q) = Len(wire[s]) + (IF reply[s] = NoReply THEN 0 ELSE 1) + Len(channel[s])
      /\ Nums(q) = Nums(wire[s]) \cup InHand(s) \cup Nums(channel[s])
  BY <1>1, SentIs
<1> HIDE DEF q
<1>3. Len(q) \in Nat /\ DOMAIN q = 1 .. Len(q) /\ \A i \in 1 .. Len(q) : q[i] \in Message
  BY <1>2, LenProperties, ElementOfSeq
<1>4. sent \in Seq(Nat) /\ DOMAIN sent = 1 .. Len(q) /\ Len(sent) = Len(q)
  <2>1. \A i \in 1 .. Len(q) : q[i].seq \in Nat
    BY <1>3 DEF Message
  <2>2. sent \in [1 .. Len(q) -> Nat]
    BY <1>3, <2>1
  <2>3. sent \in Seq(Nat)
    BY <1>3, <2>2, SeqDef
  <2>4. Len(sent) \in Nat /\ DOMAIN sent = 1 .. Len(sent)
    BY <2>3, LenProperties
  <2> HIDE DEF sent
  <2> QED  BY <1>3, <2>2, <2>3, <2>4
<1>5. Range(sent) = Nums(q)
  BY <1>3 DEF Range, Nums
<1> HIDE DEF sent
<1>6. Cardinality(HandedOver(s)) = IF \E o \in outgoing : o.session = s THEN 1 ELSE 0
  <2>1. CASE \E o \in outgoing : o.session = s
    <3>1. PICK o \in outgoing : o.session = s
      BY <2>1
    <3>2. \A p \in outgoing : p.session = s => p = o
      BY <3>1 DEF Counted
    <3>3. HandedOver(s) = {o.seq}
      BY <3>1, <3>2 DEF HandedOver
    <3> QED  BY <2>1, <3>3, FS_Singleton
  <2>2. CASE ~ \E o \in outgoing : o.session = s
    <3>1. HandedOver(s) = {}
      BY <2>2 DEF HandedOver
    <3> QED  BY <2>2, <3>1, FS_EmptySet
  <2> QED  BY <2>1, <2>2
<1>7. Numbered(s)
  BY DEF Numbers
<1>8. Len(sent) + Cardinality(HandedOver(s)) = sentSeq[s]
  <2> DEFINE given == IF \E o \in outgoing : o.session = s THEN 1 ELSE 0
             hand == IF reply[s] = NoReply THEN 0 ELSE 1
  <2>1. Len(wire[s]) + hand + Len(channel[s]) + given = sentSeq[s]
    BY <1>7 DEF Numbered
  <2>2. Cardinality(HandedOver(s)) = given /\ Len(sent) = Len(wire[s]) + hand + Len(channel[s])
    BY <1>2, <1>4, <1>6
  <2> HIDE DEF given, hand
  <2> QED  BY <2>1, <2>2
<1>9. Range(sent) \cup HandedOver(s) = 1 .. sentSeq[s]
  BY <1>2, <1>5, <1>7 DEF Numbered
<1> QED  BY <1>8, <1>9 DEF HandedOver, sent, q

\* What leads on the wire, and what is kept for what waits, puts ACKs first.
LEMMA AckFollows == TypeOK /\ Replies /\ Answering /\ AcksLead /\ AcksKept => AckFirst
<1> SUFFICES ASSUME TypeOK, Replies, Answering, AcksLead, AcksKept,
                    NEW s \in Sessions, NEW i \in DOMAIN Sent(s),
                    Sent(s)[i].type = "response", published[Sent(s)[i].re].session = s
             PROVE  \E j \in 1 .. i - 1 : Sent(s)[j].type = "ack" /\ Sent(s)[j].re = Sent(s)[i].re
  BY DEF AckFirst
<1> DEFINE e == Sent(s)[i].re
<1>1. wire[s] \in Seq(Message) /\ Len(wire[s]) \in Nat /\ DOMAIN wire[s] = 1 .. Len(wire[s])
      /\ Len(channel[s]) \in Nat /\ DOMAIN channel[s] = 1 .. Len(channel[s])
  BY TypeFacts, LenProperties
<1>2. CASE ~Live(s)
  <2>1. Sent(s) = wire[s]
    BY <1>2 DEF Sent
  <2> QED  BY <2>1 DEF AcksLead, AckIn
<1>3. CASE Live(s)
  <2> DEFINE n == Len(wire[s])
             h == IF reply[s] = NoReply THEN 0 ELSE 1
  <2>1. /\ Sent(s) \in Seq(Message)
        /\ \A k \in 1 .. Len(Sent(s)) :
             \/ k \in 1 .. n /\ Sent(s)[k] = wire[s][k]
             \/ k > n /\ Sent(s)[k] = reply[s]
             \/ k > n + h /\ \E j \in 1 .. Len(channel[s]) : Sent(s)[k] = channel[s][j]
        /\ \A k \in 1 .. n : Sent(s)[k] = wire[s][k]
        /\ reply[s] # NoReply => n + 1 \in 1 .. Len(Sent(s)) /\ Sent(s)[n + 1] = reply[s]
    BY <1>3, SentIs
  <2>2. i \in 1 .. Len(Sent(s)) /\ Len(Sent(s)) \in Nat
    BY <2>1, LenProperties
  <2>3. reply[s].type # "response"
    BY DEF Replies, NoReply
  <2>4. CASE i \in 1 .. n /\ Sent(s)[i] = wire[s][i]
    <3>1. AckIn(wire[s], e, i - 1)
      BY <1>1, <2>4 DEF AcksLead
    <3>2. PICK j \in 1 .. i - 1 : wire[s][j].type = "ack" /\ wire[s][j].re = e
      BY <3>1 DEF AckIn
    <3>3. j \in 1 .. n
      BY <1>1, <2>4
    <3> QED  BY <2>1, <3>2, <3>3
  <2>5. CASE i > n + h /\ \E j \in 1 .. Len(channel[s]) : Sent(s)[i] = channel[s][j]
    <3>1. e \in DOMAIN published
      BY <1>1, <2>5 DEF Answering
    <3>2. AckIn(wire[s], e, n) \/ (reply[s].type = "ack" /\ reply[s].re = e)
      <4>1. published[e].session = s
        OBVIOUS
      <4> HIDE DEF e
      <4> QED  BY <1>3, <3>1, <4>1 DEF AcksKept
    <3>3. CASE AckIn(wire[s], e, n)
      <4>1. PICK j \in 1 .. n : wire[s][j].type = "ack" /\ wire[s][j].re = e
        BY <3>3 DEF AckIn
      <4>2. j \in 1 .. i - 1
        <5>1. i \in Nat /\ n \in Nat /\ h \in 0 .. 1 /\ i > n + h /\ j \in Nat /\ j <= n
          <6>1. i \in Nat
            BY <2>2
          <6>2. n \in Nat /\ h \in 0 .. 1 /\ j \in Nat /\ j <= n
            BY <1>1, <4>1
          <6> QED  BY <2>5, <6>1, <6>2
        <5> HIDE DEF n, h
        <5> QED  BY <4>1, <5>1
      <4> QED  BY <2>1, <4>1, <4>2
    <3>4. CASE reply[s].type = "ack" /\ reply[s].re = e
      <4>1. reply[s] # NoReply
        BY <3>4 DEF NoReply
      <4>2. n + 1 \in 1 .. i - 1 /\ Sent(s)[n + 1] = reply[s]
        BY <1>1, <2>1, <2>2, <2>5, <4>1
      <4> QED  BY <3>4, <4>2
    <3> QED  BY <3>2, <3>3, <3>4
  <2> QED  BY <2>1, <2>2, <2>3, <2>4, <2>5
<1> QED  BY <1>2, <1>3

\* Nothing is numbered, sent or published at first.
LEMMA InitInv == ASSUME Init PROVE SessionInv
<1>1. TypeOK
  BY InitTyped
<1>2. Admitted
  <2>1. Created = {} /\ upgrading = 0
    BY DEF Init, Created
  <2>2. Cardinality(Created) = 0 /\ Cardinality(Sessions) \in Nat
    BY <2>1, SessionsAssumption, FS_EmptySet, FS_CardinalityType
  <2> QED  BY <2>1, <2>2 DEF Admitted
<1>3. Blank /\ Replies /\ Counted
  BY DEF Init, Blank, Replies, Counted
<1>4. Len(<<>>) = 0 /\ DOMAIN <<>> = 1 .. 0
  BY EmptySeq, LenProperties
<1>5. Answering /\ AcksLead /\ AcksKept
  BY <1>4 DEF Init, Answering, AcksLead, AcksKept
<1>6. Numbers /\ EventsInOrder /\ Subscribed
  BY <1>4 DEF Init, Numbers, EventsInOrder, Subscribed
<1> QED  BY <1>1, <1>2, <1>3, <1>5, <1>6 DEF SessionInv

-------------------------------------------------------------------------------
(* Every step keeps the invariant of the sessions.                            *)

\* What the invariant says beyond the types and the sessions that there are.
Agreed == /\ Blank /\ Replies /\ Counted /\ Answering /\ AcksLead /\ AcksKept
          /\ Numbers /\ EventsInOrder /\ Subscribed

\* What it says this of.
core == <<handler, registered, reply, channel, wire, recvSeq, sentSeq, userSessions,
          published, outgoing>>

\* The sessions that there are grow only by the next (create_session).
LEMMA AdmittedKept ==
    ASSUME TypeOK, Admitted, Next
    PROVE  Admitted'
<1>1. Cardinality(Created) \in Nat /\ IsFiniteSet(Created)
  <2>1. Created \subseteq Sessions
    BY DEF Created
  <2>2. IsFiniteSet(Created)
    BY <2>1, SessionsAssumption, FS_Subset
  <2> QED  BY <2>2, FS_CardinalityType
<1>2. Cardinality(Sessions) \in Nat /\ upgrading \in Nat
  BY SessionsAssumption, FS_CardinalityType DEF TypeOK
<1>3. CASE Upgrade
  <2>1. Created' = Created /\ upgrading' = upgrading + 1
    BY <1>3 DEF Upgrade, Created
  <2>2. Cardinality(Created) + upgrading < Cardinality(Sessions)
    BY <1>3 DEF Upgrade
  <2> HIDE DEF Created
  <2> QED  BY <1>1, <1>2, <2>1, <2>2 DEF Admitted
<1>4. CASE CreateSession
  <2> DEFINE n == Cardinality(Created)
  <2>1. upgrading > 0 /\ upgrading' = upgrading - 1 /\ handler' = [handler EXCEPT ![n + 1] = "open"]
    BY <1>4 DEF CreateSession
  <2>2. n + 1 \in Sessions
    <3> HIDE DEF Created
    <3> QED  BY <1>1, <1>2, <2>1, SessionsAssumption DEF Admitted
  <2>3. Created' = Created \cup {n + 1}
    <3> HIDE DEF n
    <3> QED  BY <2>1, <2>2 DEF Created, TypeOK
  <2>4. Created = 1 .. n /\ n \in Nat
    BY <1>1 DEF Admitted
  <2> HIDE DEF n
  <2>5. Created' = 1 .. n + 1 /\ n + 1 \in Nat
    BY <2>3, <2>4
  <2>6. Cardinality(1 .. n + 1) = n + 1
    BY <2>5, FS_Interval
  <2>7. Cardinality(Created)' = n + 1
    BY <2>5, <2>6
  <2>8. n + upgrading <= Cardinality(Sessions)
    BY DEF Admitted, n
  <2> QED  BY <1>2, <2>1, <2>4, <2>5, <2>7, <2>8 DEF Admitted
<1>5. ASSUME upgrading' = upgrading, \A s \in Sessions : handler'[s] = "new" <=> handler[s] = "new"
      PROVE  Admitted'
  <2>1. Created' = Created
    BY <1>5 DEF Created
  <2> QED  BY <1>5, <2>1 DEF Admitted
<1>6. CASE \E s \in Sessions : Read(s)
  <2>1. PICK s \in Sessions : Read(s)
    BY <1>6
  <2>2. handler[s] = "open" /\ handler' = [handler EXCEPT ![s] = "replying"] /\ upgrading' = upgrading
    <3>1. Refused(s) \/ \E u \in Users, kind \in Kinds : Accept(s, u, kind, SeqNum(recvSeq, s) + 1)
      BY <2>1, ReadFacts
    <3> QED  BY <3>1 DEF Refused, Accept, Weighing, Reading, Reply, connection
  <2> QED  BY <1>5, <2>2 DEF TypeOK
<1>7. CASE \E s \in Sessions : HandlerStep(s) \/ Timeout(s) \/ Pong(s) \/ OddFrame(s) \/ StopClose(s)
  BY <1>5, <1>7 DEF HandlerStep, SendReply, Forward, Ended, Close, Timeout, Pong, OddFrame,
                    StopClose, Rest, Leave, connection, TypeOK
<1>8. CASE \E s \in Sessions : \E how \in {"closed", "silent"} : PeerTurns(s, how)
  BY <1>5, <1>8 DEF PeerTurns, Rest, connection
<1>9. CASE \/ \E e \in DOMAIN published : Respond(e)
           \/ Deliver \/ CloseServer \/ StopServer \/ Tick
  BY <1>5, <1>9 DEF Respond, Deliver, CloseServer, StopServer, Tick, connection
<1> QED  BY <1>3, <1>4, <1>6, <1>7, <1>8, <1>9 DEF Next

\* A session that nothing was numbered, sent or handed over for.
LEMMA NumberedStays ==
    ASSUME NEW s, Numbered(s),
           wire'[s] = wire[s], reply'[s] = reply[s], channel'[s] = channel[s],
           sentSeq'[s] = sentSeq[s],
           \A p : p.session = s => (p \in outgoing' <=> p \in outgoing)
    PROVE  Numbered(s)'
<1>1. Nums(wire[s])' = Nums(wire[s]) /\ Nums(channel[s])' = Nums(channel[s])
  BY DEF Nums
<1>2. InHand(s)' = InHand(s)
  BY DEF InHand
<1>3. HandedOver(s)' = HandedOver(s)
  <2>1. {p \in outgoing' : p.session = s} = {p \in outgoing : p.session = s}
    OBVIOUS
  <2> QED  BY <2>1 DEF HandedOver
<1>4. (IF \E o \in outgoing : o.session = s THEN 1 ELSE 0)'
        = IF \E o \in outgoing : o.session = s THEN 1 ELSE 0
  OBVIOUS
<1> QED  BY <1>1, <1>2, <1>3, <1>4 DEF Numbered

\* A step that leaves messages, numbers and events alone.
LEMMA CoreKept ==
    ASSUME Agreed, UNCHANGED core
    PROVE  Agreed'
<1>1. Blank' /\ Replies' /\ Counted'
  BY DEF Agreed, core, Blank, Replies, Counted
<1>2. Answering' /\ AcksLead' /\ AcksKept'
  BY DEF Agreed, core, Answering, AcksLead, AcksKept, AckIn, Live
<1>3. Numbers'
  <2> SUFFICES ASSUME NEW s \in registered, Live(s) PROVE Numbered(s)'
    BY DEF core, Numbers, Live
  <2>1. Numbered(s)
    BY DEF Agreed, Numbers
  <2> QED  BY <2>1, NumberedStays DEF core
<1>4. EventsInOrder' /\ Subscribed'
  BY DEF Agreed, core, EventsInOrder, Subscribed
<1> QED  BY <1>1, <1>2, <1>3, <1>4 DEF Agreed

\* A handler that leaves its loop says no more, and is asked for no more.
LEMMA LeaveKept ==
    ASSUME TypeOK, Agreed, NEW s \in Sessions, handler[s] = "open", Leave(s),
           UNCHANGED <<registered, reply, channel, wire, recvSeq, sentSeq, userSessions,
                       published, outgoing>>
    PROVE  Agreed'
<1>1. /\ \A t \in Sessions : handler'[t] = IF t = s THEN "closing" ELSE handler[t]
      /\ \A t \in Sessions : Live(t)' => Live(t)
  BY DEF Leave, TypeOK, Live
<1>2. Blank' /\ Replies' /\ Counted'
  BY <1>1 DEF Agreed, Blank, Replies, Counted
<1>3. Answering' /\ AcksLead'
  BY DEF Agreed, Answering, AcksLead, AckIn
<1>4. AcksKept'
  <2>1. \A e \in DOMAIN published : published[e].session \in Sessions
    BY TypeFacts DEF Event
  <2> QED  BY <1>1, <2>1 DEF Agreed, AcksKept, AckIn
<1>5. Numbers'
  <2> SUFFICES ASSUME NEW t \in registered, Live(t)' PROVE Numbered(t)'
    BY DEF Numbers
  <2>1. Numbered(t)
    BY <1>1 DEF Agreed, Numbers, TypeOK
  <2> QED  BY <2>1, NumberedStays
<1>6. EventsInOrder' /\ Subscribed'
  BY DEF Agreed, EventsInOrder, Subscribed
<1> QED  BY <1>2, <1>3, <1>4, <1>5, <1>6 DEF Agreed

\* A session without a past is opened (create_session).
LEMMA CreateKept ==
    ASSUME TypeOK, Admitted, Agreed, CreateSession
    PROVE  Agreed'
<1> DEFINE s == Cardinality(Created) + 1
<1>1. /\ upgrading > 0
      /\ handler' = [handler EXCEPT ![s] = "open"]
      /\ registered' = registered \cup {s}
      /\ recvSeq' = WithSeq(recvSeq, s, 0)
      /\ sentSeq' = WithSeq(sentSeq, s, 0)
      /\ UNCHANGED <<reply, channel, wire, userSessions, published, outgoing>>
  BY DEF CreateSession
<1>2. s \in Sessions /\ s \notin Created
  <2>1. Cardinality(Created) \in Nat
    <3>1. Created \subseteq Sessions
      BY DEF Created
    <3>2. IsFiniteSet(Created)
      BY <3>1, SessionsAssumption, FS_Subset
    <3> QED  BY <3>2, FS_CardinalityType
  <2>2. Cardinality(Sessions) \in Nat /\ upgrading \in Nat
    BY SessionsAssumption, FS_CardinalityType DEF TypeOK
  <2>3. Created = 1 .. Cardinality(Created) /\ Cardinality(Created) + upgrading <= Cardinality(Sessions)
    BY DEF Admitted
  <2> DEFINE n == Cardinality(Created)
             N == Cardinality(Sessions)
  <2>4. n \in Nat /\ N \in Nat /\ n + upgrading <= N /\ Sessions = 1 .. N
    BY <2>1, <2>2, <2>3, SessionsAssumption
  <2> HIDE DEF n, N
  <2>5. n + 1 \in 1 .. N /\ n + 1 \notin 1 .. n
    BY <1>1, <2>2, <2>4
  <2> QED  BY <2>3, <2>4, <2>5 DEF n
<1> HIDE DEF s
<1>3. handler[s] = "new" /\ ~Live(s)
  BY <1>2 DEF Created, Live
<1>4. /\ s \notin registered /\ channel[s] = <<>> /\ wire[s] = <<>> /\ reply[s] = NoReply
      /\ \A o \in outgoing : o.session # s
      /\ \A i \in DOMAIN published : published[i].session # s
  BY <1>2, <1>3 DEF Agreed, Blank, Replies
<1>5. \A t \in Sessions : handler'[t] = IF t = s THEN "open" ELSE handler[t]
  BY <1>1 DEF TypeOK
<1>6. /\ DOMAIN recvSeq' = DOMAIN recvSeq \cup {s} /\ DOMAIN sentSeq' = DOMAIN sentSeq \cup {s}
      /\ sentSeq'[s] = 0
      /\ \A t \in DOMAIN recvSeq : t # s => recvSeq'[t] = recvSeq[t]
      /\ \A t \in DOMAIN sentSeq : t # s => sentSeq'[t] = sentSeq[t]
  BY <1>1 DEF WithSeq
<1>7. Blank' /\ Replies' /\ Counted'
  BY <1>1, <1>3, <1>4, <1>5, <1>6 DEF Agreed, Blank, Replies, Counted
<1>8. Answering' /\ AcksLead'
  BY <1>1 DEF Agreed, Answering, AcksLead, AckIn
<1>9. AcksKept'
  <2>1. \A e \in DOMAIN published : published[e].session \in Sessions
    BY TypeFacts DEF Event
  <2> QED  BY <1>1, <1>4, <1>5, <2>1 DEF Agreed, AcksKept, AckIn, Live
<1>10. Numbers'
  <2> SUFFICES ASSUME NEW t \in registered', Live(t)' PROVE Numbered(t)'
    BY DEF Numbers
  <2>1. CASE t = s
    <3>1. Len(<<>>) = 0
      BY EmptySeq
    <3>2. Nums(wire[t])' = {} /\ Nums(channel[t])' = {} /\ InHand(t)' = {} /\ HandedOver(t)' = {}
      BY <1>1, <1>4, <2>1, <3>1 DEF Nums, InHand, HandedOver
    <3>3. wire'[t] = <<>> /\ channel'[t] = <<>> /\ reply'[t] = NoReply /\ sentSeq'[t] = 0
      BY <1>1, <1>4, <1>6, <2>1
    <3>4. ~ \E o \in outgoing' : o.session = t
      BY <1>1, <1>4, <2>1
    <3> QED  BY <3>1, <3>2, <3>3, <3>4 DEF Numbered
  <2>2. CASE t # s
    <3>1. t \in registered /\ t \in Sessions /\ t \in DOMAIN sentSeq
      BY <1>1, <2>2 DEF Agreed, Counted, TypeOK
    <3>2. Numbered(t)
      BY <1>5, <2>2, <3>1 DEF Agreed, Numbers, Live
    <3>3. sentSeq'[t] = sentSeq[t]
      BY <1>6, <2>2, <3>1
    <3> QED  BY <1>1, <3>2, <3>3, NumberedStays
  <2> QED  BY <2>1, <2>2
<1>11. EventsInOrder'
  <2> SUFFICES ASSUME NEW t \in registered'
               PROVE  (LET own == {i \in DOMAIN published : published[i].session = t}
                       IN  /\ \A i, j \in own : i < j => published[i].seq < published[j].seq
                           /\ \A i \in own : published[i].seq \in 1 .. recvSeq[t])'
    BY DEF EventsInOrder
  <2>1. CASE t = s
    BY <1>1, <1>4, <2>1
  <2>2. CASE t # s
    <3>1. t \in registered /\ recvSeq'[t] = recvSeq[t]
      BY <1>1, <1>6, <2>2 DEF Agreed, Counted
    <3> QED  BY <1>1, <3>1 DEF Agreed, EventsInOrder
  <2> QED  BY <2>1, <2>2
<1>12. Subscribed'
  BY <1>1, <1>4 DEF Agreed, Subscribed
<1> QED  BY <1>7, <1>8, <1>9, <1>10, <1>11, <1>12 DEF Agreed

\* An answer takes the session's next number, and no other session's
\* (process_ack, process_error).
LEMMA ReplyKept ==
    ASSUME TypeOK, Agreed, NEW s \in Sessions, handler[s] = "open",
           NEW type \in {"ack", "nak"}, NEW re, Reply(s, type, re),
           UNCHANGED <<registered, channel, wire, outgoing>>
    PROVE  /\ Replies' /\ Numbers'
           /\ registered' \subseteq DOMAIN sentSeq'
           /\ reply[s] = NoReply
           /\ reply'[s].type = type /\ reply'[s].re = re
           /\ \A t \in Sessions : t # s => reply'[t] = reply[t]
           /\ \A t \in Sessions : handler'[t] = IF t = s THEN "replying" ELSE handler[t]
<1> DEFINE n == SeqNum(sentSeq, s) + 1
           m == [type |-> type, seq |-> n, re |-> re]
<1>1. /\ reply' = [reply EXCEPT ![s] = m]
      /\ handler' = [handler EXCEPT ![s] = "replying"]
      /\ sentSeq' = WithSeq(sentSeq, s, n)
  BY DEF Reply
<1>2. m.type = type /\ m.seq = n /\ m.re = re /\ m # NoReply
  BY DEF NoReply
<1>3. n \in Nat /\ (s \in DOMAIN sentSeq => n = sentSeq[s] + 1 /\ sentSeq[s] \in Nat)
  <2>1. sentSeq \in [DOMAIN sentSeq -> Nat]
    BY DEF TypeOK
  <2> QED  BY <2>1 DEF SeqNum
<1> HIDE DEF m, n
<1>4. /\ \A t \in Sessions : reply'[t] = IF t = s THEN m ELSE reply[t]
      /\ \A t \in Sessions : handler'[t] = IF t = s THEN "replying" ELSE handler[t]
  BY <1>1 DEF TypeOK
<1>5. /\ DOMAIN sentSeq' = DOMAIN sentSeq \cup {s} /\ sentSeq'[s] = n
      /\ \A t \in DOMAIN sentSeq : t # s => sentSeq'[t] = sentSeq[t]
  BY <1>1, <1>3 DEF WithSeq
<1>6. Replies'
  BY <1>2, <1>4 DEF Agreed, Replies
<1>7. reply[s] = NoReply
  BY DEF Agreed, Replies
<1>8. Numbers'
  <2> SUFFICES ASSUME NEW t \in registered, Live(t)' PROVE Numbered(t)'
    BY DEF Numbers
  <2>1. t \in Sessions /\ t \in DOMAIN sentSeq /\ Live(t)
    BY <1>4 DEF TypeOK, Agreed, Counted, Live
  <2>2. Numbered(t)
    BY <2>1 DEF Agreed, Numbers
  <2>3. CASE t = s
    <3> DEFINE k == sentSeq[s]
               g == IF \E o \in outgoing : o.session = s THEN 1 ELSE 0
    <3>1. sentSeq'[s] = k + 1 /\ k \in Nat /\ n = k + 1
      BY <1>3, <1>5, <2>1, <2>3
    <3>2. Len(wire[s]) + 0 + Len(channel[s]) + g = k
      BY <1>7, <2>2, <2>3 DEF Numbered
    <3>3. Nums(wire[s]) \cup {} \cup Nums(channel[s]) \cup HandedOver(s) = 1 .. k
      BY <1>7, <2>2, <2>3 DEF Numbered, InHand
    <3>4. InHand(s)' = {n} /\ reply'[s] # NoReply
      BY <1>2, <1>4 DEF InHand, NoReply
    <3>5. Nums(wire[s])' = Nums(wire[s]) /\ Nums(channel[s])' = Nums(channel[s])
          /\ HandedOver(s)' = HandedOver(s)
      BY DEF Nums, HandedOver
    <3>6. 1 .. k + 1 = 1 .. k \cup {k + 1}
      BY <3>1
    <3>7. Nums(wire[s])' \cup InHand(s)' \cup Nums(channel[s])' \cup HandedOver(s)' = 1 .. sentSeq'[s]
      <4> HIDE DEF k
      <4> QED  BY <3>1, <3>3, <3>4, <3>5, <3>6
    <3>8. Len(wire[s]) + 1 + Len(channel[s]) + g = k + 1
      <4> DEFINE w == Len(wire[s])
                 c == Len(channel[s])
      <4>1. w \in Nat /\ c \in Nat /\ g \in Nat
        BY TypeFacts, LenProperties
      <4>2. w + 0 + c + g = k /\ k \in Nat
        BY <3>1, <3>2
      <4> HIDE DEF g, k, w, c
      <4>3. w + 1 + c + g = k + 1
        BY <4>1, <4>2
      <4> QED  BY <4>3 DEF w, c
    <3> QED  BY <2>3, <3>1, <3>4, <3>7, <3>8 DEF Numbered
  <2>4. CASE t # s
    <3>1. sentSeq'[t] = sentSeq[t] /\ reply'[t] = reply[t]
      BY <1>4, <1>5, <2>1, <2>4
    <3> QED  BY <2>2, <3>1, NumberedStays
  <2> QED  BY <2>3, <2>4
<1>9. registered' \subseteq DOMAIN sentSeq'
  BY <1>5 DEF Agreed, Counted
<1> QED  BY <1>2, <1>4, <1>6, <1>7, <1>8, <1>9

\* A refused message leaves events and ACKs as they are; its number may be taken.
LEMMA RefusedKept ==
    ASSUME TypeOK, Agreed, NEW s \in Sessions, Refused(s)
    PROVE  Agreed'
<1>1. /\ handler[s] = "open" /\ Reply(s, "nak", 0)
      /\ UNCHANGED <<registered, channel, wire, published, outgoing>>
      /\ recvSeq' = recvSeq \/ recvSeq' = WithSeq(recvSeq, s, SeqNum(recvSeq, s) + 1)
      /\ userSessions' = userSessions \/ \E u \in Users : AddUserSession(s, u)
  BY DEF Refused, Reading, connection, solving
<1>2. /\ Replies' /\ Numbers'
      /\ registered' \subseteq DOMAIN sentSeq'
      /\ reply[s] = NoReply
      /\ \A t \in Sessions : t # s => reply'[t] = reply[t]
      /\ \A t \in Sessions : handler'[t] = IF t = s THEN "replying" ELSE handler[t]
  BY <1>1, ReplyKept
<1>3. /\ DOMAIN recvSeq \subseteq DOMAIN recvSeq'
      /\ \A t \in DOMAIN recvSeq : recvSeq[t] \in Nat /\ recvSeq'[t] \in Nat /\ recvSeq[t] <= recvSeq'[t]
  <2>1. recvSeq \in [DOMAIN recvSeq -> Nat]
    BY DEF TypeOK
  <2>2. CASE recvSeq' = recvSeq
    BY <2>1, <2>2
  <2>3. CASE recvSeq' = WithSeq(recvSeq, s, SeqNum(recvSeq, s) + 1)
    BY <2>1, <2>3 DEF WithSeq, SeqNum
  <2> QED  BY <1>1, <2>2, <2>3
<1>4. /\ \A u \in Users : userSessions[u] \subseteq userSessions'[u]
      /\ \A u \in Users : userSessions'[u] \subseteq userSessions[u] \cup {s}
  BY <1>1 DEF AddUserSession, TypeOK
<1>5. Blank'
  BY <1>1, <1>2, <1>4 DEF Agreed, Blank
<1>6. Counted'
  BY <1>1, <1>2, <1>3 DEF Agreed, Counted
<1>7. Answering' /\ AcksLead'
  BY <1>1 DEF Agreed, Answering, AcksLead, AckIn
<1>8. AcksKept'
  <2>1. \A e \in DOMAIN published : published[e].session \in Sessions
    BY TypeFacts DEF Event
  <2>2. reply[s].type # "ack"
    BY <1>2 DEF NoReply
  <2> QED  BY <1>1, <1>2, <2>1, <2>2 DEF Agreed, AcksKept, AckIn, Live
<1>9. EventsInOrder'
  <2> SUFFICES ASSUME NEW t \in registered
               PROVE  (LET own == {i \in DOMAIN published : published[i].session = t}
                       IN  /\ \A i, j \in own : i < j => published[i].seq < published[j].seq
                           /\ \A i \in own : published[i].seq \in 1 .. recvSeq[t])'
    BY <1>1 DEF EventsInOrder
  <2>1. t \in DOMAIN recvSeq
    BY DEF Agreed, Counted
  <2>2. 1 .. recvSeq[t] \subseteq 1 .. recvSeq'[t]
    BY <1>3, <2>1
  <2> QED  BY <1>1, <2>2 DEF Agreed, EventsInOrder
<1>10. Subscribed'
  <2>1. \A e \in DOMAIN published : published[e].user \in Users
    BY TypeFacts DEF Event
  <2> QED  BY <1>1, <1>4, <2>1 DEF Agreed, Subscribed
<1> QED  BY <1>2, <1>5, <1>6, <1>7, <1>8, <1>9, <1>10 DEF Agreed

\* An accepted message is the youngest event, its ACK is in the handler's hand, and
\* its session hears of its user (process_incoming).
LEMMA AcceptKept ==
    ASSUME TypeOK, Agreed, NEW s \in Sessions, NEW u \in Users, NEW kind \in Kinds,
           Accept(s, u, kind, SeqNum(recvSeq, s) + 1)
    PROVE  Agreed'
<1> DEFINE k == SeqNum(recvSeq, s) + 1
           x == ServerEvent(s, u, kind, k)
           n == Len(published) + 1
<1>1. /\ handler[s] = "open" /\ Reply(s, "ack", n)
      /\ UNCHANGED <<registered, channel, wire, outgoing>>
      /\ recvSeq' = WithSeq(recvSeq, s, k)
      /\ userSessions' = [userSessions EXCEPT ![u] = @ \cup {s}]
      /\ published' = Append(published, x)
  BY DEF Accept, Weighing, Reading, AddUserSession, connection
<1>2. x.session = s /\ x.user = u /\ x.seq = k /\ k \in Nat /\ x \in Event
  <2>1. k \in Nat /\ now \in 0 .. now
    BY TypeFacts DEF Timed
  <2> QED  BY <2>1 DEF ServerEvent, Event
<1>3. n \in Nat /\ (s \in DOMAIN recvSeq => k = recvSeq[s] + 1 /\ recvSeq[s] \in Nat)
  <2>1. recvSeq \in [DOMAIN recvSeq -> Nat]
    BY DEF TypeOK
  <2> QED  BY <2>1, TypeFacts DEF SeqNum
<1>4. /\ DOMAIN published' = DOMAIN published \cup {n}
      /\ \A i \in DOMAIN published : i \in Nat /\ i < n /\ published'[i] = published[i]
      /\ published'[n] = x
  <2>1. /\ Len(published) \in Nat /\ DOMAIN published = 1 .. Len(published)
        /\ published \in Seq(Event)
    BY TypeFacts DEF Timed
  <2> HIDE DEF x
  <2>2. /\ published' \in Seq(Event) /\ Len(published') = Len(published) + 1
        /\ \A i \in 1 .. Len(published) : published'[i] = published[i]
        /\ published'[Len(published) + 1] = x
    BY <1>1, <1>2, <2>1, AppendProperties
  <2>3. DOMAIN published' = 1 .. Len(published) + 1
    BY <2>2, LenProperties
  <2> QED  BY <2>1, <2>2, <2>3
<1> HIDE DEF x, k, n
<1>5. /\ Replies' /\ Numbers'
      /\ registered' \subseteq DOMAIN sentSeq'
      /\ reply[s] = NoReply
      /\ reply'[s].type = "ack" /\ reply'[s].re = n
      /\ \A t \in Sessions : t # s => reply'[t] = reply[t]
      /\ \A t \in Sessions : handler'[t] = IF t = s THEN "replying" ELSE handler[t]
  BY <1>1, ReplyKept
<1>6. /\ DOMAIN recvSeq' = DOMAIN recvSeq \cup {s} /\ recvSeq'[s] = k
      /\ \A t \in DOMAIN recvSeq : t # s => recvSeq'[t] = recvSeq[t]
  BY <1>1, <1>2 DEF WithSeq
<1>7. \A v \in Users : userSessions'[v] = IF v = u THEN userSessions[v] \cup {s} ELSE userSessions[v]
  BY <1>1 DEF TypeOK
<1>8. \A i \in DOMAIN published : published[i].session \in Sessions /\ published[i].user \in Users
  BY TypeFacts DEF Event
<1>9. Blank'
  BY <1>1, <1>2, <1>4, <1>5, <1>7 DEF Agreed, Blank
<1>10. Counted'
  BY <1>1, <1>5, <1>6 DEF Agreed, Counted
<1>11. Answering'
  BY <1>1, <1>4 DEF Agreed, Answering
<1>12. AcksLead'
  <2>1. \A t \in Sessions : \A i \in DOMAIN wire[t] : wire[t][i].type = "response" =>
           published'[wire[t][i].re] = published[wire[t][i].re]
    BY <1>4 DEF Agreed, Answering
  <2> QED  BY <1>1, <2>1 DEF Agreed, AcksLead
<1>13. AcksKept'
  <2> SUFFICES ASSUME NEW e \in DOMAIN published', NEW t, t = published'[e].session, Live(t)'
               PROVE  AckIn(wire[t], e, Len(wire[t])) \/ (reply'[t].type = "ack" /\ reply'[t].re = e)
    BY <1>1 DEF AcksKept, Live
  <2>1. CASE e = n
    BY <1>2, <1>4, <1>5, <2>1
  <2>2. CASE e # n
    <3>1. e \in DOMAIN published /\ t = published[e].session /\ t \in Sessions
      BY <1>4, <1>8, <2>2
    <3>2. Live(t)
      BY <1>1, <1>5, <3>1 DEF Live
    <3>3. AckIn(wire[t], e, Len(wire[t])) \/ (reply[t].type = "ack" /\ reply[t].re = e)
      BY <3>1, <3>2 DEF Agreed, AcksKept
    <3>4. reply[s].type # "ack"
      BY <1>5 DEF NoReply
    <3> QED  BY <1>5, <3>1, <3>3, <3>4
  <2> QED  BY <2>1, <2>2
<1>14. EventsInOrder'
  <2> SUFFICES ASSUME NEW t \in registered
               PROVE  (LET own == {i \in DOMAIN published : published[i].session = t}
                       IN  /\ \A i, j \in own : i < j => published[i].seq < published[j].seq
                           /\ \A i \in own : published[i].seq \in 1 .. recvSeq[t])'
    BY <1>1 DEF EventsInOrder
  <2> DEFINE own == {i \in DOMAIN published : published[i].session = t}
  <2>1. /\ t \in DOMAIN recvSeq
        /\ \A i, j \in own : i < j => published[i].seq < published[j].seq
        /\ \A i \in own : published[i].seq \in 1 .. recvSeq[t]
    BY DEF Agreed, EventsInOrder, Counted
  <2>2. CASE t = s
    <3>1. own' = own \cup {n} /\ n \notin own
      BY <1>2, <1>4, <2>2
    <3>2. recvSeq'[t] = recvSeq[t] + 1 /\ published'[n].seq = recvSeq[t] + 1 /\ recvSeq[t] \in Nat
      BY <1>2, <1>3, <1>4, <1>6, <2>1, <2>2
    <3>3. \A i \in own : /\ published'[i].seq = published[i].seq /\ i < n /\ i \in Nat
                         /\ published[i].seq \in 1 .. recvSeq[t]
      BY <1>4, <2>1
    <3>4. ASSUME NEW i \in own \cup {n}, NEW j \in own \cup {n}, i < j
          PROVE  published'[i].seq < published'[j].seq
      <4>1. i \in own
        BY <1>3, <3>3, <3>4
      <4>2. CASE j \in own
        BY <2>1, <3>3, <3>4, <4>1, <4>2
      <4>3. CASE j = n
        BY <3>2, <3>3, <4>1, <4>3
      <4> QED  BY <4>2, <4>3
    <3>5. \A i \in own \cup {n} : published'[i].seq \in 1 .. recvSeq'[t]
      BY <3>2, <3>3
    <3> QED  BY <3>1, <3>4, <3>5
  <2>3. CASE t # s
    <3>1. own' = own /\ \A i \in own : published'[i] = published[i]
      BY <1>2, <1>4, <2>3
    <3>2. recvSeq'[t] = recvSeq[t]
      BY <1>6, <2>1, <2>3
    <3> QED  BY <2>1, <3>1, <3>2
  <2> QED  BY <2>2, <2>3
<1>15. Subscribed'
  <2> SUFFICES ASSUME NEW e \in DOMAIN published', published'[e].session \in registered
               PROVE  published'[e].session \in userSessions'[published'[e].user]
    BY <1>1 DEF Subscribed
  <2>1. CASE e = n
    BY <1>2, <1>4, <1>7, <2>1
  <2>2. CASE e # n
    <3>1. e \in DOMAIN published /\ published'[e] = published[e]
      BY <1>4, <2>2
    <3> QED  BY <1>7, <1>8, <3>1 DEF Agreed, Subscribed
  <2> QED  BY <2>1, <2>2
<1> QED  BY <1>5, <1>9, <1>10, <1>11, <1>12, <1>13, <1>14, <1>15 DEF Agreed

\* What is sent goes behind what was sent, and its ACK with it (send_text): for
\* whatever message goes on the wire, first those that are there.
LEMMA WireGrows ==
    ASSUME TypeOK, NEW s \in Sessions, NEW m \in Message,
           wire' = [wire EXCEPT ![s] = Append(@, m)]
    PROVE  /\ \A t \in Sessions : t # s => wire'[t] = wire[t]
           /\ Len(wire[s]) \in Nat /\ Len(wire'[s]) = Len(wire[s]) + 1
           /\ DOMAIN wire[s] = 1 .. Len(wire[s]) /\ DOMAIN wire'[s] = 1 .. Len(wire[s]) + 1
           /\ \A i \in 1 .. Len(wire[s]) : wire'[s][i] = wire[s][i]
           /\ wire'[s][Len(wire[s]) + 1] = m
           /\ Nums(wire'[s]) = Nums(wire[s]) \cup {m.seq}
           /\ \A n \in 0 .. Len(wire[s]) : \A e :
                 AckIn(wire[s], e, n) => AckIn(wire'[s], e, n) /\ AckIn(wire'[s], e, Len(wire'[s]))
           /\ m.type = "ack" => AckIn(wire'[s], m.re, Len(wire'[s]))
<1> DEFINE q == wire[s]
           n == Len(wire[s])
<1>1. wire[s] \in Seq(Message) /\ wire'[s] = Append(wire[s], m)
  BY TypeFacts DEF TypeOK
<1>2. /\ wire'[s] \in Seq(Message) /\ Len(wire'[s]) = n + 1 /\ n \in Nat
      /\ \A i \in 1 .. n : wire'[s][i] = wire[s][i]
      /\ wire'[s][n + 1] = m
      /\ DOMAIN wire[s] = 1 .. n
      /\ Nums(wire'[s]) = Nums(wire[s]) \cup {m.seq}
  BY <1>1, AppendProperties, LenProperties, NumsAppended
<1>3. DOMAIN wire'[s] = 1 .. n + 1
  BY <1>2, LenProperties
<1>4. \A t \in Sessions : t # s => wire'[t] = wire[t]
  BY DEF TypeOK
<1> HIDE DEF n
<1>5. ASSUME NEW l \in 0 .. n, NEW e, AckIn(wire[s], e, l)
      PROVE  AckIn(wire'[s], e, l) /\ AckIn(wire'[s], e, n + 1)
  <2>1. PICK j \in 1 .. l : wire[s][j].type = "ack" /\ wire[s][j].re = e
    BY <1>5 DEF AckIn
  <2>2. j \in 1 .. n + 1 /\ wire'[s][j] = wire[s][j]
    BY <1>2
  <2> QED  BY <2>1, <2>2 DEF AckIn
<1>6. ASSUME m.type = "ack" PROVE AckIn(wire'[s], m.re, n + 1)
  <2>1. n + 1 \in 1 .. n + 1
    BY <1>2
  <2> QED  BY <1>2, <1>6, <2>1 DEF AckIn
<1> QED  BY <1>2, <1>3, <1>4, <1>5, <1>6 DEF n

\* The answer in the handler's hand goes on the wire, or the handler gives up with it.
LEMMA SendReplyKept ==
    ASSUME TypeOK, Agreed, NEW s \in Sessions, SendReply(s)
    PROVE  Agreed'
<1>1. /\ handler[s] = "replying" /\ reply' = [reply EXCEPT ![s] = NoReply]
      /\ UNCHANGED <<registered, channel, recvSeq, sentSeq, userSessions, published, outgoing>>
  BY DEF SendReply, Rest, connection, solving
<1>2. /\ reply[s].type \in {"ack", "nak"} /\ reply[s] # NoReply /\ reply[s] \in Message
      /\ \A t \in Sessions : reply'[t] = IF t = s THEN NoReply ELSE reply[t]
  BY <1>1 DEF Agreed, Replies, NoReply, TypeOK
<1>3. Counted' /\ EventsInOrder' /\ Subscribed'
  BY <1>1 DEF Agreed, Counted, EventsInOrder, Subscribed
<1>4. \A e \in DOMAIN published : published[e].session \in Sessions
  BY TypeFacts DEF Event
<1>5. CASE wire' = wire /\ Leave(s)
  <2>1. \A t \in Sessions : handler'[t] = IF t = s THEN "closing" ELSE handler[t]
    BY <1>5 DEF Leave, TypeOK
  <2>2. Blank' /\ Replies' /\ Answering' /\ AcksLead'
    BY <1>1, <1>2, <1>5, <2>1 DEF Agreed, Blank, Replies, Answering, AcksLead
  <2>3. AcksKept'
    BY <1>1, <1>2, <1>4, <1>5, <2>1 DEF Agreed, AcksKept, Live
  <2>4. Numbers'
    <3> SUFFICES ASSUME NEW t \in registered, Live(t)' PROVE Numbered(t)'
      BY <1>1 DEF Numbers
    <3>1. t \in Sessions /\ t # s /\ Live(t)
      BY <2>1 DEF TypeOK, Live
    <3>2. Numbered(t)
      BY <3>1 DEF Agreed, Numbers
    <3> QED  BY <1>1, <1>2, <1>5, <3>1, <3>2, NumberedStays
  <2> QED  BY <1>3, <2>2, <2>3, <2>4 DEF Agreed
<1>6. CASE wire' = [wire EXCEPT ![s] = Append(@, reply[s])] /\ handler' = [handler EXCEPT ![s] = "open"]
  <2> DEFINE n == Len(wire[s])
             m == reply[s]
  <2>1. /\ \A t \in Sessions : t # s => wire'[t] = wire[t]
        /\ n \in Nat /\ Len(wire'[s]) = n + 1
        /\ DOMAIN wire[s] = 1 .. n /\ DOMAIN wire'[s] = 1 .. n + 1
        /\ \A i \in 1 .. n : wire'[s][i] = wire[s][i]
        /\ wire'[s][n + 1] = m
        /\ Nums(wire'[s]) = Nums(wire[s]) \cup {m.seq}
        /\ \A k \in 0 .. n : \A e :
             AckIn(wire[s], e, k) => AckIn(wire'[s], e, k) /\ AckIn(wire'[s], e, Len(wire'[s]))
        /\ m.type = "ack" => AckIn(wire'[s], m.re, Len(wire'[s]))
    BY <1>2, <1>6, WireGrows
  <2>2. \A t \in Sessions : handler'[t] = IF t = s THEN "open" ELSE handler[t]
    BY <1>6 DEF TypeOK
  <2>3. Blank' /\ Replies'
    BY <1>1, <1>2, <2>1, <2>2 DEF Agreed, Blank, Replies
  <2>4. m.type # "response"
    BY <1>2
  <2>5. \A i \in DOMAIN wire'[s] : i \in 1 .. n \/ i = n + 1
    BY <2>1
  <2> HIDE DEF n, m
  <2>6. Answering'
    BY <1>1, <2>1, <2>4, <2>5 DEF Agreed, Answering
  <2>7. AcksLead'
    <3> SUFFICES ASSUME NEW t \in Sessions, NEW i \in DOMAIN wire'[t], wire'[t][i].type = "response",
                        published[wire'[t][i].re].session = t
                 PROVE  AckIn(wire'[t], wire'[t][i].re, i - 1)
      BY <1>1 DEF AcksLead
    <3>1. CASE t # s
      BY <2>1, <3>1 DEF Agreed, AcksLead
    <3>2. CASE t = s
      <4>1. i \in 1 .. n /\ wire'[s][i] = wire[s][i]
        BY <2>1, <2>4, <2>5, <3>2
      <4>2. AckIn(wire[s], wire[s][i].re, i - 1)
        BY <2>1, <3>2, <4>1 DEF Agreed, AcksLead
      <4>3. i - 1 \in 0 .. n
        BY <2>1, <4>1
      <4> QED  BY <2>1, <3>2, <4>1, <4>2, <4>3
    <3> QED  BY <3>1, <3>2
  <2>8. AcksKept'
    <3> SUFFICES ASSUME NEW e \in DOMAIN published, NEW t, t = published[e].session, Live(t)'
                 PROVE  \/ AckIn(wire'[t], e, Len(wire'[t]))
                        \/ reply'[t].type = "ack" /\ reply'[t].re = e
      BY <1>1 DEF AcksKept, Live
    <3>1. t \in Sessions /\ Live(t)
      BY <1>1, <1>4, <2>2 DEF Live
    <3>2. AckIn(wire[t], e, Len(wire[t])) \/ (reply[t].type = "ack" /\ reply[t].re = e)
      BY <3>1 DEF Agreed, AcksKept
    <3>3. CASE t # s
      BY <1>2, <2>1, <3>1, <3>2, <3>3
    <3>4. CASE t = s
      <4>1. n \in 0 .. n
        BY <2>1
      <4> QED  BY <2>1, <3>2, <3>4, <4>1 DEF n, m
    <3> QED  BY <3>3, <3>4
  <2>9. Numbers'
    <3> SUFFICES ASSUME NEW t \in registered, Live(t)' PROVE Numbered(t)'
      BY <1>1 DEF Numbers
    <3>1. t \in Sessions /\ Live(t)
      BY <1>1, <2>2 DEF TypeOK, Live
    <3>2. Numbered(t)
      BY <3>1 DEF Agreed, Numbers
    <3>3. CASE t # s
      BY <1>1, <1>2, <2>1, <3>1, <3>2, <3>3, NumberedStays
    <3>4. CASE t = s
      <4> DEFINE g == IF \E o \in outgoing : o.session = s THEN 1 ELSE 0
                 c == Len(channel[s])
      <4>1. n + 1 + c + g = sentSeq[s]
        BY <1>2, <3>2, <3>4 DEF Numbered, n
      <4>2. Nums(wire[s]) \cup {m.seq} \cup Nums(channel[s]) \cup HandedOver(s) = 1 .. sentSeq[s]
        BY <1>2, <3>2, <3>4 DEF Numbered, InHand, m
      <4>3. InHand(s)' = {} /\ reply'[s] = NoReply
        BY <1>2 DEF InHand
      <4>4. Nums(channel[s])' = Nums(channel[s]) /\ HandedOver(s)' = HandedOver(s) /\ sentSeq'[s] = sentSeq[s]
        BY <1>1 DEF Nums, HandedOver
      <4>5. Nums(wire[s])' = Nums(wire[s]) \cup {m.seq}
        BY <2>1 DEF Nums
      <4>6. (Nums(wire[s]) \cup InHand(s) \cup Nums(channel[s]) \cup HandedOver(s) = 1 .. sentSeq[s])'
        BY <4>2, <4>3, <4>4, <4>5
      <4>7. n + 1 + 0 + c + g = sentSeq[s]
        <5>1. c \in Nat /\ g \in Nat
          BY TypeFacts, LenProperties
        <5> HIDE DEF c, g
        <5> QED  BY <2>1, <4>1, <5>1
      <4>8. Len(wire'[s]) + 0 + Len(channel'[s])
              + (IF \E o \in outgoing' : o.session = s THEN 1 ELSE 0) = sentSeq'[s]
        BY <1>1, <2>1, <4>7
      <4> QED  BY <3>4, <4>3, <4>6, <4>8 DEF Numbered
    <3> QED  BY <3>3, <3>4
  <2> QED  BY <1>3, <2>3, <2>6, <2>7, <2>8, <2>9 DEF Agreed
<1> QED  BY <1>5, <1>6 DEF SendReply

\* What waits first in the channel goes on the wire, behind the ACK of what it
\* answers, or the handler gives up with it (forward of the session's channel).
LEMMA ForwardKept ==
    ASSUME TypeOK, Agreed, NEW s \in Sessions, Forward(s)
    PROVE  Agreed'
<1> DEFINE m == Head(channel[s])
           c == Len(Tail(channel[s]))
<1>1. /\ handler[s] = "open" /\ channel' = [channel EXCEPT ![s] = Tail(@)]
      /\ UNCHANGED <<registered, reply, recvSeq, sentSeq, userSessions, published, outgoing>>
  BY DEF Forward, Rest, connection, solving
<1>2. channel[s] \in Seq(Message) /\ channel[s] # <<>>
  BY TypeFacts DEF Forward
<1>3. /\ Len(channel[s]) = c + 1 /\ c \in Nat
      /\ Nums(channel[s]) = {m.seq} \cup Nums(Tail(channel[s]))
      /\ m = channel[s][1] /\ 1 \in DOMAIN channel[s]
      /\ Tail(channel[s]) \in Seq(Message)
      /\ \A i \in 1 .. c : i + 1 \in DOMAIN channel[s] /\ Tail(channel[s])[i] = channel[s][i + 1]
  BY <1>2, NumsTaken, LenProperties
<1>4. m \in Message
  BY <1>2, HeadTailProperties
<1>5. /\ \A t \in Sessions : channel'[t] = IF t = s THEN Tail(channel[s]) ELSE channel[t]
      /\ DOMAIN channel'[s] = 1 .. c
  <2>1. DOMAIN Tail(channel[s]) = 1 .. c
    BY <1>3, LenProperties
  <2> QED  BY <1>1, <2>1 DEF TypeOK
<1>6. reply[s] = NoReply
  BY <1>1 DEF Agreed, Replies
<1>7. Counted' /\ EventsInOrder' /\ Subscribed'
  BY <1>1 DEF Agreed, Counted, EventsInOrder, Subscribed
<1>8. \A e \in DOMAIN published : published[e].session \in Sessions
  BY TypeFacts DEF Event
<1> HIDE DEF m, c
<1>9. m.type = "response" /\ m.re \in DOMAIN published
  BY <1>3 DEF Agreed, Answering
<1>10. ASSUME NEW t \in Sessions, NEW i \in DOMAIN channel'[t]
       PROVE  channel'[t][i].type = "response" /\ channel'[t][i].re \in DOMAIN published
  <2>1. CASE t # s
    BY <1>5, <2>1 DEF Agreed, Answering
  <2>2. CASE t = s
    <3>1. i + 1 \in DOMAIN channel[s] /\ channel'[t][i] = channel[s][i + 1]
      BY <1>3, <1>5, <1>10, <2>2
    <3> QED  BY <3>1 DEF Agreed, Answering
  <2> QED  BY <2>1, <2>2
<1>11. CASE wire' = wire /\ Leave(s)
  <2>1. \A t \in Sessions : handler'[t] = IF t = s THEN "closing" ELSE handler[t]
    BY <1>11 DEF Leave, TypeOK
  <2>2. Blank' /\ Replies' /\ Answering' /\ AcksLead'
    BY <1>1, <1>5, <1>6, <1>10, <1>11, <2>1 DEF Agreed, Blank, Replies, Answering, AcksLead
  <2>3. AcksKept'
    BY <1>1, <1>8, <1>11, <2>1 DEF Agreed, AcksKept, Live
  <2>4. Numbers'
    <3> SUFFICES ASSUME NEW t \in registered, Live(t)' PROVE Numbered(t)'
      BY <1>1 DEF Numbers
    <3>1. t \in Sessions /\ t # s /\ Live(t)
      BY <2>1 DEF TypeOK, Live
    <3>2. Numbered(t)
      BY <3>1 DEF Agreed, Numbers
    <3> QED  BY <1>1, <1>5, <1>11, <3>1, <3>2, NumberedStays
  <2> QED  BY <1>7, <2>2, <2>3, <2>4 DEF Agreed
<1>12. CASE wire' = [wire EXCEPT ![s] = Append(@, m)] /\ handler' = handler
  <2> DEFINE n == Len(wire[s])
  <2>1. /\ \A t \in Sessions : t # s => wire'[t] = wire[t]
        /\ n \in Nat /\ Len(wire'[s]) = n + 1
        /\ DOMAIN wire[s] = 1 .. n /\ DOMAIN wire'[s] = 1 .. n + 1
        /\ \A i \in 1 .. n : wire'[s][i] = wire[s][i]
        /\ wire'[s][n + 1] = m
        /\ Nums(wire'[s]) = Nums(wire[s]) \cup {m.seq}
        /\ \A k \in 0 .. n : \A e :
             AckIn(wire[s], e, k) => AckIn(wire'[s], e, k) /\ AckIn(wire'[s], e, Len(wire'[s]))
    BY <1>4, <1>12, WireGrows
  <2>2. Blank' /\ Replies'
    BY <1>1, <1>5, <1>12, <2>1 DEF Agreed, Blank, Replies
  <2>3. \A i \in DOMAIN wire'[s] : i \in 1 .. n \/ i = n + 1
    BY <2>1
  <2> HIDE DEF n
  <2>4. Answering'
    BY <1>1, <1>9, <1>10, <2>1, <2>3 DEF Agreed, Answering
  <2>5. AcksLead'
    <3> SUFFICES ASSUME NEW t \in Sessions, NEW i \in DOMAIN wire'[t], wire'[t][i].type = "response",
                        published[wire'[t][i].re].session = t
                 PROVE  AckIn(wire'[t], wire'[t][i].re, i - 1)
      BY <1>1 DEF AcksLead
    <3>1. CASE t # s
      BY <2>1, <3>1 DEF Agreed, AcksLead
    <3>2. CASE t = s /\ i \in 1 .. n
      <4>1. wire'[s][i] = wire[s][i] /\ i - 1 \in 0 .. n
        BY <2>1, <3>2
      <4>2. AckIn(wire[s], wire[s][i].re, i - 1)
        BY <2>1, <3>2, <4>1 DEF Agreed, AcksLead
      <4> QED  BY <2>1, <3>2, <4>1, <4>2
    <3>3. CASE t = s /\ i = n + 1
      <4>1. wire'[s][i] = m /\ i - 1 = n /\ n \in 0 .. n
        BY <2>1, <3>3
      <4>2. AckIn(wire[s], m.re, n)
        <5>1. Live(s) /\ reply[s].type # "ack"
          BY <1>1, <1>6 DEF Live, NoReply
        <5>2. published[m.re].session = s
          BY <3>3, <4>1
        <5> QED  BY <1>9, <5>1, <5>2 DEF Agreed, AcksKept, n
      <4> QED  BY <2>1, <3>3, <4>1, <4>2
    <3> QED  BY <2>3, <3>1, <3>2, <3>3
  <2>6. AcksKept'
    <3> SUFFICES ASSUME NEW e \in DOMAIN published, NEW t, t = published[e].session, Live(t)'
                 PROVE  \/ AckIn(wire'[t], e, Len(wire'[t]))
                        \/ reply'[t].type = "ack" /\ reply'[t].re = e
      BY <1>1 DEF AcksKept, Live
    <3>1. t \in Sessions /\ Live(t)
      BY <1>8, <1>12 DEF Live
    <3>2. AckIn(wire[t], e, Len(wire[t])) \/ (reply[t].type = "ack" /\ reply[t].re = e)
      BY <3>1 DEF Agreed, AcksKept
    <3>3. CASE t # s
      BY <1>1, <2>1, <3>1, <3>2, <3>3
    <3>4. CASE t = s
      <4>1. n \in 0 .. n
        BY <2>1
      <4> QED  BY <1>1, <2>1, <3>2, <3>4, <4>1 DEF n
    <3> QED  BY <3>3, <3>4
  <2>7. Numbers'
    <3> SUFFICES ASSUME NEW t \in registered, Live(t)' PROVE Numbered(t)'
      BY <1>1 DEF Numbers
    <3>1. t \in Sessions /\ Live(t)
      BY <1>12 DEF TypeOK, Live
    <3>2. Numbered(t)
      BY <3>1 DEF Agreed, Numbers
    <3>3. CASE t # s
      BY <1>1, <1>5, <2>1, <3>1, <3>2, <3>3, NumberedStays
    <3>4. CASE t = s
      <4> DEFINE g == IF \E o \in outgoing : o.session = s THEN 1 ELSE 0
      <4>1. n + 0 + (c + 1) + g = sentSeq[s]
        BY <1>3, <1>6, <3>2, <3>4 DEF Numbered, n
      <4>2. Nums(wire[s]) \cup {} \cup ({m.seq} \cup Nums(Tail(channel[s]))) \cup HandedOver(s)
              = 1 .. sentSeq[s]
        BY <1>3, <1>6, <3>2, <3>4 DEF Numbered, InHand
      <4>3. InHand(s)' = {} /\ reply'[s] = NoReply
        BY <1>1, <1>6 DEF InHand
      <4>4. /\ Nums(channel[s])' = Nums(Tail(channel[s])) /\ HandedOver(s)' = HandedOver(s)
            /\ sentSeq'[s] = sentSeq[s]
        BY <1>1, <1>5 DEF Nums, HandedOver
      <4>5. Nums(wire[s])' = Nums(wire[s]) \cup {m.seq}
        BY <2>1 DEF Nums
      <4>6. (Nums(wire[s]) \cup InHand(s) \cup Nums(channel[s]) \cup HandedOver(s) = 1 .. sentSeq[s])'
        BY <4>2, <4>3, <4>4, <4>5
      <4>7. n + 1 + 0 + c + g = sentSeq[s]
        <5>1. g \in Nat
          OBVIOUS
        <5> HIDE DEF g
        <5> QED  BY <1>3, <2>1, <4>1, <5>1
      <4>8. Len(wire'[s]) + 0 + Len(channel'[s])
              + (IF \E o \in outgoing' : o.session = s THEN 1 ELSE 0) = sentSeq'[s]
        BY <1>1, <1>5, <2>1, <4>7 DEF c
      <4> QED  BY <3>4, <4>3, <4>6, <4>8 DEF Numbered
    <3> QED  BY <3>3, <3>4
  <2> QED  BY <1>7, <2>2, <2>4, <2>5, <2>6, <2>7 DEF Agreed
<1> QED  BY <1>11, <1>12 DEF Forward, m

\* A session that is taken from the maps is asked for nothing more: its handler may
\* still go on, or it ends with what waited (destroy_session).
LEMMA DestroyKept ==
    ASSUME TypeOK, Agreed, NEW s \in Sessions, Destroy(s), UNCHANGED <<reply, published, outgoing>>,
           \/ UNCHANGED <<handler, channel, wire>>
           \/ /\ handler[s] = "closing" /\ handler' = [handler EXCEPT ![s] = "gone"]
              /\ channel' = [channel EXCEPT ![s] = <<>>] /\ wire' = [wire EXCEPT ![s] = <<>>]
    PROVE  Agreed'
<1>1. /\ \A u \in Users : \A t \in Sessions : t # s => (t \in userSessions'[u] <=> t \in userSessions[u])
      /\ \A u \in Users : userSessions'[u] \subseteq userSessions[u]
      /\ registered' = registered \ {s}
  BY DestroyTyped
<1>2. /\ DOMAIN recvSeq' = DOMAIN recvSeq \ {s} /\ DOMAIN sentSeq' = DOMAIN sentSeq \ {s}
      /\ \A t \in DOMAIN recvSeq : t # s => recvSeq'[t] = recvSeq[t]
      /\ \A t \in DOMAIN sentSeq : t # s => sentSeq'[t] = sentSeq[t]
  BY DEF Destroy, Without
<1>3. /\ \A t \in Sessions : t # s => /\ handler'[t] = handler[t]
                                      /\ channel'[t] = channel[t] /\ wire'[t] = wire[t]
      /\ \/ handler'[s] = handler[s] /\ channel'[s] = channel[s] /\ wire'[s] = wire[s]
         \/ handler[s] = "closing" /\ handler'[s] = "gone" /\ channel'[s] = <<>> /\ wire'[s] = <<>>
  BY DEF TypeOK
<1>4. DOMAIN <<>> = {}
  <2>1. DOMAIN <<>> = 1 .. 0
    BY EmptySeq, LenProperties
  <2> QED  BY <2>1
<1>5. \A e \in DOMAIN published : published[e].session \in Sessions /\ published[e].user \in Users
  BY TypeFacts DEF Event
<1>6. Blank' /\ Replies'
  BY <1>1, <1>3 DEF Agreed, Blank, Replies
<1>7. Counted'
  BY <1>1, <1>2 DEF Agreed, Counted
<1>8. Answering'
  BY <1>3, <1>4 DEF Agreed, Answering
<1>9. AcksLead'
  BY <1>3, <1>4 DEF Agreed, AcksLead
<1>10. AcksKept'
  <2> SUFFICES ASSUME NEW e \in DOMAIN published, NEW t, t = published[e].session, Live(t)'
               PROVE  AckIn(wire'[t], e, Len(wire'[t])) \/ (reply[t].type = "ack" /\ reply[t].re = e)
    BY DEF AcksKept, Live
  <2>1. t \in Sessions /\ Live(t) /\ wire'[t] = wire[t]
    BY <1>3, <1>5 DEF Live
  <2> QED  BY <2>1 DEF Agreed, AcksKept
<1>11. Numbers'
  <2> SUFFICES ASSUME NEW t \in registered', Live(t)' PROVE Numbered(t)'
    BY DEF Numbers
  <2>1. t \in registered /\ t \in Sessions /\ t # s /\ t \in DOMAIN sentSeq
    BY <1>1 DEF TypeOK, Agreed, Counted
  <2>2. Numbered(t) /\ wire'[t] = wire[t] /\ channel'[t] = channel[t] /\ sentSeq'[t] = sentSeq[t]
    BY <1>2, <1>3, <2>1 DEF Agreed, Numbers, Live
  <2> QED  BY <2>2, NumberedStays
<1>12. EventsInOrder'
  <2>1. \A t \in registered' : t \in registered /\ recvSeq'[t] = recvSeq[t]
    BY <1>1, <1>2 DEF Agreed, Counted
  <2> QED  BY <2>1 DEF Agreed, EventsInOrder
<1>13. Subscribed'
  BY <1>1, <1>5 DEF Agreed, Subscribed
<1> QED  BY <1>6, <1>7, <1>8, <1>9, <1>10, <1>11, <1>12, <1>13 DEF Agreed

\* A response takes the next number of every session it is for, and is on its way to
\* each (process_outgoing).
LEMMA RespondKept ==
    ASSUME TypeOK, Agreed, NEW e \in DOMAIN published, Respond(e)
    PROVE  Agreed'
<1> DEFINE to == UserSessions(published[e].user)
<1>1. /\ outgoing = {}
      /\ sentSeq' = [s \in DOMAIN sentSeq \cup to |-> IF s \in to THEN NextSeqNum(s) ELSE sentSeq[s]]
      /\ outgoing' = {FixResponse(s, e) : s \in to}
      /\ UNCHANGED <<handler, registered, reply, channel, wire, recvSeq, userSessions, published>>
  BY DEF Respond, connection
<1>2. published[e].user \in Users /\ \A s \in Sessions : s \in to => s \in userSessions[published[e].user]
  BY Addressed
<1> HIDE DEF to
<1>3. /\ \A o \in outgoing' : o.session \in to /\ o = FixResponse(o.session, e)
      /\ \A s \in to : FixResponse(s, e) \in outgoing' /\ FixResponse(s, e).session = s
  BY <1>1 DEF FixResponse
<1>4. Blank' /\ Replies'
  <2>1. Replies'
    BY <1>1 DEF Agreed, Replies
  <2>2. \A s \in Sessions : handler[s] = "new" => s \notin to
    BY <1>2 DEF Agreed, Blank
  <2>3. Blank'
    BY <1>1, <1>3, <2>2 DEF Agreed, Blank
  <2> QED  BY <2>1, <2>3
<1>5. Counted'
  <2>1. \A o, p \in outgoing' : o.session = p.session => o = p
    BY <1>3
  <2>2. registered \subseteq DOMAIN sentSeq'
    BY <1>1 DEF Agreed, Counted
  <2> QED  BY <1>1, <2>1, <2>2 DEF Agreed, Counted
<1>6. Answering'
  <2>1. \A o \in outgoing' : o.re = e
    BY <1>1 DEF FixResponse
  <2> QED  BY <1>1, <2>1 DEF Agreed, Answering
<1>7. AcksLead' /\ AcksKept' /\ EventsInOrder' /\ Subscribed'
  BY <1>1 DEF Agreed, AcksLead, AcksKept, EventsInOrder, Subscribed, Live
<1>8. Numbers'
  <2> SUFFICES ASSUME NEW t \in registered, Live(t) PROVE Numbered(t)'
    BY <1>1 DEF Numbers, Live
  <2>1. Numbered(t) /\ t \in DOMAIN sentSeq /\ t \in Sessions
    BY DEF Agreed, Numbers, Counted, TypeOK
  <2>2. CASE t \notin to
    <3>1. sentSeq'[t] = sentSeq[t]
      BY <1>1, <2>1, <2>2
    <3>2. \A p : p.session = t => (p \in outgoing' <=> p \in outgoing)
      BY <1>1, <1>3, <2>2
    <3> QED  BY <1>1, <2>1, <3>1, <3>2, NumberedStays
  <2>3. CASE t \in to
    <3> DEFINE k == sentSeq[t]
               w == Len(wire[t])
               c == Len(channel[t])
               h == IF reply[t] = NoReply THEN 0 ELSE 1
               N == Nums(wire[t]) \cup InHand(t) \cup Nums(channel[t])
    <3>1. k \in Nat /\ sentSeq'[t] = k + 1 /\ FixResponse(t, e).seq = k + 1
      <4>1. k \in Nat
        BY <2>1 DEF TypeOK
      <4>2. NextSeqNum(t) = k + 1
        BY <2>1 DEF NextSeqNum, SeqNum
      <4>3. sentSeq'[t] = NextSeqNum(t)
        BY <1>1, <2>3
      <4> QED  BY <4>1, <4>2, <4>3 DEF FixResponse
    <3>2. w + h + c + 0 = k /\ N \cup {} = 1 .. k
      <4>1. HandedOver(t) = {} /\ ~ \E o \in outgoing : o.session = t
        BY <1>1 DEF HandedOver
      <4> QED  BY <2>1, <4>1 DEF Numbered
    <3>3. HandedOver(t)' = {k + 1} /\ \E o \in outgoing' : o.session = t
      <4>1. \A o \in outgoing' : o.session = t <=> o = FixResponse(t, e)
        BY <1>3, <2>3
      <4> HIDE DEF k
      <4>2. FixResponse(t, e) \in outgoing' /\ FixResponse(t, e).seq = k + 1
        BY <1>3, <2>3, <3>1
      <4> DEFINE x == FixResponse(t, e)
      <4> HIDE DEF x
      <4>3. {p \in outgoing' : p.session = t} = {x}
        BY <4>1, <4>2 DEF x
      <4> QED  BY <4>2, <4>3 DEF HandedOver, x
    <3>4. N' = N
      BY <1>1 DEF Nums, InHand
    <3>5. 1 .. k + 1 = 1 .. k \cup {k + 1}
      BY <3>1
    <3>6. w + h + c + 1 = k + 1
      <4>1. w \in Nat /\ c \in Nat /\ h \in Nat
        BY <2>1, TypeFacts, LenProperties
      <4> HIDE DEF w, c, h, k, N
      <4> QED  BY <3>1, <3>2, <4>1
    <3>7. N' \cup HandedOver(t)' = 1 .. k + 1
      <4> HIDE DEF N, k
      <4> QED  BY <3>2, <3>3, <3>4, <3>5
    <3>8. Len(wire'[t]) + (IF reply'[t] = NoReply THEN 0 ELSE 1) + Len(channel'[t])
            + (IF \E o \in outgoing' : o.session = t THEN 1 ELSE 0) = sentSeq'[t]
      BY <1>1, <3>1, <3>3, <3>6
    <3> QED  BY <3>1, <3>7, <3>8 DEF Numbered
  <2> QED  BY <2>2, <2>3
<1> QED  BY <1>4, <1>5, <1>6, <1>7, <1>8 DEF Agreed

\* A response is put into the channel of its session, if that is still registered.
LEMMA DeliverKept ==
    ASSUME TypeOK, Agreed, Deliver
    PROVE  Agreed'
<1>1. PICK o \in outgoing :
        /\ outgoing' = outgoing \ {o}
        /\ channel' = IF o.session \in registered
                      THEN [channel EXCEPT ![o.session] =
                              Append(@, [type |-> "response", seq |-> o.seq, re |-> o.re])]
                      ELSE channel
        /\ UNCHANGED <<connection, handler, pinged, peer, reply, wire, recvSeq, sentSeq,
                       userSessions, limiters, published, answered, received, faults, now>>
  BY DEF Deliver
<1> DEFINE s == o.session
           m == [type |-> "response", seq |-> o.seq, re |-> o.re]
<1>2. UNCHANGED <<handler, registered, reply, wire, recvSeq, sentSeq, userSessions, published>>
  BY <1>1 DEF connection
<1>3. m \in Message /\ m.type = "response" /\ m.seq = o.seq /\ m.re \in DOMAIN published
  <2>1. o.seq \in Nat /\ o.re \in Nat
    BY DEF TypeOK
  <2> QED  BY <2>1 DEF Message, Agreed, Answering
<1> HIDE DEF m
<1>4. /\ s \in registered => s \in Sessions /\ channel'[s] = Append(channel[s], m)
      /\ \A t \in Sessions : t # s \/ s \notin registered => channel'[t] = channel[t]
  BY <1>1 DEF TypeOK, m
<1>5. \A t \in Sessions : /\ channel[t] \in Seq(Message) /\ Len(channel[t]) \in Nat
                          /\ DOMAIN channel[t] = 1 .. Len(channel[t])
  BY TypeFacts, LenProperties
<1>6. s \in registered =>
        /\ Len(channel'[s]) = Len(channel[s]) + 1
        /\ Nums(channel'[s]) = Nums(channel[s]) \cup {m.seq}
        /\ DOMAIN channel'[s] = 1 .. Len(channel[s]) + 1
        /\ \A i \in 1 .. Len(channel[s]) : channel'[s][i] = channel[s][i]
        /\ channel'[s][Len(channel[s]) + 1] = m
  <2> SUFFICES ASSUME s \in registered
               PROVE  /\ Len(channel'[s]) = Len(channel[s]) + 1
                      /\ Nums(channel'[s]) = Nums(channel[s]) \cup {m.seq}
                      /\ DOMAIN channel'[s] = 1 .. Len(channel[s]) + 1
                      /\ \A i \in 1 .. Len(channel[s]) : channel'[s][i] = channel[s][i]
                      /\ channel'[s][Len(channel[s]) + 1] = m
    OBVIOUS
  <2> DEFINE q == channel[s]
  <2>1. q \in Seq(Message) /\ channel'[s] = Append(q, m)
    BY <1>4, <1>5
  <2> HIDE DEF q
  <2>2. /\ Append(q, m) \in Seq(Message) /\ Len(Append(q, m)) = Len(q) + 1
        /\ \A i \in 1 .. Len(q) : Append(q, m)[i] = q[i]
        /\ Append(q, m)[Len(q) + 1] = m
        /\ Nums(Append(q, m)) = Nums(q) \cup {m.seq}
    BY <1>3, <2>1, AppendProperties, NumsAppended
  <2>3. DOMAIN Append(q, m) = 1 .. Len(q) + 1
    BY <2>2, LenProperties
  <2> QED  BY <2>1, <2>2, <2>3 DEF q
<1> HIDE DEF s
<1>7. Blank' /\ Replies'
  <2>1. s \in Sessions => handler[s] # "new"
    BY DEF Agreed, Blank, s
  <2>2. Replies'
    BY <1>2 DEF Agreed, Replies
  <2>3. Blank'
    BY <1>1, <1>2, <1>4, <2>1 DEF Agreed, Blank
  <2> QED  BY <2>2, <2>3
<1>8. Counted'
  BY <1>1, <1>2 DEF Agreed, Counted
<1>9. Answering'
  <2>1. ASSUME NEW t \in Sessions, NEW i \in DOMAIN channel'[t]
        PROVE  channel'[t][i].type = "response" /\ channel'[t][i].re \in DOMAIN published
    <3>1. CASE t # s \/ s \notin registered
      BY <1>4, <2>1, <3>1 DEF Agreed, Answering
    <3>2. CASE t = s /\ s \in registered
      <4>1. (i \in DOMAIN channel[s] /\ channel'[s][i] = channel[s][i]) \/ channel'[s][i] = m
        BY <1>5, <1>6, <2>1, <3>2
      <4> QED  BY <1>3, <3>2, <4>1 DEF Agreed, Answering
    <3> QED  BY <3>1, <3>2
  <2> QED  BY <1>1, <1>2, <2>1 DEF Agreed, Answering
<1>10. AcksLead' /\ AcksKept' /\ EventsInOrder' /\ Subscribed'
  BY <1>2 DEF Agreed, AcksLead, AcksKept, EventsInOrder, Subscribed, Live
<1>11. Numbers'
  <2> SUFFICES ASSUME NEW t \in registered, Live(t) PROVE Numbered(t)'
    BY <1>2 DEF Numbers, Live
  <2>1. Numbered(t) /\ t \in DOMAIN sentSeq /\ t \in Sessions
    BY DEF Agreed, Numbers, Counted, TypeOK
  <2>2. CASE t # s
    <3>1. channel'[t] = channel[t]
      BY <1>4, <2>1, <2>2
    <3>2. \A p : p.session = t => (p \in outgoing' <=> p \in outgoing)
      BY <1>1, <2>2 DEF s
    <3> QED  BY <1>2, <2>1, <3>1, <3>2, NumberedStays
  <2>3. CASE t = s
    <3> DEFINE w == Len(wire[t])
               c == Len(channel[t])
               h == IF reply[t] = NoReply THEN 0 ELSE 1
    <3>1. \A p \in outgoing : p.session = t <=> p = o
      BY <2>3 DEF Agreed, Counted, s
    <3>2. HandedOver(t) = {m.seq} /\ \E p \in outgoing : p.session = t
      BY <1>3, <3>1 DEF HandedOver
    <3>3. HandedOver(t)' = {} /\ ~ \E p \in outgoing' : p.session = t
      BY <1>1, <3>1 DEF HandedOver
    <3>4. w + h + c + 1 = sentSeq[t]
      BY <2>1, <3>2 DEF Numbered
    <3>5. Nums(wire[t]) \cup InHand(t) \cup Nums(channel[t]) \cup {m.seq} = 1 .. sentSeq[t]
      BY <2>1, <3>2 DEF Numbered
    <3>6. Len(channel'[t]) = c + 1 /\ Nums(channel[t])' = Nums(channel[t]) \cup {m.seq}
      <4>1. s \in registered
        BY <2>3
      <4>2. Len(channel'[s]) = Len(channel[s]) + 1 /\ Nums(channel'[s]) = Nums(channel[s]) \cup {m.seq}
        BY <1>6, <4>1
      <4>3. Nums(channel[t])' = Nums(channel'[t])
        BY DEF Nums
      <4> QED  BY <2>3, <4>2, <4>3
    <3>7. Nums(wire[t])' = Nums(wire[t]) /\ InHand(t)' = InHand(t)
      BY <1>2 DEF Nums, InHand
    <3>8. (Nums(wire[t]) \cup InHand(t) \cup Nums(channel[t]) \cup HandedOver(t) = 1 .. sentSeq[t])'
      BY <1>2, <3>3, <3>5, <3>6, <3>7
    <3>9. w + h + (c + 1) + 0 = sentSeq[t]
      <4>1. w \in Nat /\ c \in Nat /\ h \in Nat
        BY <2>1, TypeFacts, LenProperties
      <4> HIDE DEF w, c, h
      <4> QED  BY <3>4, <4>1
    <3>10. Len(wire'[t]) + (IF reply'[t] = NoReply THEN 0 ELSE 1) + Len(channel'[t])
             + (IF \E p \in outgoing' : p.session = t THEN 1 ELSE 0) = sentSeq'[t]
      BY <1>2, <3>3, <3>6, <3>9
    <3> QED  BY <3>8, <3>10 DEF Numbered
  <2> QED  BY <2>2, <2>3
<1> QED  BY <1>7, <1>8, <1>9, <1>10, <1>11 DEF Agreed

\* Every step of handlers, solver, main thread, clients and clock keeps the invariant.
LEMMA SessionStep ==
    ASSUME SessionInv, [Next]_vars
    PROVE  SessionInv'
<1>1. TypeOK /\ Admitted /\ Agreed
  BY DEF SessionInv, Agreed
<1>2. CASE UNCHANGED vars
  <2>1. TypeOK'
    BY <1>1, <1>2 DEF vars, TypeOK
  <2>2. Admitted'
    BY <1>1, <1>2 DEF vars, Admitted, Created
  <2>3. Agreed'
    <3>1. UNCHANGED core
      BY <1>2 DEF vars, core
    <3> QED  BY <1>1, <3>1, CoreKept
  <2> QED  BY <2>1, <2>2, <2>3 DEF SessionInv, Agreed
<1>3. ASSUME Next PROVE Admitted'
  BY <1>1, <1>3, AdmittedKept
<1>4. CASE Upgrade
  <2>1. TypeOK'
    BY <1>1, <1>4, CreateTyped
  <2>2. UNCHANGED core
    BY <1>4 DEF Upgrade, core
  <2> QED  BY <1>1, <1>3, <1>4, <2>1, <2>2, CoreKept DEF Next, SessionInv, Agreed
<1>5. CASE CreateSession
  <2>1. TypeOK' /\ Agreed'
    BY <1>1, <1>5, CreateTyped, CreateKept
  <2> QED  BY <1>3, <1>5, <2>1 DEF Next, SessionInv, Agreed
<1>6. ASSUME NEW s \in Sessions, Read(s)
      PROVE  TypeOK' /\ Agreed'
  <2>1. TypeOK'
    BY <1>1, <1>6, ReadTyped
  <2>2. Refused(s) \/ \E u \in Users, kind \in Kinds : Accept(s, u, kind, SeqNum(recvSeq, s) + 1)
    BY <1>1, <1>6, ReadFacts
  <2> QED  BY <1>1, <2>1, <2>2, RefusedKept, AcceptKept
<1>7. ASSUME NEW s \in Sessions, SendReply(s) \/ Forward(s)
      PROVE  TypeOK' /\ Agreed'
  BY <1>1, <1>7, SendTyped, SendReplyKept, ForwardKept
<1>8. ASSUME NEW s \in Sessions,
             \/ Ended(s) \/ Timeout(s) \/ Pong(s) \/ OddFrame(s)
             \/ \E how \in {"closed", "silent"} : PeerTurns(s, how)
      PROVE  TypeOK' /\ Agreed'
  <2>1. TypeOK'
    BY <1>1, <1>8, ConnectionTyped
  <2>2. \/ UNCHANGED core
        \/ /\ handler[s] = "open" /\ Leave(s)
           /\ UNCHANGED <<registered, reply, channel, wire, recvSeq, sentSeq, userSessions,
                          published, outgoing>>
    BY <1>8 DEF Ended, Timeout, Pong, OddFrame, PeerTurns, Rest, connection, solving, core
  <2> QED  BY <1>1, <2>1, <2>2, CoreKept, LeaveKept
<1>9. ASSUME NEW s \in Sessions, Close(s) \/ StopClose(s)
      PROVE  TypeOK' /\ Agreed'
  <2>1. TypeOK'
    BY <1>1, <1>9, CloseTyped
  <2>2. /\ Destroy(s) /\ UNCHANGED <<reply, published, outgoing>>
        /\ \/ UNCHANGED <<handler, channel, wire>>
           \/ /\ handler[s] = "closing" /\ handler' = [handler EXCEPT ![s] = "gone"]
              /\ channel' = [channel EXCEPT ![s] = <<>>] /\ wire' = [wire EXCEPT ![s] = <<>>]
    BY <1>9 DEF Close, StopClose, solving
  <2> QED  BY <1>1, <2>1, <2>2, DestroyKept
<1>10. CASE \E s \in Sessions : \/ Read(s) \/ HandlerStep(s) \/ Timeout(s) \/ Pong(s)
                                \/ OddFrame(s)
                                \/ StopClose(s)
                                \/ \E how \in {"closed", "silent"} : PeerTurns(s, how)
  <2>1. TypeOK' /\ Agreed'
    BY <1>6, <1>7, <1>8, <1>9, <1>10 DEF HandlerStep
  <2> QED  BY <1>3, <1>10, <2>1 DEF Next, SessionInv, Agreed
<1>11. CASE \E e \in DOMAIN published : Respond(e)
  <2>1. TypeOK' /\ Agreed'
    BY <1>1, <1>11, RespondTyped, RespondKept
  <2> QED  BY <1>3, <1>11, <2>1 DEF Next, SessionInv, Agreed
<1>12. CASE Deliver
  <2>1. TypeOK' /\ Agreed'
    BY <1>1, <1>12, DeliverTyped, DeliverKept
  <2> QED  BY <1>3, <1>12, <2>1 DEF Next, SessionInv, Agreed
<1>13. CASE CloseServer \/ StopServer \/ Tick
  <2>1. TypeOK'
    BY <1>1, <1>13, ServerTyped
  <2>2. UNCHANGED core
    BY <1>13 DEF CloseServer, StopServer, Tick, core, connection, solving
  <2> QED  BY <1>1, <1>3, <1>13, <2>1, <2>2, CoreKept DEF Next, SessionInv, Agreed
<1> QED  BY <1>2, <1>4, <1>5, <1>10, <1>11, <1>12, <1>13 DEF Next

\* The inductive invariant of the sessions holds, for every number of sessions and
\* clients, through every interleaving of handlers, solver and main thread.
THEOREM SessionInvHolds == Spec => []SessionInv
<1>1. Init => SessionInv
  BY InitInv
<1>2. SessionInv /\ [Next]_vars => SessionInv'
  BY SessionStep
<1> QED  BY <1>1, <1>2, PTL DEF Spec

\* What sessions, server and solver hold of one another's messages agrees: every
\* number is given to one message, a session hears that its request was taken before
\* it hears what became of it, the solver sees a session's requests in the order of
\* their numbers, and a session stays subscribed to its users (SeqNumPlugin,
\* process_incoming, process_outgoing, UserPlugin).
THEOREM SessionsHold == Spec => []SessionsConsistent
<1>1. SessionInv => SessionsConsistent
  BY NumbersFollow, AckFollows DEF SessionInv, SessionsConsistent
<1> QED  BY <1>1, SessionInvHolds, PTL

-------------------------------------------------------------------------------
(* Every step keeps the limits.                                               *)

\* Nothing is published, and nothing is in a window, at first.
LEMMA InitLimits == ASSUME Init PROVE LimitInv /\ Throttled
<1>1. published = <<>> /\ now = 0 /\ \A u \in Users : limiters[u] = <<>>
  BY UserKeys DEF Init
<1>2. DOMAIN <<>> = {}
  <2>1. DOMAIN <<>> = 1 .. 0
    BY EmptySeq, LenProperties
  <2> QED  BY <2>1
<1>3. \A u \in Users : Sorted(limiters[u])
  BY <1>1, <1>2 DEF Sorted
<1>4. ASSUME NEW u \in Users, NEW t \in Int PROVE Remembered(u, t)
  <2>1. Events(u, t) = {} /\ Entries(limiters[u], t) = {}
    BY <1>1, <1>2 DEF Events, Entries
  <2>2. SumFunctionOnSet(EventWeight, {}) = 0 /\ SumFunctionOnSet(EntryWeight(limiters[u]), {}) = 0
    BY SumEmpty
  <2> QED  BY <2>1, <2>2 DEF Remembered
<1>5. Throttled
  <2> SUFFICES ASSUME NEW u \in Users, NEW config \in UserLimits, NEW t \in 0 .. now
               PROVE  SumFunctionOnSet(EventWeight, Within(u, config, t)) <= config.limit
    BY DEF Throttled, EventWeight, Within
  <2>1. Within(u, config, t) = {}
    BY <1>1, <1>2 DEF Within
  <2>2. SumFunctionOnSet(EventWeight, {}) = 0
    BY SumEmpty
  <2> QED  BY <2>1, <2>2, LimitsAssumption
<1> QED  BY <1>3, <1>4, <1>5 DEF LimitInv

\* What a handler reads is charged to its user before it is published, and published
\* only if every limit of the user allows it (consume_message_weight).
LEMMA ReadLimited ==
    ASSUME TypeOK, LimitInv, Throttled, NEW s \in Sessions, Read(s)
    PROVE  LimitInv' /\ Throttled'
<1>1. Timed /\ limiters \in [Keys -> Seq(Entry)] /\ now \in Nat
  BY TypeFacts DEF Timed
<1>2. now' = now
  <2>1. Reading(s)
    BY ReadFacts DEF Refused, Accept, Weighing
  <2> QED  BY <2>1 DEF Reading
<1>3. ASSUME published' = published, \A v \in Users : limiters'[v] = limiters[v]
      PROVE  LimitInv' /\ Throttled'
  <2>1. now <= now' /\ now' \in Nat
    BY <1>1, <1>2
  <2>2. LimitInv'
    BY <1>1, <1>3, <2>1, LimitsWait
  <2>3. Throttled'
    BY <1>1, <1>3, <2>1, ThrottleWaits
  <2> QED  BY <2>2, <2>3
<1>4. ASSUME NEW u \in Users, NEW kind \in Kinds, limiters' = Weighed(s, u, kind), published' = published
      PROVE  LimitInv' /\ Throttled'
  <2>1. \A v \in Users : limiters'[v] =
          IF v = u THEN Consume(limiters[u], UserLimits, Weight[kind], now) ELSE limiters[v]
    BY <1>1, <1>4, WeighedFacts
  <2>2. \A v \in Users, t \in Int :
          (SumFunctionOnSet(EventWeight, Events(v, t)))' = SumFunctionOnSet(EventWeight, Events(v, t))
    BY <1>4 DEF EventWeight, Events
  <2>3. LimitInv'
    BY <1>1, <1>2, <2>1, <2>2, LimitsCharged
  <2>4. Throttled'
    BY <1>1, <1>2, <1>4, ThrottleWaits
  <2> QED  BY <2>3, <2>4
<1>5. CASE RefuseRate(s) \/ RefuseUnread(s)
  <2>1. limiters' = Checked(s) /\ published' = published
    BY <1>5 DEF RefuseRate, RefuseUnread, solving
  <2>2. \A v \in Users : Checked(s)[v] = limiters[v]
    BY <1>1, CheckedFacts
  <2> QED  BY <1>3, <2>1, <2>2
<1>6. CASE \E u \in Users, kind \in Kinds :
             \/ RefuseWeight(s, u, kind)
             \/ \E n \in 0 .. MaxReceived + 1 :
                  RefuseSequence(s, u, kind, n) \/ RefuseContent(s, u, kind, n)
  <2>1. PICK u \in Users, kind \in Kinds : limiters' = Weighed(s, u, kind) /\ published' = published
    BY <1>6 DEF RefuseWeight, RefuseSequence, RefuseContent, Weighing, solving
  <2> QED  BY <1>4, <2>1
<1>7. CASE \E u \in Users, kind \in Kinds, n \in 0 .. MaxReceived + 1 : Accept(s, u, kind, n)
  <2>1. PICK u \in Users, kind \in Kinds, n \in 0 .. MaxReceived + 1 : Accept(s, u, kind, n)
    BY <1>7
  <2> DEFINE x == ServerEvent(s, u, kind, n)
  <2>2. /\ limiters' = Weighed(s, u, kind) /\ WeightAllowed(u, kind)
        /\ published' = Append(published, x) /\ n = SeqNum(recvSeq, s) + 1
    BY <2>1 DEF Accept, Weighing, ValidSeqNum
  <2>3. x \in Event /\ x.user = u /\ x.kind = kind /\ x.time = now
    <3>1. n \in Nat /\ now \in 0 .. now
      BY <1>1, <2>2, TypeFacts
    <3> QED  BY <3>1 DEF ServerEvent, Event
  <2> HIDE DEF x
  <2>4. \A v \in Users : limiters'[v] =
          IF v = u THEN Consume(limiters[u], UserLimits, Weight[kind], now) ELSE limiters[v]
    BY <1>1, <2>2, WeighedFacts
  <2>5. ASSUME NEW v \in Users, NEW t \in Int
        PROVE  \/ (SumFunctionOnSet(EventWeight, Events(v, t)))'
                     = SumFunctionOnSet(EventWeight, Events(v, t))
               \/ /\ v = u /\ t <= now /\ WeightAllowed(u, kind)
                  /\ (SumFunctionOnSet(EventWeight, Events(v, t)))'
                        = SumFunctionOnSet(EventWeight, Events(v, t)) + Weight[kind]
    <3>1. IF v = x.user /\ t <= now
          THEN (SumFunctionOnSet(EventWeight, Events(v, t)))'
                 = SumFunctionOnSet(EventWeight, Events(v, t)) + Weight[x.kind]
          ELSE (SumFunctionOnSet(EventWeight, Events(v, t)))'
                 = SumFunctionOnSet(EventWeight, Events(v, t))
      BY <1>1, <2>2, <2>3, EventsAdd
    <3> QED  BY <2>2, <2>3, <3>1
  <2>6. LimitInv'
    BY <1>1, <1>2, <2>4, <2>5, LimitsCharged
  <2>7. Throttled'
    BY <1>1, <1>2, <2>2, <2>3, ThrottleAllows
  <2> QED  BY <2>6, <2>7
<1> QED  BY <1>5, <1>6, <1>7 DEF Read

\* Every step keeps what the limits bound.
LEMMA LimitStep ==
    ASSUME TypeOK, LimitInv, Throttled, [Next]_vars
    PROVE  LimitInv' /\ Throttled'
<1>1. Timed /\ now \in Nat
  BY TypeFacts DEF Timed
<1>2. ASSUME published' = published, now' \in Nat, now <= now', \A v \in Users : limiters'[v] = limiters[v]
      PROVE  LimitInv' /\ Throttled'
  <2>1. LimitInv'
    BY <1>1, <1>2, LimitsWait
  <2>2. Throttled'
    BY <1>1, <1>2, ThrottleWaits
  <2> QED  BY <2>1, <2>2
<1>3. ASSUME UNCHANGED <<published, limiters, now>> PROVE LimitInv' /\ Throttled'
  BY <1>1, <1>2, <1>3
<1>4. CASE UNCHANGED vars
  BY <1>3, <1>4 DEF vars
<1>5. CASE Upgrade \/ CreateSession
  BY <1>3, <1>5 DEF Upgrade, CreateSession
<1>6. CASE \E s \in Sessions : Read(s)
  BY <1>6, ReadLimited
<1>7. CASE \E s \in Sessions : Close(s) \/ StopClose(s)
  <2>1. PICK s \in Sessions : Close(s) \/ StopClose(s)
    BY <1>7
  <2>2. Destroy(s) /\ UNCHANGED <<published, now>>
    BY <2>1 DEF Close, StopClose, solving
  <2>3. \A v \in Users : limiters'[v] = limiters[v]
    BY <1>1, <2>2, DestroyFacts DEF Timed
  <2>4. published' = published /\ now' = now /\ now <= now
    BY <1>1, <2>2
  <2> QED  BY <1>1, <1>2, <2>3, <2>4
<1>8. CASE \E s \in Sessions : \/ SendReply(s) \/ Forward(s) \/ Ended(s) \/ Timeout(s) \/ Pong(s)
                               \/ OddFrame(s)
                               \/ \E how \in {"closed", "silent"} : PeerTurns(s, how)
  BY <1>3, <1>8 DEF SendReply, Forward, Ended, Timeout, Pong, OddFrame, PeerTurns, Rest, solving
<1>9. CASE (\E e \in DOMAIN published : Respond(e)) \/ Deliver \/ CloseServer \/ StopServer
  BY <1>3, <1>9 DEF Respond, Deliver, CloseServer, StopServer, solving
<1>10. CASE Tick
  <2>1. published' = published /\ limiters' = limiters /\ now' = now + 1
    BY <1>10 DEF Tick, solving
  <2> QED  BY <1>1, <1>2, <2>1
<1> QED  BY <1>4, <1>5, <1>6, <1>7, <1>8, <1>9, <1>10 DEF Next, HandlerStep

\* No user gets more through to the solver in any window than its limits allow, for
\* any limits and weights: what was published within a period is still in the window
\* that is checked, although that is purged of what the longest limit forgets
\* (consume_message_weight, MultiLimiter::try_consume).
THEOREM ThrottledHolds == Spec => []Throttled
<1>1. Init => LimitInv /\ Throttled
  BY InitLimits
<1>2. TypeOK /\ (LimitInv /\ Throttled) /\ [Next]_vars => (LimitInv /\ Throttled)'
  BY LimitStep
<1>3. SessionInv => TypeOK
  BY DEF SessionInv
<1> QED  BY <1>1, <1>2, <1>3, SessionInvHolds, PTL DEF Spec

================================================================================
