--------------------------- MODULE ConsoleProofs ---------------------------
(***************************************************************************)
(* What Console promises of every subscription, proved for any observers   *)
(* and waiters, any sizes of ring, queue and chunk, and any output: the    *)
(* feed has no gap, and a waiter told that the console closed was told so  *)
(* truly.                                                                  *)
(*                                                                         *)
(* Subscribers have nothing to do with one another, so the work is done    *)
(* for one: Delivered, Received, Opened and Detached say what a step does  *)
(* to one queue, and Sound is what it keeps.                               *)
(*                                                                         *)
(* For a pattern waiter the counters it takes when it arms are enough      *)
(* (WaitSound): what it re-subscribes with reaches back to where it armed, *)
(* or as far as scrollback and scanner do, and no further.                 *)
(*                                                                         *)
(* The last two parts are about its scanner: that the scan overlooks       *)
(* nothing, and that the wait returns what the scan finds (PatternWait).   *)
(***************************************************************************)
EXTENDS PatternWait, FiniteSetTheorems, TLAPS

\* Position i of the feed of q begins where position i - 1 ended.
From(q, i) == IF i = 1 THEN q.upto ELSE q.ch[i - 1][2]

Chunks == {c \in Nat \X Nat : c[1] <= c[2]}
Queues == [ch : Seq(Chunks), open : BOOLEAN, upto : Nat]

\* The queue of a subscriber when t bytes have been published.
Sound(q, t) ==
    /\ q \in Queues
    /\ Len(q.ch) <= SubChanCap
    /\ \A i \in 1 .. Len(q.ch) : q.ch[i][1] = From(q, i)
    /\ q.open => From(q, Len(q.ch) + 1) = t

Pcs == {"idle", "subscribe", "drain", "rearm", "matched", "timeout", "closed"}

WaitStates == [pc : Pcs, arm : Nat, replay : Int, acc : SUBSET Int]

\* The counters of the ring and the reader.
RingTyped ==
    /\ total \in Nat /\ totalIn \in 0 .. total
    /\ size = Least(Cap, totalIn)
    /\ reader \in {"read", "publish", "dead"} /\ inHand \in Nat
    /\ up \in BOOLEAN /\ closed \in BOOLEAN

QueuesSound ==
    /\ DOMAIN sub = Subs
    /\ \A s \in Subs : Sound(sub[s], total)

HandlersTyped ==
    /\ obs \in [Observers -> {"idle", "streaming", "toldClosed"}]
    /\ wait \in [Waiters -> WaitStates]

IInv == RingTyped /\ QueuesSound /\ HandlersTyped /\ ClosedMeansClosed

-----------------------------------------------------------------------------
(* One queue.                                                              *)

\* A queue that is not attached is sound whatever is published.
LEMMA Detached ==
    ASSUME NEW q, NEW t \in Nat, NEW u \in Nat, Sound(q, t)
    PROVE  Sound([q EXCEPT !.open = FALSE], u)
BY DEF Sound, Queues, From

\* Deliver appends the next chunk, or detaches.
LEMMA Delivered ==
    ASSUME NEW q, NEW t \in Nat, NEW n \in Nat, Sound(q, t)
    PROVE  Sound(Deliver(q, <<t, t + n>>), t + n)
<1>1. CASE ~q.open
  BY <1>1 DEF Deliver, Sound, Queues, From
<1>2. CASE q.open /\ ~(Len(q.ch) < SubChanCap)
  BY <1>2, Detached DEF Deliver
<1>3. CASE q.open /\ Len(q.ch) < SubChanCap
  <2> DEFINE chunk == <<t, t + n>>
             longer == Append(q.ch, chunk)
             r == [q EXCEPT !.ch = longer]
  <2>1. chunk \in Chunks /\ chunk[1] = t /\ chunk[2] = t + n
    BY DEF Chunks
  <2>2. /\ q \in Queues /\ q.ch \in Seq(Chunks) /\ Len(q.ch) \in Nat
        /\ \A i \in 1 .. Len(q.ch) : q.ch[i][1] = From(q, i)
        /\ From(q, Len(q.ch) + 1) = t
    BY <1>3 DEF Sound, Queues
  <2>3. Deliver(q, chunk) = r
    BY <1>3 DEF Deliver
  <2> HIDE DEF chunk
  <2>4. /\ longer \in Seq(Chunks)
        /\ Len(longer) = Len(q.ch) + 1
        /\ longer[Len(q.ch) + 1] = chunk
        /\ \A i \in 1 .. Len(q.ch) : longer[i] = q.ch[i]
    BY <2>1, <2>2
  <2> HIDE DEF longer
  <2>5. r \in Queues /\ r.upto = q.upto /\ r.ch = longer
    BY <2>2, <2>4 DEF Queues
  <2> HIDE DEF r
  <2>6. \A i \in 1 .. Len(q.ch) + 1 : From(r, i) = From(q, i)
    <3> TAKE i \in 1 .. Len(q.ch) + 1
    <3>1. CASE i = 1
      BY <2>5, <3>1 DEF From
    <3>2. CASE i # 1
      <4>1. i - 1 \in 1 .. Len(q.ch)
        BY <2>2, <3>2
      <4> QED BY <2>4, <2>5, <3>2, <4>1 DEF From
    <3> QED BY <3>1, <3>2
  <2>7. \A i \in 1 .. Len(r.ch) : r.ch[i][1] = From(r, i)
    <3> SUFFICES ASSUME NEW i \in 1 .. Len(q.ch) + 1
                 PROVE  longer[i][1] = From(q, i)
      BY <2>4, <2>5, <2>6
    <3>1. CASE i \in 1 .. Len(q.ch)
      BY <2>2, <2>4, <3>1
    <3>2. CASE i = Len(q.ch) + 1
      BY <2>1, <2>2, <2>4, <3>2
    <3> QED BY <2>2, <3>1, <3>2
  <2>8. From(r, Len(r.ch) + 1) = t + n
    BY <2>1, <2>2, <2>4, <2>5 DEF From
  <2>9. Sound(r, t + n)
    BY <1>3, <2>2, <2>4, <2>5, <2>7, <2>8, SizesAssumption DEF Sound
  <2> QED BY <2>3, <2>9 DEF chunk
<1> QED BY <1>1, <1>2, <1>3

\* A receive moves the reader to the end of the first chunk.
LEMMA Received ==
    ASSUME NEW q, NEW t \in Nat, Sound(q, t), q.ch # <<>>
    PROVE  Sound([q EXCEPT !.ch = Tail(@), !.upto = Head(q.ch)[2]], t)
<1> DEFINE rest == Tail(q.ch)
           at == q.ch[1][2]
           r == [q EXCEPT !.ch = rest, !.upto = at]
<1>1. /\ q \in Queues /\ q.ch \in Seq(Chunks)
      /\ Len(q.ch) \in Nat \ {0} /\ Head(q.ch) = q.ch[1]
      /\ \A i \in 1 .. Len(q.ch) : q.ch[i][1] = From(q, i)
      /\ q.open => From(q, Len(q.ch) + 1) = t
      /\ Len(q.ch) <= SubChanCap
  BY DEF Sound, Queues
<1>2. /\ rest \in Seq(Chunks)
      /\ Len(rest) = Len(q.ch) - 1
      /\ \A i \in 1 .. Len(q.ch) - 1 : rest[i] = q.ch[i + 1]
  BY <1>1
<1>3. q.ch[1] \in Chunks /\ at \in Nat
  BY <1>1 DEF Chunks
<1>4. [q EXCEPT !.ch = Tail(@), !.upto = Head(q.ch)[2]] = r
  BY <1>1
<1> HIDE DEF rest
<1>5. From(q, 2) = at
  BY DEF From
<1> HIDE DEF at
<1>6. r \in Queues /\ r.open = q.open /\ r.ch = rest /\ r.upto = at
  BY <1>1, <1>2, <1>3 DEF Queues
<1> HIDE DEF r
<1>7. \A i \in 1 .. Len(q.ch) : From(r, i) = From(q, i + 1)
  <2> TAKE i \in 1 .. Len(q.ch)
  <2>1. CASE i = 1
    BY <1>5, <1>6, <2>1 DEF From
  <2>2. CASE i # 1
    <3>1. i - 1 \in 1 .. Len(q.ch) - 1 /\ (i - 1) + 1 = i /\ (i + 1) - 1 = i
      BY <1>1, <2>2
    <3>2. rest[i - 1] = q.ch[i]
      BY <1>2, <3>1
    <3> QED BY <1>1, <1>6, <2>2, <3>1, <3>2 DEF From
  <2> QED BY <2>1, <2>2
<1>8. \A i \in 1 .. Len(r.ch) : r.ch[i][1] = From(r, i)
  <2> SUFFICES ASSUME NEW i \in 1 .. Len(q.ch) - 1
               PROVE  rest[i][1] = From(r, i)
    BY <1>2, <1>6
  <2>1. i \in 1 .. Len(q.ch) /\ i + 1 \in 1 .. Len(q.ch)
    BY <1>1
  <2> QED BY <1>1, <1>2, <1>7, <2>1
<1>9. From(r, Len(r.ch) + 1) = From(q, Len(q.ch) + 1)
  BY <1>1, <1>2, <1>6, <1>7
<1>10. Sound(r, t)
  BY <1>1, <1>2, <1>6, <1>8, <1>9, SizesAssumption DEF Sound
<1> QED BY <1>4, <1>10

\* Subscribe begins at the newest byte, or as far back as it replays.
LEMMA Opened ==
    ASSUME RingTyped, NEW replay \in Int
    PROVE  Sound(Subscribed(replay), total)
<1> DEFINE n == IF replay > 0 THEN Least(replay, size) ELSE 0
<1>1. n \in Nat /\ n <= total /\ total \in Nat /\ total - n \in Nat
  BY SizesAssumption DEF RingTyped, Least
<1>2. Subscribed(replay) =
        [ch   |-> IF n > 0 THEN <<<<total - n, total>>>> ELSE <<>>,
         open |-> ~closed,
         upto |-> total - n]
  BY DEF Subscribed
<1> HIDE DEF n
<1> DEFINE q == Subscribed(replay)
<1>3. q.open \in BOOLEAN /\ q.upto = total - n
  BY <1>2 DEF RingTyped
<1>4. CASE n > 0
  <2>1. q.ch = <<<<total - n, total>>>> /\ Len(q.ch) = 1
        /\ q.ch[1] = <<total - n, total>> /\ q.ch \in Seq(Chunks)
    <3>1. <<total - n, total>> \in Chunks
      BY <1>1 DEF Chunks
    <3> QED BY <1>2, <1>4, <3>1
  <2>2. q \in Queues
    BY <1>1, <1>2, <1>3, <2>1 DEF Queues
  <2> QED BY <1>1, <1>3, <2>1, <2>2, SizesAssumption DEF Sound, From
<1>5. CASE ~(n > 0)
  <2>1. q.ch = <<>> /\ Len(q.ch) = 0 /\ q.ch \in Seq(Chunks) /\ n = 0
    BY <1>1, <1>2, <1>5
  <2>2. q \in Queues
    BY <1>1, <1>2, <1>3, <2>1 DEF Queues
  <2> QED BY <1>1, <1>3, <2>1, <2>2, SizesAssumption DEF Sound, From
<1> QED BY <1>4, <1>5

\* Who is not subscribed misses nothing.
LEMMA Absent == ASSUME NEW t \in Nat PROVE Sound(NotSubscribed, t)
BY SizesAssumption DEF Sound, Queues, From, NotSubscribed

-----------------------------------------------------------------------------
(* The queues of everybody.                                                *)

\* Subscribe keeps the queues sound.
LEMMA SubscribeSound ==
    ASSUME RingTyped, QueuesSound, NEW s \in Subs, NEW replay \in Int,
           Subscribe(s, replay), UNCHANGED total
    PROVE  QueuesSound'
BY Opened DEF QueuesSound, Subscribe

\* Receiving keeps the queues sound.
LEMMA ReceiveSound ==
    ASSUME RingTyped, QueuesSound, NEW s \in Subs, Receive(s), UNCHANGED total
    PROVE  QueuesSound'
BY Received DEF QueuesSound, Receive, RingTyped

\* So does leaving.
LEMMA UnsubscribeSound ==
    ASSUME RingTyped, QueuesSound, NEW s \in Subs, Unsubscribe(s), UNCHANGED total
    PROVE  QueuesSound'
BY Absent DEF QueuesSound, Unsubscribe, RingTyped

\* So does the close of the console.
LEMMA CloseSound ==
    ASSUME RingTyped, QueuesSound, CloseWithErr, UNCHANGED total
    PROVE  QueuesSound'
BY Detached DEF QueuesSound, CloseWithErr, RingTyped

-----------------------------------------------------------------------------
(* The invariant.                                                          *)

\* Nobody is subscribed at first.
LEMMA InitIInv == Init => IInv
<1> SUFFICES ASSUME Init PROVE IInv
  OBVIOUS
<1>1. RingTyped
  <2>1. total = 0 /\ totalIn = 0 /\ size = 0 /\ inHand = 0 /\ Least(Cap, 0) = 0
    BY SizesAssumption DEF Init, Least
  <2>2. reader = "read" /\ up \in BOOLEAN /\ closed \in BOOLEAN
    BY DEF Init
  <2> QED BY <2>1, <2>2 DEF RingTyped
<1>2. QueuesSound
  BY Absent DEF Init, QueuesSound
<1>3. HandlersTyped /\ ClosedMeansClosed
  BY DEF Init, HandlersTyped, WaitStates, Pcs, NotWaiting, ClosedMeansClosed
<1> QED BY <1>1, <1>2, <1>3 DEF IInv

\* Every step keeps the queues sound.
LEMMA NextIInv == IInv /\ [Next]_vars => IInv'
<1> SUFFICES ASSUME IInv, [Next]_vars PROVE IInv'
  OBVIOUS
<1> USE DEF IInv
<1>1. CASE Read
  <2>1. RingTyped'
    BY <1>1, SizesAssumption DEF Read, RingTyped, ringVars
  <2> QED BY <1>1, <2>1 DEF Read, ringVars, QueuesSound, HandlersTyped,
                            ClosedMeansClosed
<1>2. CASE Publish
  <2>1. RingTyped'
    BY <1>2, SizesAssumption DEF Publish, RingTyped, Least
  <2>2. QueuesSound'
    BY <1>2, Delivered DEF Publish, QueuesSound, RingTyped
  <2> QED BY <1>2, <2>1, <2>2 DEF Publish, HandlersTyped, ClosedMeansClosed
<1>3. CASE ReadFails
  <2>1. RingTyped'
    BY <1>3 DEF ReadFails, CloseWithErr, RingTyped, ringVars
  <2>2. QueuesSound'
    BY <1>3, CloseSound DEF ReadFails, ringVars
  <2> QED BY <1>3, <2>1, <2>2
          DEF ReadFails, CloseWithErr, HandlersTyped, ClosedMeansClosed
<1>4. CASE CloseTransport
  BY <1>4 DEF CloseTransport, ringVars, RingTyped, QueuesSound, HandlersTyped,
              ClosedMeansClosed
<1>5. CASE CloseFinish
  <2>1. RingTyped'
    BY <1>5 DEF CloseFinish, CloseWithErr, RingTyped, ringVars, readerVars
  <2>2. QueuesSound'
    BY <1>5, CloseSound DEF CloseFinish, ringVars
  <2> QED BY <1>5, <2>1, <2>2
          DEF CloseFinish, CloseWithErr, HandlersTyped, ClosedMeansClosed
<1>6. CASE Reset
  <2>1. RingTyped'
    BY <1>6, SizesAssumption DEF Reset, RingTyped, readerVars, Least
  <2> QED BY <1>6, <2>1 DEF Reset, readerVars, QueuesSound, HandlersTyped,
                            ClosedMeansClosed
<1>7. ASSUME NEW o \in Observers,
             Observe(o) \/ ObserverSends(o) \/ ObserverEnds(o) \/ ObserverLeaves(o)
      PROVE  IInv'
  <2>1. RingTyped' /\ UNCHANGED <<total, wait, closed>>
    BY <1>7 DEF Observe, ObserverSends, ObserverEnds, ObserverLeaves, RingTyped,
                ringVars, readerVars
  <2>2. o \in Subs
    BY DEF Subs
  <2>3. QueuesSound'
    <3>1. CASE Observe(o)
      BY <2>1, <2>2, <3>1, SubscribeSound, SizesAssumption DEF Observe
    <3>2. CASE ObserverSends(o)
      BY <2>1, <2>2, <3>2, ReceiveSound DEF ObserverSends
    <3>3. CASE ObserverEnds(o) \/ ObserverLeaves(o)
      BY <2>1, <2>2, <3>3, UnsubscribeSound DEF ObserverEnds, ObserverLeaves
    <3> QED BY <1>7, <3>1, <3>2, <3>3
  <2>4. HandlersTyped'
    BY <1>7, <2>1 DEF Observe, ObserverSends, ObserverEnds, ObserverLeaves,
                      HandlersTyped
  <2> QED BY <2>1, <2>3, <2>4 DEF ClosedMeansClosed
<1>8. ASSUME NEW w \in Waiters, Arm(w) \/ WaiterStep(w) \/ WaitTimesOut(w)
                                       \/ WaitReturns(w)
      PROVE  IInv'
  <2>1. RingTyped' /\ UNCHANGED <<total, obs, closed>>
    BY <1>8 DEF Arm, WaiterStep, WaitSubscribe, Feed, WaitEnds, Rearm,
                WaitTimesOut, WaitReturns, RingTyped, ringVars, readerVars
  <2>2. w \in Subs
    BY DEF Subs
  <2>3. /\ wait[w] \in WaitStates /\ wait[w].replay \in Int /\ wait[w].arm \in Nat
        /\ wait[w].acc \in SUBSET Int
    BY DEF HandlersTyped, WaitStates
  <2>4. QueuesSound'
    <3>1. CASE WaitSubscribe(w)
      BY <2>1, <2>2, <2>3, <3>1, SubscribeSound DEF WaitSubscribe
    <3>2. CASE Feed(w)
      BY <2>1, <2>2, <3>2, ReceiveSound DEF Feed
    <3>3. CASE WaitReturns(w)
      BY <2>1, <2>2, <3>3, UnsubscribeSound DEF WaitReturns
    <3>4. CASE Arm(w) \/ WaitEnds(w) \/ Rearm(w) \/ WaitTimesOut(w)
      BY <2>1, <3>4 DEF Arm, WaitEnds, Rearm, WaitTimesOut, QueuesSound
    <3> QED BY <1>8, <3>1, <3>2, <3>3, <3>4 DEF WaiterStep
  <2>5. \E x \in WaitStates :
           /\ wait' = [wait EXCEPT ![w] = x]
           /\ x.pc = "closed" => closed
    <3>1. CASE Arm(w)
      <4>1. PICK inc \in Replays :
               wait' = [wait EXCEPT ![w] =
                 [pc |-> "subscribe", arm |-> totalIn, replay |-> inc, acc |-> {}]]
        BY <3>1 DEF Arm
      <4>2. [pc |-> "subscribe", arm |-> totalIn, replay |-> inc, acc |-> {}]
               \in WaitStates
        BY SizesAssumption DEF WaitStates, Pcs, RingTyped
      <4> QED BY <4>1, <4>2
    <3>2. CASE WaitSubscribe(w) \/ WaitTimesOut(w)
      <4>1. PICK p \in Pcs \ {"closed"} : wait' = [wait EXCEPT ![w].pc = p]
        BY <3>2 DEF WaitSubscribe, WaitTimesOut, Pcs
      <4> DEFINE x == [wait[w] EXCEPT !.pc = p]
      <4>2. x \in WaitStates /\ x.pc = p
        BY <2>3 DEF WaitStates
      <4> QED BY <4>1, <4>2
    <3>3. CASE Feed(w)
      <4>1. PICK a \in SUBSET Int, p \in Pcs \ {"closed"} :
               wait' = [wait EXCEPT ![w].acc = a, ![w].pc = p]
        <5> DEFINE c == Head(sub[w].ch)
                   a == wait[w].acc \cup Bytes(c)
        <5>1. c \in Nat \X Nat
          <6>1. sub[w].ch \in Seq(Chunks) /\ sub[w].ch # <<>>
            BY <2>2, <3>3 DEF QueuesSound, Sound, Queues, Feed, Receive
          <6>2. c \in Chunks
            BY <6>1
          <6> QED BY <6>2 DEF Chunks
        <5>2. a \in SUBSET Int
          BY <2>3, <5>1 DEF Bytes
        <5> QED BY <3>3, <5>2 DEF Feed, Pcs
      <4> DEFINE x == [wait[w] EXCEPT !.acc = a, !.pc = p]
      <4>2. x \in WaitStates /\ x.pc = p
        BY <2>3 DEF WaitStates
      <4>3. wait' = [wait EXCEPT ![w] = x]
        BY <2>3, <4>1 DEF HandlersTyped, WaitStates
      <4> QED BY <4>2, <4>3
    <3>4. CASE WaitEnds(w)
      <4> DEFINE p == IF closed THEN "closed" ELSE "rearm"
                 x == [wait[w] EXCEPT !.pc = p]
      <4>1. x \in WaitStates /\ x.pc = p
        BY <2>3 DEF WaitStates, Pcs
      <4>2. wait' = [wait EXCEPT ![w] = x]
        BY <3>4 DEF WaitEnds
      <4>3. p = "closed" => closed
        OBVIOUS
      <4> HIDE DEF p, x
      <4> QED BY <4>1, <4>2, <4>3
    <3>5. CASE Rearm(w)
      <4> DEFINE m == Least(totalIn - wait[w].arm, Window)
                 x == [wait[w] EXCEPT !.pc = "subscribe", !.replay = m, !.acc = {}]
      <4>1. m \in Int
        BY <2>3, SizesAssumption DEF Least, RingTyped
      <4>2. wait' = [wait EXCEPT ![w].pc = "subscribe", ![w].replay = m,
                                 ![w].acc = {}]
        BY <3>5 DEF Rearm
      <4> HIDE DEF m
      <4>3. x \in WaitStates /\ x.pc = "subscribe"
        BY <2>3, <4>1 DEF WaitStates, Pcs
      <4>4. wait' = [wait EXCEPT ![w] = x]
        BY <2>3, <4>2 DEF HandlersTyped, WaitStates
      <4> QED BY <4>3, <4>4
    <3>6. CASE WaitReturns(w)
      <4>1. NotWaiting \in WaitStates /\ NotWaiting.pc # "closed"
        BY DEF NotWaiting, WaitStates, Pcs
      <4> QED BY <3>6, <4>1 DEF WaitReturns
    <3> QED BY <1>8, <3>1, <3>2, <3>3, <3>4, <3>5, <3>6 DEF WaiterStep
  <2>6. HandlersTyped' /\ ClosedMeansClosed'
    BY <2>1, <2>5 DEF HandlersTyped, ClosedMeansClosed
  <2> QED BY <2>1, <2>4, <2>6
<1>9. CASE UNCHANGED vars
  BY <1>9 DEF vars, ringVars, readerVars, RingTyped, QueuesSound, HandlersTyped,
              ClosedMeansClosed
<1> QED BY <1>1, <1>2, <1>3, <1>4, <1>5, <1>6, <1>7, <1>8, <1>9 DEF Next

-----------------------------------------------------------------------------
(* A pattern waiter.                                                       *)

Hists == [begun : BOOLEAN, armAt : Nat, inc : Nat, start : Nat, epoch : Nat,
          rearmAt : Nat, lostTo : Int, seen : SUBSET Int]

\* x waits over the queue q, with the history h; t, in and n are total, totalIn
\* and resets.
WaitSound(x, q, h, t, in, n) ==
    /\ h \in Hists
    /\ \A p \in x.acc : p > h.armAt - h.inc
    /\ x.pc # "idle" =>
         /\ h.armAt <= t /\ h.epoch <= n
         /\ in - x.arm <= t - h.armAt
         /\ h.epoch = n => in - x.arm = t - h.armAt
         /\ x.pc # "subscribe" => h.begun
         /\ h.begun => h.armAt <= h.start /\ h.start <= t
    /\ x.pc = "subscribe" =>
         \/ ~h.begun /\ x.replay = h.inc
         \/ /\ h.begun /\ h.start <= h.rearmAt /\ h.rearmAt <= t
            /\ x.replay <= h.rearmAt - h.armAt
            /\ h.epoch = n => x.replay = Least(h.rearmAt - h.armAt, Window)
    /\ x.pc = "drain" =>
         /\ q.upto >= h.armAt - h.inc
         /\ h.epoch = n =>
              \A p \in Int : h.start < p /\ p <= q.upto /\ p > h.lostTo => p \in h.seen

WaitsSound ==
    /\ resets \in Nat
    /\ DOMAIN hist = Waiters
    /\ \A w \in Waiters :
         WaitSound(wait[w], sub[w], hist[w], total, totalIn, resets)

\* Output is published and the scrollback may be reset while a waiter is where
\* it is.
LEMMA WaitsOn ==
    ASSUME NEW x \in WaitStates, NEW q, NEW h, NEW t \in Nat, NEW in \in Nat,
           NEW n \in Nat, WaitSound(x, q, h, t, in, n),
           NEW r, r.upto = q.upto,
           NEW k \in Nat
    PROVE  /\ WaitSound(x, r, h, t + k, in + k, n)
           /\ WaitSound(x, r, h, t, 0, n + 1)
<1>1. /\ h.armAt \in Nat /\ h.start \in Nat /\ h.epoch \in Nat /\ h.rearmAt \in Nat
      /\ x.arm \in Nat
  BY DEF WaitSound, Hists, WaitStates
<1>2. WaitSound(x, r, h, t + k, in + k, n)
  BY <1>1 DEF WaitSound
<1>3. WaitSound(x, r, h, t, 0, n + 1)
  BY <1>1 DEF WaitSound
<1> QED BY <1>2, <1>3

\* The history of a wait that has not begun.
LEMMA Fresh == NoHist \in Hists /\ ~NoHist.begun
BY DEF NoHist, Hists

\* Who does not wait has nothing to get wrong.
LEMMA IdleSound ==
    ASSUME NEW q, NEW t, NEW in, NEW n
    PROVE  WaitSound(NotWaiting, q, NoHist, t, in, n)
<1>1. NotWaiting.pc = "idle" /\ NotWaiting.acc = {}
  BY DEF NotWaiting
<1>2. \A p \in NotWaiting.acc : p > NoHist.armAt - NoHist.inc
  BY <1>1
<1>3. NotWaiting.pc # "subscribe" /\ NotWaiting.pc # "drain"
  BY <1>1
<1> QED BY <1>1, <1>2, <1>3, Fresh DEF WaitSound

\* Every step keeps the waits sound.
LEMMA NextWaitsSound ==
    ASSUME IInv, WaitsSound, [Next]_vars
    PROVE  WaitsSound'
<1> USE DEF IInv
<1>1. /\ total \in Nat /\ totalIn \in Nat /\ resets \in Nat /\ wait \in [Waiters -> WaitStates]
      /\ \A w \in Waiters : w \in Subs
      /\ size = Least(Cap, totalIn) /\ size \in Nat /\ size <= total
      /\ \A s \in Subs : sub[s] \in Queues
      /\ DOMAIN sub = Subs
  BY SizesAssumption DEF RingTyped, HandlersTyped, WaitsSound, Subs, Least,
                         QueuesSound, Sound
<1>2. CASE Publish
  <2>1. /\ inHand \in Nat /\ total' = total + inHand /\ totalIn' = totalIn + inHand
        /\ UNCHANGED <<wait, hist, resets>>
    BY <1>2 DEF Publish, RingTyped
  <2>2. \A s \in Subs : sub'[s].upto = sub[s].upto
    BY <1>1, <1>2 DEF Publish, Deliver, Queues
  <2> QED BY <1>1, <2>1, <2>2, WaitsOn DEF WaitsSound
<1>3. CASE Reset
  <2>1. /\ total' = total /\ totalIn' = 0 /\ resets' = resets + 1
        /\ UNCHANGED <<wait, hist, sub>>
    BY <1>3 DEF Reset
  <2> QED BY <1>1, <2>1, WaitsOn DEF WaitsSound
<1>4. CASE ReadFails \/ CloseFinish
  <2>1. UNCHANGED <<total, totalIn, resets, wait, hist>>
    BY <1>4 DEF ReadFails, CloseFinish, ringVars
  <2>2. \A s \in Subs : sub'[s].upto = sub[s].upto
    BY <1>1, <1>4 DEF ReadFails, CloseFinish, CloseWithErr, Queues
  <2>3. total + 0 = total /\ totalIn + 0 = totalIn
    BY <1>1
  <2>4. ASSUME NEW w \in Waiters
        PROVE  WaitSound(wait[w], sub'[w], hist[w], total + 0, totalIn + 0, resets)
    BY <1>1, <2>2, WaitsOn DEF WaitsSound
  <2> QED BY <1>1, <2>1, <2>3, <2>4 DEF WaitsSound
<1>5. CASE Read \/ CloseTransport
  BY <1>5 DEF Read, CloseTransport, ringVars, WaitsSound
<1>6. ASSUME NEW o \in Observers,
             Observe(o) \/ ObserverSends(o) \/ ObserverEnds(o) \/ ObserverLeaves(o)
      PROVE  WaitsSound'
  <2>1. UNCHANGED <<total, totalIn, resets, wait, hist>>
    BY <1>6 DEF Observe, ObserverSends, ObserverEnds, ObserverLeaves, ringVars
  <2>2. \A w \in Waiters : sub'[w] = sub[w]
    BY <1>1, <1>6, RolesAssumption
       DEF Observe, ObserverSends, ObserverEnds, ObserverLeaves, Subscribe, Receive,
           Unsubscribe
  <2> QED BY <2>1, <2>2 DEF WaitsSound
<1>7. ASSUME NEW w \in Waiters, Arm(w) \/ WaiterStep(w) \/ WaitTimesOut(w)
                                       \/ WaitReturns(w)
      PROVE  WaitsSound'
  <2> DEFINE x == wait[w]
             q == sub[w]
             h == hist[w]
  <2>1. /\ UNCHANGED <<total, totalIn, resets>>
        /\ DOMAIN hist' = Waiters
        /\ \A v \in Waiters \ {w} :
             wait'[v] = wait[v] /\ sub'[v] = sub[v] /\ hist'[v] = hist[v]
    BY <1>1, <1>7 DEF WaitsSound, Arm, WaiterStep, WaitSubscribe, Feed, WaitEnds, Rearm,
                WaitTimesOut, WaitReturns, ringVars, Subscribe, Receive, Unsubscribe
  <2>2. /\ x \in WaitStates /\ h \in Hists /\ q \in Queues /\ w \in DOMAIN hist
        /\ WaitSound(x, q, h, total, totalIn, resets)
    BY <1>1 DEF WaitsSound, WaitSound
  <2>3. SUFFICES WaitSound(wait'[w], sub'[w], hist'[w], total, totalIn, resets)
    BY <1>1, <2>1 DEF WaitsSound
  <2>4. /\ h.armAt \in Nat /\ h.inc \in Nat /\ h.start \in Nat /\ h.epoch \in Nat
        /\ h.rearmAt \in Nat /\ h.lostTo \in Int /\ h.seen \in SUBSET Int
        /\ h.begun \in BOOLEAN
        /\ x.arm \in Nat /\ x.replay \in Int /\ x.acc \in SUBSET Int /\ q.upto \in Nat
    BY <2>2 DEF Hists, WaitStates, Queues
  <2>5. CASE Arm(w)
    <3>1. PICK inc \in Replays :
            /\ wait' = [wait EXCEPT ![w] =
                 [pc |-> "subscribe", arm |-> totalIn, replay |-> inc, acc |-> {}]]
            /\ hist' = [hist EXCEPT ![w] =
                 [NoHist EXCEPT !.armAt = total, !.inc = inc, !.epoch = resets]]
            /\ inc \in Nat
      BY <2>5, SizesAssumption DEF Arm
    <3> DEFINE y == [pc |-> "subscribe", arm |-> totalIn, replay |-> inc, acc |-> {}]
               g == [NoHist EXCEPT !.armAt = total, !.inc = inc, !.epoch = resets]
    <3>2. /\ y.pc = "subscribe" /\ y.arm = totalIn /\ y.replay = inc /\ y.acc = {}
          /\ wait'[w] = y /\ hist'[w] = g
      BY <1>1, <2>2, <3>1
    <3>3. /\ g \in Hists /\ ~g.begun /\ g.armAt = total /\ g.inc = inc
          /\ g.epoch = resets
      BY <1>1, <3>1, Fresh DEF Hists
    <3> HIDE DEF y, g
    <3>4. /\ hist'[w] \in Hists /\ ~hist'[w].begun /\ hist'[w].armAt = total
          /\ hist'[w].inc = inc /\ hist'[w].epoch = resets
          /\ wait'[w].pc = "subscribe" /\ wait'[w].arm = totalIn
          /\ wait'[w].replay = inc /\ \A p \in wait'[w].acc : FALSE
      BY <3>2, <3>3
    <3>5. total <= total /\ resets <= resets /\ totalIn - totalIn = total - total
      BY <1>1
    <3> QED BY <1>1, <3>4, <3>5 DEF WaitSound
  <2>6. CASE WaitSubscribe(w)
    <3> DEFINE n == IF x.replay > 0 THEN Least(x.replay, size) ELSE 0
               lost == Most(h.lostTo, Most(total - Least(Cap, Window),
                                           h.start + (total - h.rearmAt)))
               g == IF h.begun THEN [h EXCEPT !.lostTo = lost]
                               ELSE [h EXCEPT !.begun = TRUE, !.start = total]
    <3>1. /\ x.pc = "subscribe" /\ wait' = [wait EXCEPT ![w].pc = "drain"]
          /\ sub'[w] = Subscribed(x.replay)
          /\ hist' = [hist EXCEPT ![w] = g]
      BY <1>1, <2>6 DEF WaitSubscribe, Subscribe
    <3>2. sub'[w].upto = total - n
      BY <3>1 DEF Subscribed
    <3>3. /\ wait'[w].pc = "drain" /\ wait'[w].arm = x.arm /\ wait'[w].acc = x.acc
          /\ hist'[w] = g
      BY <1>1, <2>2, <3>1 DEF WaitStates
    <3>4. n \in Nat /\ (x.replay >= 0 => n = Least(x.replay, size))
          /\ n <= size /\ (x.replay < 0 => n = 0) /\ (x.replay >= 0 => n <= x.replay)
      BY <1>1, <2>4 DEF Least
    <3>5. lost \in Int /\ lost >= total - Least(Cap, Window)
          /\ lost >= h.start + (total - h.rearmAt)
      BY <1>1, <2>4, SizesAssumption DEF Most, Least
    <3> HIDE DEF n, lost
    <3>6. CASE ~h.begun
      <4>1. /\ g \in Hists /\ g.begun /\ g.start = total /\ g.armAt = h.armAt
            /\ g.inc = h.inc /\ g.epoch = h.epoch /\ g.rearmAt = h.rearmAt
            /\ g.seen = h.seen /\ g.lostTo = h.lostTo
        BY <1>1, <2>2, <3>6 DEF Hists
      <4> HIDE DEF g
      <4>2. /\ x.replay = h.inc /\ h.armAt <= total /\ h.epoch <= resets
            /\ totalIn - x.arm <= total - h.armAt
            /\ h.epoch = resets => totalIn - x.arm = total - h.armAt
            /\ \A p \in x.acc : p > h.armAt - h.inc
        BY <2>2, <3>1, <3>6 DEF WaitSound
      <4>3. total - n >= h.armAt - h.inc
        BY <1>1, <2>4, <3>4, <4>2
      <4>4. \A p \in Int : ~(total < p /\ p <= total - n)
        BY <1>1, <3>4
      <4> QED BY <1>1, <3>2, <3>3, <4>1, <4>2, <4>3, <4>4 DEF WaitSound
    <3>7. CASE h.begun
      <4>1. /\ g \in Hists /\ g.begun /\ g.start = h.start /\ g.armAt = h.armAt
            /\ g.inc = h.inc /\ g.epoch = h.epoch /\ g.rearmAt = h.rearmAt
            /\ g.seen = h.seen /\ g.lostTo = lost
        BY <1>1, <2>2, <3>5, <3>7 DEF Hists
      <4> HIDE DEF g
      <4>2. /\ h.armAt <= total /\ h.epoch <= resets
            /\ totalIn - x.arm <= total - h.armAt
            /\ h.epoch = resets => totalIn - x.arm = total - h.armAt
            /\ \A p \in x.acc : p > h.armAt - h.inc
            /\ h.armAt <= h.start /\ h.start <= total
            /\ h.start <= h.rearmAt /\ h.rearmAt <= total
            /\ x.replay <= h.rearmAt - h.armAt
            /\ h.epoch = resets => x.replay = Least(h.rearmAt - h.armAt, Window)
        BY <2>2, <3>1, <3>7 DEF WaitSound
      <4>3. total - n >= h.armAt
        BY <1>1, <2>4, <3>4, <4>2
      <4>4. h.epoch = resets => total - n <= lost
        <5>1. SUFFICES ASSUME h.epoch = resets PROVE total - n <= lost
          OBVIOUS
        <5>2. totalIn >= h.rearmAt - h.armAt
          BY <1>1, <2>4, <4>2, <5>1
        <5>3. /\ n = Least(Least(h.rearmAt - h.armAt, Window), Least(Cap, totalIn))
          BY <1>1, <2>4, <3>4, <4>2, <5>1, SizesAssumption DEF Least
        <5>4. n >= Least(Cap, Window) \/ n >= h.rearmAt - h.armAt
          BY <1>1, <2>4, <5>2, <5>3, SizesAssumption DEF Least
        <5>5. CASE n >= Least(Cap, Window)
          BY <1>1, <3>4, <3>5, <5>5, SizesAssumption DEF Least
        <5>6. CASE n >= h.rearmAt - h.armAt
          BY <1>1, <2>4, <3>4, <3>5, <4>2, <5>6
        <5> QED BY <5>4, <5>5, <5>6
      <4>5. h.epoch = resets => \A p \in Int : ~(p <= total - n /\ p > lost)
        BY <1>1, <3>4, <3>5, <4>4
      <4>6. total - n >= h.armAt - h.inc
        BY <1>1, <2>4, <3>4, <4>3
      <4> QED BY <1>1, <3>2, <3>3, <4>1, <4>2, <4>5, <4>6 DEF WaitSound
    <3> QED BY <3>6, <3>7
  <2>7. CASE Feed(w)
    <3> DEFINE c == Head(q.ch)
               all == x.acc \cup Bytes(c)
               pc == IF {Mark, Mark + 1} \subseteq all THEN "matched" ELSE "drain"
    <3>1. /\ x.pc = "drain" /\ q.ch # <<>>
          /\ sub' = [sub EXCEPT ![w].ch = Tail(@), ![w].upto = c[2]]
          /\ wait' = [wait EXCEPT ![w].acc = all, ![w].pc = pc]
          /\ hist' = [hist EXCEPT ![w].seen = @ \cup Bytes(c)]
      BY <2>7 DEF Feed, Receive
    <3>2. c \in Nat \X Nat /\ c[1] = q.upto /\ c[1] <= c[2]
      <4>1. /\ q.ch \in Seq(Chunks) /\ 1 \in 1 .. Len(q.ch) /\ c = q.ch[1]
        BY <2>2, <3>1 DEF Queues
      <4>2. q.ch[1][1] = q.upto
        BY <1>1, <4>1 DEF QueuesSound, Sound, From
      <4>3. c \in Chunks
        BY <4>1
      <4> QED BY <4>1, <4>2, <4>3 DEF Chunks
    <3>3. Bytes(c) = q.upto + 1 .. c[2] /\ Bytes(c) \in SUBSET Int
      BY <2>4, <3>2 DEF Bytes
    <3> DEFINE g == [h EXCEPT !.seen = @ \cup Bytes(c)]
    <3>4. /\ g \in Hists /\ g.seen = h.seen \cup Bytes(c)
          /\ g.start = h.start /\ g.armAt = h.armAt /\ g.begun = h.begun
          /\ g.inc = h.inc /\ g.epoch = h.epoch /\ g.rearmAt = h.rearmAt
          /\ g.lostTo = h.lostTo
      BY <2>2, <2>4, <3>3 DEF Hists
    <3>5. sub'[w].upto = c[2] /\ hist'[w] = g
      BY <1>1, <2>2, <3>1 DEF Queues
    <3> HIDE DEF c
    <3>6. pc \in {"matched", "drain"}
      OBVIOUS
    <3> HIDE DEF all, pc
    <3>7. wait'[w].pc = pc /\ wait'[w].arm = x.arm /\ wait'[w].acc = all
      BY <1>1, <2>2, <3>1 DEF WaitStates
    <3> HIDE DEF g
    <3>8. /\ h.armAt <= total /\ h.epoch <= resets
          /\ totalIn - x.arm <= total - h.armAt
          /\ h.epoch = resets => totalIn - x.arm = total - h.armAt
          /\ \A p \in x.acc : p > h.armAt - h.inc
          /\ h.begun /\ h.armAt <= h.start /\ h.start <= total
          /\ q.upto >= h.armAt - h.inc
          /\ h.epoch = resets =>
               \A p \in Int : h.start < p /\ p <= q.upto /\ p > h.lostTo => p \in h.seen
      BY <2>2, <3>1 DEF WaitSound
    <3>9. \A p \in all : p > h.armAt - h.inc
      BY <2>4, <3>2, <3>3, <3>8 DEF all
    <3>10. c[2] >= h.armAt - h.inc
      BY <2>4, <3>2, <3>8
    <3>11. h.epoch = resets =>
             \A p \in Int : h.start < p /\ p <= c[2] /\ p > h.lostTo => p \in g.seen
      BY <2>4, <3>2, <3>3, <3>4, <3>8
    <3> QED BY <3>4, <3>5, <3>6, <3>7, <3>8, <3>9, <3>10, <3>11 DEF WaitSound
  <2>8. CASE WaitEnds(w) \/ WaitTimesOut(w)
    <3>1. PICK pc \in {"closed", "rearm", "timeout"} :
            wait' = [wait EXCEPT ![w].pc = pc]
      BY <2>8 DEF WaitEnds, WaitTimesOut
    <3>2. /\ wait'[w].pc = pc /\ wait'[w].arm = x.arm /\ wait'[w].acc = x.acc
          /\ hist' = hist /\ x.pc \in {"drain", "rearm"}
      BY <1>1, <2>2, <2>8, <3>1 DEF WaitStates, WaitEnds, WaitTimesOut
    <3> QED BY <2>2, <3>2 DEF WaitSound
  <2>9. CASE Rearm(w)
    <3> DEFINE m == Least(totalIn - x.arm, Window)
               g == [h EXCEPT !.rearmAt = total]
    <3>1. /\ x.pc = "rearm" /\ wait' = [wait EXCEPT ![w].pc = "subscribe",
                                        ![w].replay = m, ![w].acc = {}]
          /\ hist' = [hist EXCEPT ![w] = g]
      BY <2>9 DEF Rearm
    <3>2. /\ g \in Hists /\ g.rearmAt = total /\ g.seen = h.seen
          /\ g.start = h.start /\ g.armAt = h.armAt /\ g.begun = h.begun
          /\ g.inc = h.inc /\ g.epoch = h.epoch /\ g.lostTo = h.lostTo
      BY <1>1, <2>2 DEF Hists
    <3>3. m \in Int /\ m <= totalIn - x.arm
      BY <1>1, <2>4, SizesAssumption DEF Least
    <3>4. hist'[w] = g
      BY <2>2, <3>1
    <3> HIDE DEF g
    <3>5. /\ wait'[w].pc = "subscribe" /\ wait'[w].arm = x.arm /\ wait'[w].acc = {}
          /\ wait'[w].replay = m
      <4> HIDE DEF m
      <4> QED BY <1>1, <2>2, <3>1 DEF WaitStates
    <3>6. /\ h.armAt <= total /\ h.epoch <= resets
          /\ totalIn - x.arm <= total - h.armAt
          /\ h.epoch = resets => totalIn - x.arm = total - h.armAt
          /\ h.begun /\ h.armAt <= h.start /\ h.start <= total
      BY <2>2, <3>1 DEF WaitSound
    <3>7. m <= total - h.armAt
      BY <1>1, <2>4, <3>3, <3>6
    <3>8. h.epoch = resets => m = Least(total - h.armAt, Window)
      BY <3>6
    <3> HIDE DEF m
    <3>9. /\ \A p \in wait'[w].acc : p > hist'[w].armAt - hist'[w].inc
          /\ wait'[w].pc = "subscribe"
      BY <3>5
    <3>10. /\ hist'[w] \in Hists
           /\ hist'[w].armAt <= total /\ hist'[w].epoch <= resets
           /\ totalIn - wait'[w].arm <= total - hist'[w].armAt
           /\ hist'[w].epoch = resets
                => totalIn - wait'[w].arm = total - hist'[w].armAt
           /\ hist'[w].begun /\ hist'[w].armAt <= hist'[w].start
           /\ hist'[w].start <= total
      BY <3>2, <3>4, <3>5, <3>6
    <3>11. /\ hist'[w].start <= hist'[w].rearmAt /\ hist'[w].rearmAt <= total
           /\ wait'[w].replay <= hist'[w].rearmAt - hist'[w].armAt
           /\ hist'[w].epoch = resets
                => wait'[w].replay = Least(hist'[w].rearmAt - hist'[w].armAt, Window)
      BY <1>1, <3>2, <3>4, <3>5, <3>6, <3>7, <3>8
    <3> QED BY <3>9, <3>10, <3>11 DEF WaitSound
  <2>10. CASE WaitReturns(w)
    <3>1. /\ wait'[w] = NotWaiting /\ hist'[w] = NoHist
      BY <1>1, <2>2, <2>10 DEF WaitReturns
    <3> QED BY <3>1, IdleSound
  <2> QED BY <1>7, <2>5, <2>6, <2>7, <2>8, <2>9, <2>10 DEF WaiterStep
<1>8. CASE UNCHANGED vars
  BY <1>8 DEF vars, ringVars, WaitsSound
<1> QED BY <1>2, <1>3, <1>4, <1>5, <1>6, <1>7, <1>8 DEF Next

-----------------------------------------------------------------------------
(* The theorems.                                                           *)

\* A sound queue is what FeedHasNoGap asks for.
LEMMA SoundIsJoined == IInv => FeedHasNoGap
<1> SUFFICES ASSUME IInv PROVE FeedHasNoGap
  OBVIOUS
<1>1. \A s \in Subs : /\ Sound(sub[s], total)
                      /\ sub[s].ch \in Seq(Chunks)
                      /\ DOMAIN sub[s].ch = 1 .. Len(sub[s].ch)
  BY DEF IInv, QueuesSound, Sound, Queues
<1>2. TypeOK
  BY <1>1 DEF IInv, RingTyped, QueuesSound, HandlersTyped, WaitStates, Pcs,
              TypeOK, Sound, Queues
<1> QED BY <1>1, <1>2 DEF FeedHasNoGap, Sound, From

\* Replay and live output join with no gap and no duplicate, across a reset of
\* the scrollback and eviction (Subscribe, publish), for every subscriber.
THEOREM FeedHasNoGapHolds == Spec => []FeedHasNoGap
<1>1. IInv /\ [Next]_vars => IInv'
  BY NextIInv
<1> QED BY <1>1, InitIInv, SoundIsJoined, PTL DEF Spec

\* A pattern waiter detached for slowness is not told that the console closed
\* (WaitForPattern, issue #28).
THEOREM ClosedMeansClosedHolds == Spec => []ClosedMeansClosed
<1>1. IInv => ClosedMeansClosed
  BY DEF IInv
<1>2. IInv /\ [Next]_vars => IInv'
  BY NextIInv
<1> QED BY <1>1, <1>2, InitIInv, PTL DEF Spec

\* Nobody waits at first.
LEMMA InitWaitsSound == Init => WaitsSound
<1> SUFFICES ASSUME Init PROVE WaitsSound
  OBVIOUS
<1>1. /\ resets = 0 /\ DOMAIN hist = Waiters
      /\ \A w \in Waiters : wait[w] = NotWaiting /\ hist[w] = NoHist
  BY DEF Init
<1> QED BY <1>1, IdleSound DEF WaitsSound

\* A sound wait is what ReplayIsExact asks for.
LEMMA SoundIsExact == IInv /\ WaitsSound => ReplayIsExact
<1> SUFFICES ASSUME IInv, WaitsSound PROVE ReplayIsExact
  OBVIOUS
<1>1. NoPreArmHistory
  BY DEF WaitsSound, WaitSound, NoPreArmHistory
<1>2. ASSUME NEW w \in Waiters, CaughtUp(w), hist[w].epoch = resets
      PROVE  Owed(w) \subseteq hist[w].seen
  <2>1. sub[w].upto = total
    <3>1. w \in Subs /\ Sound(sub[w], total) /\ sub[w].open /\ Len(sub[w].ch) = 0
      BY <1>2 DEF IInv, QueuesSound, Subs, CaughtUp
    <3> QED BY <3>1 DEF Sound, From
  <2>2. \A p \in Int : hist[w].start < p /\ p <= sub[w].upto /\ p > hist[w].lostTo
                         => p \in hist[w].seen
    BY <1>2 DEF WaitsSound, WaitSound, CaughtUp
  <2>3. hist[w].start \in Nat /\ total \in Nat
    BY DEF WaitsSound, WaitSound, Hists, IInv, RingTyped
  <2> QED BY <2>1, <2>2, <2>3 DEF Owed
<1>3. NothingMissed
  BY <1>2 DEF NothingMissed
<1> QED BY <1>1, <1>3 DEF ReplayIsExact

\* However often a wait is detached and re-subscribes, and unless the scrollback
\* is reset under it, it scans nothing older than it asked for and skips nothing
\* that is still to be had (the two bounds on the replay of WaitForPattern).
THEOREM ReplayIsExactHolds == Spec => []ReplayIsExact
<1>1. (IInv /\ WaitsSound) /\ [Next]_vars => (IInv /\ WaitsSound)'
  BY NextIInv, NextWaitsSound
<1> QED BY <1>1, InitIInv, InitWaitsSound, SoundIsExact, PTL DEF Spec

-----------------------------------------------------------------------------
(***************************************************************************)
(* The scanner of a pattern waiter overlooks nothing, for any sizes with   *)
(* the overlap within half of the window, and any chunks.                  *)
(***************************************************************************)

\* What is kept has been scanned, and is all there was or reaches back as far as
\* the overlap: a match that is not complete yet begins within it.
Covered ==
    /\ acc <= fed - from
    /\ ~found => /\ scanned = acc
                 /\ acc = fed - from \/ acc >= Overlap

ScanIInv == Scanner!FindsAll /\ Covered

\* What the scanner keeps fits its window and reaches back over the overlap.
LEMMA KeepEnough ==
    ASSUME Scanner!Sizes, NEW len \in Nat
    PROVE  /\ Scanner!Keep(len) \in Nat /\ Scanner!Keep(len) <= len
           /\ Scanner!Keep(len) <= Window
           /\ Scanner!Keep(len) = len \/ Scanner!Keep(len) >= Overlap
<1>1. Window \div 2 \in Nat /\ Window \div 2 <= Window /\ Window \div 2 >= Overlap
  BY DEF Scanner!Sizes
<1> QED
  BY <1>1 DEF Scanner!Keep, Scanner!Sizes

\* A scanner that was fed nothing.
LEMMA InitScanIInv == Scanner!Sizes /\ Scanner!Init => ScanIInv
<1> SUFFICES ASSUME Scanner!Sizes, Scanner!Init PROVE ScanIInv
  OBVIOUS
<1>1. match.first \in Nat /\ match.last \in Nat /\ match.first < match.last
  BY DEF Scanner!Init, Scanner!Matches
<1>2. from \in Nat /\ from <= MaxOutput /\ fed = from /\ acc = 0 /\ scanned = 0 /\ ~found
  BY DEF Scanner!Sizes, Scanner!Init
<1>3. match \in Scanner!Matches /\ found \in BOOLEAN
  BY DEF Scanner!Init
<1> QED
  BY <1>1, <1>2, <1>3
     DEF ScanIInv, Scanner!FindsAll, Scanner!Bounded, Scanner!NothingOverlooked, Covered, Scanner!Sizes

\* A chunk: the scan reached back to the beginning, or as far before the chunk as
\* the overlap; what was complete before the chunk had been found.
LEMMA FeedScanIInv ==
    ASSUME Scanner!Sizes, ScanIInv, NEW n \in Nat, Scanner!Feed(n)
    PROVE  /\ ScanIInv'
           /\ from' = from /\ fed' = fed + n /\ fed + n <= MaxOutput
           /\ found' <=> (from <= match.first /\ match.last <= fed + n)
<1> DEFINE len == acc + n
           end == fed + n
<1>1. /\ match \in Scanner!Matches /\ acc \in Nat /\ fed \in Nat /\ from \in Nat /\ from <= fed
      /\ ~found /\ scanned = acc /\ acc <= fed - from /\ end <= MaxOutput
      /\ acc = fed - from \/ acc >= Overlap
  BY DEF Scanner!Sizes, ScanIInv, Scanner!FindsAll, Scanner!Bounded, Covered, Scanner!Feed
<1>2. /\ match.first \in Nat /\ match.last \in Nat
      /\ match.first < match.last /\ match.last - match.first <= Overlap + 1
  BY <1>1 DEF Scanner!Matches
<1>3. /\ Scanner!Keep(len) \in Nat /\ Scanner!Keep(len) <= len /\ Scanner!Keep(len) <= Window
      /\ Scanner!Keep(len) = len \/ Scanner!Keep(len) >= Overlap
  BY <1>1, KeepEnough
<1>4. match' = match /\ from' = from /\ fed' = end
  BY DEF Scanner!Feed
<1>5. CASE end - (len - Scanner!ScanStart) <= match.first /\ match.last <= end
  <2>1. found' = TRUE /\ acc' = len /\ scanned' = acc
    BY <1>1, <1>5 DEF Scanner!Feed
  <2>2. from <= match.first
    BY <1>1, <1>2, <1>5 DEF Scanner!ScanStart, Scanner!Sizes
  <2>3. ScanIInv'
    BY <1>1, <1>4, <2>1 DEF ScanIInv, Scanner!FindsAll, Scanner!Bounded,
                            Scanner!NothingOverlooked, Covered, Scanner!Sizes
  <2> QED
    BY <1>1, <1>4, <1>5, <2>1, <2>2, <2>3
<1>6. CASE ~(end - (len - Scanner!ScanStart) <= match.first /\ match.last <= end)
  <2>1. found' = FALSE /\ acc' = Scanner!Keep(len) /\ scanned' = Scanner!Keep(len)
    BY <1>6 DEF Scanner!Feed, Scanner!ScannedThen
  <2>2. ~(from <= match.first /\ match.last <= end)
    <3>1. ~(from <= match.first /\ match.last <= fed)
      BY <1>1 DEF ScanIInv, Scanner!FindsAll, Scanner!NothingOverlooked
    <3> QED
      BY <1>1, <1>2, <1>6, <3>1 DEF Scanner!ScanStart, Scanner!Sizes
  <2>3. PICK k \in Nat : /\ k <= len /\ k <= Window
                         /\ k = len \/ k >= Overlap
                         /\ acc' = k /\ scanned' = k
    BY <1>3, <2>1
  <2>4. Covered'
    BY <1>1, <1>4, <2>3 DEF Covered, Scanner!Sizes
  <2>5. Scanner!NothingOverlooked'
    BY <1>4, <2>2 DEF Scanner!NothingOverlooked
  <2>6. Scanner!Bounded'
    <3>1. fed' \in from' .. MaxOutput /\ from' \in 0 .. MaxOutput
      BY <1>1, <1>4 DEF Scanner!Sizes
    <3> QED
      BY <1>1, <1>4, <2>1, <2>3, <3>1 DEF Scanner!Bounded
  <2> QED
    BY <1>1, <1>4, <2>1, <2>2, <2>4, <2>5, <2>6 DEF ScanIInv, Scanner!FindsAll
<1> QED
  BY <1>5, <1>6

\* A scanner that was reset.
LEMMA ResetScanIInv ==
    ASSUME Scanner!Sizes, ScanIInv, NEW p \in 0 .. MaxOutput, Scanner!ResetScanner(p)
    PROVE  ScanIInv'
<1>1. /\ match' = match /\ from' = p /\ fed' = p /\ acc' = 0 /\ scanned' = 0
      /\ ~found /\ found' = found /\ p \in Nat /\ p <= MaxOutput
  BY DEF Scanner!Sizes, Scanner!ResetScanner
<1>2. match \in Scanner!Matches /\ found \in BOOLEAN
  BY DEF ScanIInv, Scanner!FindsAll, Scanner!Bounded
<1>3. match.first \in Nat /\ match.last \in Nat /\ match.first < match.last
  BY <1>2 DEF Scanner!Matches
<1> QED
  BY <1>1, <1>2, <1>3
     DEF ScanIInv, Scanner!FindsAll, Scanner!Bounded, Scanner!NothingOverlooked, Covered, Scanner!Sizes

\* A scanner that rests.
LEMMA SameScanIInv == ScanIInv /\ UNCHANGED scanVars => ScanIInv'
BY DEF scanVars, ScanIInv, Scanner!FindsAll, Scanner!Bounded, Scanner!NothingOverlooked,
       Scanner!Matches, Covered

\* Every step of a scanner keeps its invariant.
LEMMA NextScanIInv == Scanner!Sizes /\ ScanIInv /\ [Scanner!Next]_(Scanner!vars) => ScanIInv'
<1> SUFFICES ASSUME Scanner!Sizes, ScanIInv, [Scanner!Next]_(Scanner!vars) PROVE ScanIInv'
  OBVIOUS
<1>1. CASE UNCHANGED Scanner!vars
  BY <1>1, SameScanIInv DEF Scanner!vars, scanVars
<1>2. ASSUME NEW n \in 1 .. MaxOutput, Scanner!Feed(n)
      PROVE  ScanIInv'
  <2>1. n \in Nat
    BY DEF Scanner!Sizes
  <2> QED
    BY <1>2, <2>1, FeedScanIInv
<1> QED
  BY <1>1, <1>2, ResetScanIInv DEF Scanner!Next

\* The incremental scan over a bounded window finds what a search of everything
\* would, wherever the match is (patternScanner, maxPatternWindow,
\* patternScanOverlap).
THEOREM FindsAllHolds == ASSUME Scanner!Sizes PROVE Scanner!Spec => []Scanner!FindsAll
<1>1. ScanIInv => Scanner!FindsAll
  BY DEF ScanIInv
<1> QED
  BY <1>1, InitScanIInv, NextScanIInv, PTL DEF Scanner!Spec

-----------------------------------------------------------------------------
(***************************************************************************)
(* A pattern waiter over its scanner.                                      *)
(***************************************************************************)

\* A waiter with its scanner is a waiter.
LEMMA PatternStep == [PatternNext]_<<vars, scanVars>> => [Next]_vars
BY DEF PatternNext, Next, WaiterStep, SubscribeAndScan, FeedAndScan, ReturnAndForget

\* What Console promises it promises of PatternWait: the scanner is in nobody's way.
THEOREM PatternIsConsole == PatternSpec => Spec
<1>1. PatternInit => Init
  BY DEF PatternInit
<1> QED
  BY <1>1, PatternStep, PTL DEF PatternSpec, Spec

\* The scanner has been fed what the subscription has delivered since the reset.
Fed(w) ==
    /\ wait[w].pc = "matched" <=> found
    /\ wait[w].pc = "subscribe" => wait[w].acc = {}
    /\ wait[w].pc = "drain" => /\ fed = sub[w].upto
                               /\ wait[w].acc = from + 1 .. fed

ScanInStep ==
    /\ match = [first |-> Mark - 1, last |-> Mark + 1]
    /\ total + inHand <= MaxOutput
    /\ \A w \in Waiters : Fed(w)

PatternIInv == IInv /\ ScanIInv /\ ScanInStep

\* The wait and its scanner begin together.
LEMMA InitPatternIInv == PatternInit => PatternIInv
<1> SUFFICES ASSUME PatternInit PROVE PatternIInv
  OBVIOUS
<1>1. IInv
  BY InitIInv DEF PatternInit
<1>2. ScanIInv
  <2>1. Mark \in Nat \ {0} /\ Mark + 1 <= MaxOutput /\ MaxOutput \in Nat /\ Overlap >= 1 /\ Overlap \in Nat
    BY SizesAssumption, ScannerAssumption DEF Scanner!Sizes
  <2>2. [first |-> Mark - 1, last |-> Mark + 1] \in Scanner!Matches
    BY <2>1 DEF Scanner!Matches
  <2>3. Scanner!Init
    BY <2>1, <2>2 DEF PatternInit, Scanner!Init
  <2> QED
    BY <2>3, InitScanIInv, ScannerAssumption
<1>3. ScanInStep
  BY SizesAssumption DEF ScanInStep, Fed, PatternInit, Init, NotWaiting
<1> QED
  BY <1>1, <1>2, <1>3 DEF PatternIInv

\* Every step of the console and the scanner is one the scanner allows.
LEMMA NextPatternIInv == PatternIInv /\ [PatternNext]_<<vars, scanVars>> => PatternIInv'
<1> SUFFICES ASSUME PatternIInv, [PatternNext]_<<vars, scanVars>> PROVE PatternIInv'
  OBVIOUS
<1> USE DEF PatternIInv
<1>1. IInv'
  BY PatternStep, NextIInv
<1>2. PICK v \in Waiters : Waiters = {v}
  BY ScannerAssumption
<1>3. /\ total \in Nat /\ inHand \in Nat /\ size \in Nat /\ size <= total
      /\ v \in Subs /\ Sound(sub[v], total) /\ wait \in [Waiters -> WaitStates]
      /\ v \in DOMAIN sub /\ RingTyped
  BY SizesAssumption, <1>2 DEF IInv, RingTyped, QueuesSound, HandlersTyped, Subs, Least
<1>4. Fed(v) /\ match = [first |-> Mark - 1, last |-> Mark + 1] /\ total + inHand <= MaxOutput
      /\ MaxOutput \in Nat /\ Mark \in Nat \ {0} /\ Scanner!Sizes
  BY <1>2, SizesAssumption, ScannerAssumption DEF ScanInStep
<1>5. SUFFICES ScanIInv' /\ match' = match /\ total' + inHand' <= MaxOutput /\ Fed(v)'
  BY <1>1, <1>2, <1>4 DEF ScanInStep
<1>6. CASE UNCHANGED <<vars, scanVars>>
  BY <1>4, <1>6, SameScanIInv DEF vars, ringVars, readerVars, scanVars, Fed
<1>7. CASE UNCHANGED scanVars /\ UNCHANGED <<wait>> /\
           (Read \/ Publish \/ ReadFails \/ CloseTransport \/ CloseFinish \/ Reset)
  <2>1. ScanIInv' /\ match' = match
    BY <1>7, SameScanIInv DEF scanVars
  <2>2. total' + inHand' <= MaxOutput
    BY <1>3, <1>4, <1>7, SizesAssumption DEF Read, Publish, ReadFails, CloseTransport, CloseFinish,
       Reset, ringVars, readerVars
  <2>3. sub'[v].upto = sub[v].upto
    BY <1>3, <1>7 DEF Read, Publish, ReadFails, CloseTransport, CloseFinish, Reset, CloseWithErr,
       Deliver, Sound, Queues
  <2> QED
    BY <1>4, <1>7, <2>1, <2>2, <2>3 DEF Fed, scanVars
<1>8. ASSUME NEW o \in Observers, UNCHANGED scanVars,
             Observe(o) \/ ObserverSends(o) \/ ObserverEnds(o) \/ ObserverLeaves(o)
      PROVE  ScanIInv' /\ match' = match /\ total' + inHand' <= MaxOutput /\ Fed(v)'
  <2>1. ScanIInv' /\ match' = match
    BY <1>8, SameScanIInv DEF scanVars
  <2>2. o # v /\ UNCHANGED <<total, inHand, wait>>
    BY <1>2, <1>8, RolesAssumption
       DEF Observe, ObserverSends, ObserverEnds, ObserverLeaves, ringVars, readerVars
  <2>3. sub'[v] = sub[v]
    BY <1>3, <1>8, <2>2 DEF Observe, ObserverSends, ObserverEnds, ObserverLeaves, Subscribe,
       Receive, Unsubscribe
  <2> QED
    BY <1>4, <1>8, <2>1, <2>2, <2>3 DEF Fed, scanVars
<1>9. CASE UNCHANGED scanVars /\ (Arm(v) \/ WaitEnds(v) \/ Rearm(v) \/ WaitTimesOut(v))
  <2>1. ScanIInv' /\ match' = match
    BY <1>9, SameScanIInv DEF scanVars
  <2>2. UNCHANGED <<total, inHand, sub>>
    BY <1>9 DEF Arm, WaitEnds, Rearm, WaitTimesOut, ringVars, readerVars
  <2>3. /\ wait[v].pc # "matched"
        /\ \/ wait'[v].pc = "subscribe" /\ wait'[v].acc = {}
           \/ wait'[v].pc \in {"closed", "rearm", "timeout"}
    <3>1. CASE Arm(v)
      BY <1>3, <3>1 DEF Arm
    <3>2. CASE Rearm(v)
      <4>1. PICK m : wait' = [wait EXCEPT ![v].pc = "subscribe", ![v].replay = m, ![v].acc = {}]
        BY <3>2 DEF Rearm
      <4> QED
        BY <1>3, <3>2, <4>1 DEF Rearm, WaitStates
    <3>3. CASE WaitEnds(v) \/ WaitTimesOut(v)
      <4>1. PICK at \in {"closed", "rearm", "timeout"} : wait' = [wait EXCEPT ![v].pc = at]
        BY <3>3 DEF WaitEnds, WaitTimesOut
      <4> QED
        BY <1>3, <3>3, <4>1 DEF WaitEnds, WaitTimesOut, WaitStates
    <3> QED
      BY <1>9, <3>1, <3>2, <3>3
  <2> QED
    BY <1>4, <1>9, <2>1, <2>2, <2>3 DEF Fed, scanVars
<1>10. CASE SubscribeAndScan(v)
  <2>1. /\ wait[v].pc = "subscribe" /\ wait'[v].pc = "drain" /\ wait'[v].acc = wait[v].acc
        /\ sub'[v] = Subscribed(wait[v].replay)
        /\ UNCHANGED <<total, inHand>>
    BY <1>3, <1>10 DEF SubscribeAndScan, WaitSubscribe, Subscribe, ringVars, readerVars, WaitStates
  <2>2. sub'[v].upto \in 0 .. MaxOutput
    <3>1. wait[v].replay \in Int
      BY <1>2, <1>3 DEF WaitStates
    <3>2. sub'[v].upto = total - (IF wait[v].replay > 0 THEN Least(wait[v].replay, size) ELSE 0)
      BY <2>1 DEF Subscribed
    <3> QED
      BY <1>3, <1>4, <3>1, <3>2 DEF Least
  <2>3. PICK p \in 0 .. MaxOutput : p = sub'[v].upto /\ Scanner!ResetScanner(p)
    BY <1>10, <2>2 DEF SubscribeAndScan
  <2>4. ScanIInv'
    BY <1>4, <2>3, ResetScanIInv
  <2>5. /\ match' = match /\ from' = p /\ fed' = p /\ ~found /\ found' = found
    BY <2>3 DEF Scanner!ResetScanner
  <2>6. wait'[v].acc = from' + 1 .. fed'
    <3>1. wait'[v].acc = {}
      BY <1>4, <2>1 DEF Fed
    <3>2. p \in Int /\ p + 1 .. p = {}
      BY <1>4
    <3> QED
      BY <2>5, <3>1, <3>2
  <2> QED
    BY <1>3, <1>4, <2>1, <2>3, <2>4, <2>5, <2>6 DEF Fed
<1>11. CASE FeedAndScan(v)
  <2> DEFINE c == Head(sub[v].ch)
             all == wait[v].acc \cup Bytes(c)
  <2>1. /\ wait[v].pc = "drain" /\ sub[v].ch # <<>>
        /\ wait' = [wait EXCEPT ![v].acc = all,
                                ![v].pc = IF {Mark, Mark + 1} \subseteq all
                                            THEN "matched" ELSE "drain"]
        /\ sub' = [sub EXCEPT ![v].ch = Tail(@), ![v].upto = c[2]]
        /\ UNCHANGED <<total, inHand>>
        /\ Scanner!Feed(Cardinality(Bytes(c)))
    BY <1>11 DEF FeedAndScan, Feed, Receive, ringVars, readerVars
  <2>2. sub[v] \in Queues /\ c \in Chunks /\ c[1] = sub[v].upto
    <3>1. sub[v] \in Queues /\ sub[v].ch \in Seq(Chunks) /\ 1 \in 1 .. Len(sub[v].ch)
          /\ c = sub[v].ch[1]
      BY <1>3, <2>1 DEF Sound, Queues
    <3>2. sub[v].ch[1][1] = sub[v].upto
      BY <1>3, <3>1 DEF Sound, From
    <3>3. sub[v].ch[1] \in Chunks
      BY <3>1
    <3> QED
      BY <3>1, <3>2, <3>3
  <2>3. PICK lo \in Nat, hi \in Nat : lo = c[1] /\ hi = c[2] /\ lo <= hi
    BY <2>2 DEF Chunks
  <2>4. fed = lo /\ wait[v].acc = from + 1 .. lo /\ ~found
    BY <1>4, <2>1, <2>2, <2>3 DEF Fed
  <2>5. Bytes(c) = lo + 1 .. hi
    BY <2>3 DEF Bytes
  <2>6. Cardinality(Bytes(c)) = hi - lo
    <3>1. lo + 1 \in Int /\ hi \in Int
      BY <2>3
    <3>2. Cardinality(lo + 1 .. hi) = IF lo + 1 > hi THEN 0 ELSE hi - (lo + 1) + 1
      BY <3>1, FS_Interval
    <3> QED
      BY <2>3, <2>5, <3>2
  <2>7. from \in Nat /\ from <= lo
    BY <1>4, <2>3, <2>4 DEF ScanIInv, Scanner!FindsAll, Scanner!Bounded
  <2>8. all = from + 1 .. hi
    <3>1. from + 1 .. hi = (from + 1 .. lo) \cup (lo + 1 .. hi)
      BY <2>3, <2>7
    <3> QED
      BY <2>4, <2>5, <3>1
  <2>9. PICK n \in Nat : n = hi - lo /\ Scanner!Feed(n)
    BY <2>1, <2>3, <2>6
  <2>10. /\ ScanIInv' /\ match' = match
         /\ from' = from /\ fed' = hi
         /\ found' <=> (from <= match.first /\ match.last <= hi)
    <3>1. /\ ScanIInv'
          /\ from' = from /\ fed' = fed + n
          /\ found' <=> (from <= match.first /\ match.last <= fed + n)
      BY <1>4, <2>9, FeedScanIInv
    <3>2. fed = lo /\ n = hi - lo /\ lo \in Nat /\ hi \in Nat
      BY <2>3, <2>4, <2>9
    <3>3. fed + n = hi
      BY <3>2
    <3>4. match' = match
      BY <2>9 DEF Scanner!Feed
    <3> QED
      BY <3>1, <3>3, <3>4
  <2>11. found' <=> {Mark, Mark + 1} \subseteq all
    BY <1>4, <2>3, <2>7, <2>8, <2>10
  <2>12. /\ wait'[v].acc = all /\ sub'[v].upto = hi
         /\ wait'[v].pc = IF {Mark, Mark + 1} \subseteq all THEN "matched" ELSE "drain"
    <3> HIDE DEF c, all
    <3> QED
      BY <1>2, <1>3, <2>1, <2>2, <2>3 DEF WaitStates, Queues
  <2>13. Fed(v)'
    <3> HIDE DEF all
    <3> QED
      BY <2>8, <2>10, <2>11, <2>12 DEF Fed
  <2> QED
    BY <1>4, <2>1, <2>10, <2>13
<1>12. CASE ReturnAndForget(v)
  <2>1. /\ wait'[v].pc = "idle" /\ UNCHANGED <<total, inHand>>
        /\ match' = match /\ from' = 0 /\ fed' = 0 /\ acc' = 0 /\ scanned' = 0 /\ found' = FALSE
    BY <1>3, <1>12 DEF ReturnAndForget, WaitReturns, NewScanner, NotWaiting, ringVars, readerVars
  <2>2. ScanIInv'
    <3>1. match \in Scanner!Matches
      BY DEF ScanIInv, Scanner!FindsAll, Scanner!Bounded
    <3>2. match.first \in Nat /\ match.last \in Nat /\ match.first < match.last
      BY <3>1 DEF Scanner!Matches
    <3> QED
      <4>1. Scanner!Bounded'
        <5>1. match' \in Scanner!Matches' /\ from' \in 0 .. MaxOutput /\ fed' \in from' .. MaxOutput
          BY <1>4, <2>1, <3>1 DEF Scanner!Matches
        <5>2. Window \in Nat
          BY <1>4 DEF Scanner!Sizes
        <5>3. acc' \in Nat /\ scanned' \in Nat /\ acc' <= Window
          BY <2>1, <5>2
        <5>4. found' \in BOOLEAN
          BY <2>1
        <5> QED
          BY <5>1, <5>3, <5>4 DEF Scanner!Bounded
      <4>2. Scanner!NothingOverlooked' /\ Covered'
        BY <2>1, <3>2 DEF Scanner!NothingOverlooked, Covered
      <4> QED
        BY <4>1, <4>2 DEF ScanIInv, Scanner!FindsAll
  <2> QED
    BY <1>4, <2>1, <2>2 DEF Fed
<1> QED
  <2>1. CASE PatternNext
    <3>1. \A w \in Waiters : w = v
      BY <1>2
    <3>2. CASE UNCHANGED scanVars /\
               (Read \/ Publish \/ ReadFails \/ CloseTransport \/ CloseFinish \/ Reset)
      <4>1. UNCHANGED wait
        BY <3>2 DEF Read, Publish, ReadFails, CloseTransport, CloseFinish, Reset
      <4> QED
        BY <1>7, <3>2, <4>1
    <3> QED
      BY <1>8, <1>9, <1>10, <1>11, <1>12, <2>1, <3>1, <3>2 DEF PatternNext
  <2> QED
    BY <1>6, <2>1

\* A call of WaitForPattern returns a match exactly when it has been sent all of
\* one since it last subscribed (drainInto, feed, scan, reset).
THEOREM ScanFindsAllHolds == PatternSpec => []ScanFindsAll
<1>1. PatternIInv => ScanFindsAll
  BY DEF PatternIInv, ScanIInv, ScanInStep, Fed, ScanFindsAll
<1> QED
  BY <1>1, InitPatternIInv, NextPatternIInv, PTL DEF PatternSpec
=============================================================================
