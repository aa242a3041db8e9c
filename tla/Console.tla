------------------------------ MODULE Console ------------------------------
(***************************************************************************)
(* The serial console of the daemon (internal/serialconsole console.go):   *)
(* one reader goroutine publishes what the target prints to the scrollback *)
(* and to every subscriber; a subscriber whose queue is full is detached.  *)
(* The processes are the reader, Close at shutdown, the observers          *)
(* (StreamConsole handlers) and the pattern waiters (WaitForPattern).      *)
(*                                                                         *)
(* A byte of output is its position: 1 is the first byte ever published.   *)
(* A chunk <<lo, hi>> is the bytes lo+1 .. hi.  The scrollback is the last *)
(* `size' positions, which is what ConsoleRing shows of the ring.  The     *)
(* pattern is two bytes long, at positions Mark and Mark + 1, so that a    *)
(* match may straddle two chunks.                                          *)
(*                                                                         *)
(* A definition called a variant is a later one with a plausible bug:      *)
(* nothing uses it; put in its place, it breaks the properties.            *)
(***************************************************************************)
EXTENDS Integers, Sequences, FiniteSets

CONSTANTS Observers,   \* StreamConsole handlers
          Waiters,     \* WaitForPattern callers
          Cap,         \* capacity of the ring, in bytes
          SubChanCap,  \* subChanCap: chunks a subscriber may queue
          Window,      \* maxPatternWindow, in bytes
          Replays,     \* replay sizes callers ask for
          Mark,        \* where the target prints the pattern
          MaxChunk,    \* longest chunk a Read returns
          MaxOutput,   \* bound on the bytes of a behaviour
          MaxHandlers, \* bound on the handlers subscribed at a time
          MaxResets    \* bound on its power-loss hooks

ASSUME SizesAssumption ==
    /\ Cap \in Nat \ {0}
    /\ SubChanCap \in Nat \ {0}
    /\ Window \in Nat \ {0}
    /\ Replays \subseteq Nat
    /\ Mark \in Nat \ {0}
    /\ MaxChunk \in Nat \ {0}
    /\ MaxOutput \in Nat
    /\ MaxHandlers \in Nat
    /\ MaxResets \in Nat
ASSUME RolesAssumption == Observers \cap Waiters = {}

Subs == Observers \cup Waiters

VARIABLES
  total,    \* bytes ever published
  size,     \* ring.size
  totalIn,  \* ring.totalIn: bytes published since the last Reset
  reader,   \* the read loop: "read", "publish" or "dead"
  inHand,   \* length of the chunk Read returned, not yet published
  up,       \* the transport has not been closed by Close
  closed,   \* Console.closed
  sub,      \* [s -> subscriber: queue, open channel, position delivered]
  obs,      \* [o -> state of the StreamConsole handler]
  wait,     \* [w -> state of the WaitForPattern call]
  resets,   \* history: number of Resets
  hist      \* history: [w -> where the wait began, and what it may have lost]

ringVars == <<total, size, totalIn, resets>>
readerVars == <<reader, inHand, up>>
vars == <<ringVars, readerVars, closed, sub, obs, wait, hist>>

Least(a, b) == IF a < b THEN a ELSE b
Most(a, b) == IF a < b THEN b ELSE a
Bytes(chunk) == chunk[1] + 1 .. chunk[2]

NotSubscribed == [ch |-> <<>>, open |-> FALSE, upto |-> 0]
NotWaiting == [pc |-> "idle", arm |-> 0, replay |-> 0, acc |-> {}]
NoHist == [begun |-> FALSE, armAt |-> 0, inc |-> 0, start |-> 0,
           epoch |-> 0, rearmAt |-> 0, lostTo |-> 0, seen |-> {}]

Init ==
    /\ total = 0
    /\ size = 0
    /\ totalIn = 0
    /\ reader = "read"
    /\ inHand = 0
    /\ up = TRUE
    /\ closed = FALSE
    /\ sub = [s \in Subs |-> NotSubscribed]
    /\ obs = [o \in Observers |-> "idle"]
    /\ wait = [w \in Waiters |-> NotWaiting]
    /\ resets = 0
    /\ hist = [w \in Waiters |-> NoHist]

-----------------------------------------------------------------------------
(* The reader.                                                             *)

\* rw.Read returns n bytes.
Read ==
    /\ reader = "read"
    /\ up
    /\ \E n \in 1 .. MaxChunk :
         /\ total + n <= MaxOutput
         /\ inHand' = n
    /\ reader' = "publish"
    /\ UNCHANGED <<ringVars, up, closed, sub, obs, wait, hist>>

\* Variant: a chunk that does not fit is dropped, and the subscriber stays.
DeliverLossy(s, chunk) ==
    IF s.open /\ Len(s.ch) < SubChanCap
      THEN [s EXCEPT !.ch = Append(@, chunk)]
      ELSE s

\* A subscriber queues the chunk, or is detached when its queue is full.
Deliver(s, chunk) ==
    IF ~s.open THEN s
    ELSE IF Len(s.ch) < SubChanCap
      THEN [s EXCEPT !.ch = Append(@, chunk)]
      ELSE [s EXCEPT !.open = FALSE]

Publish ==
    /\ reader = "publish"
    /\ total' = total + inHand
    /\ size' = Least(Cap, size + inHand)
    /\ totalIn' = totalIn + inHand
    /\ sub' = [s \in Subs |-> Deliver(sub[s], <<total, total + inHand>>)]
    /\ reader' = "read"
    /\ inHand' = 0
    /\ UNCHANGED <<up, closed, obs, wait, resets, hist>>

CloseWithErr ==
    /\ closed' = TRUE
    /\ sub' = IF closed THEN sub ELSE [s \in Subs |-> [sub[s] EXCEPT !.open = FALSE]]

\* The transport fails, or reports that Close closed it.
ReadFails ==
    /\ reader = "read"
    /\ reader' = "dead"
    /\ CloseWithErr
    /\ UNCHANGED <<ringVars, inHand, up, obs, wait, hist>>

\* Close: the transport first, then the subscribers.
CloseTransport ==
    /\ up
    /\ up' = FALSE
    /\ UNCHANGED <<ringVars, reader, inHand, closed, sub, obs, wait, hist>>

CloseFinish ==
    /\ ~up /\ ~closed
    /\ CloseWithErr
    /\ UNCHANGED <<ringVars, readerVars, obs, wait, hist>>

\* Console.Reset, the power-loss hook: subscribers keep their queues.
Reset ==
    /\ resets < MaxResets
    /\ resets' = resets + 1
    /\ size' = 0
    /\ totalIn' = 0
    /\ UNCHANGED <<total, readerVars, closed, sub, obs, wait, hist>>

-----------------------------------------------------------------------------
(* Subscriptions.                                                          *)

\* Subscribe(replay): the newest scrollback, if asked for, is the first chunk.
Subscribed(replay) ==
    LET n == IF replay > 0 THEN Least(replay, size) ELSE 0
    IN  [ch   |-> IF n > 0 THEN <<<<total - n, total>>>> ELSE <<>>,
         open |-> ~closed,
         upto |-> total - n]

Subscribe(s, replay) == sub' = [sub EXCEPT ![s] = Subscribed(replay)]

\* A receive from C().
Receive(s) ==
    /\ sub[s].ch # <<>>
    /\ sub' = [sub EXCEPT ![s].ch = Tail(@), ![s].upto = Head(sub[s].ch)[2]]

\* Subscription.Close; nobody reads the channel any more.
Unsubscribe(s) == sub' = [sub EXCEPT ![s] = NotSubscribed]

\* The channel is closed and drained.
AtEnd(s) == sub[s].ch = <<>> /\ ~sub[s].open

\* Handlers come and go; subscribers have nothing to do with one another.
MayBegin ==
    Cardinality({o \in Observers : obs[o] = "streaming"}
                  \cup {w \in Waiters : wait[w].pc # "idle"}) < MaxHandlers

-----------------------------------------------------------------------------
(* StreamConsole.                                                          *)

Observe(o) ==
    /\ obs[o] \in {"idle", "toldClosed"}
    /\ MayBegin
    /\ \E replay \in Replays : Subscribe(o, replay)
    /\ obs' = [obs EXCEPT ![o] = "streaming"]
    /\ UNCHANGED <<ringVars, readerVars, closed, wait, hist>>

ObserverSends(o) ==
    /\ obs[o] = "streaming"
    /\ Receive(o)
    /\ UNCHANGED <<ringVars, readerVars, closed, obs, wait, hist>>

ObserverEnds(o) ==
    /\ obs[o] = "streaming"
    /\ AtEnd(o)
    /\ obs' = [obs EXCEPT ![o] = "toldClosed"]
    /\ Unsubscribe(o)
    /\ UNCHANGED <<ringVars, readerVars, closed, wait, hist>>

ObserverLeaves(o) ==
    /\ obs[o] = "streaming"
    /\ obs' = [obs EXCEPT ![o] = "idle"]
    /\ Unsubscribe(o)
    /\ UNCHANGED <<ringVars, readerVars, closed, wait, hist>>

-----------------------------------------------------------------------------
(* WaitForPattern.                                                         *)

\* armTotal := c.TotalWritten()
Arm(w) ==
    /\ wait[w].pc = "idle"
    /\ MayBegin
    /\ \E inc \in Replays :
         /\ wait' = [wait EXCEPT ![w] =
              [pc |-> "subscribe", arm |-> totalIn, replay |-> inc, acc |-> {}]]
         /\ hist' = [hist EXCEPT ![w] =
              [NoHist EXCEPT !.armAt = total, !.inc = inc, !.epoch = resets]]
    /\ UNCHANGED <<ringVars, readerVars, closed, sub, obs>>

\* sub := c.Subscribe(replay).  A re-subscription may have lost what the ring
\* evicted and as many of the oldest bytes as came after they were counted.
WaitSubscribe(w) ==
    LET h == hist[w]
    IN  /\ wait[w].pc = "subscribe"
        /\ Subscribe(w, wait[w].replay)
        /\ wait' = [wait EXCEPT ![w].pc = "drain"]
        /\ hist' = [hist EXCEPT ![w] =
             IF h.begun
               THEN [h EXCEPT !.lostTo = Most(@, Most(total - Least(Cap, Window),
                                                      h.start + (total - h.rearmAt)))]
               ELSE [h EXCEPT !.begun = TRUE, !.start = total]]
        /\ UNCHANGED <<ringVars, readerVars, closed, obs>>

\* drainInto receives a chunk and feeds the scanner.
Feed(w) ==
    /\ wait[w].pc = "drain"
    /\ Receive(w)
    /\ LET fed == Bytes(Head(sub[w].ch))
           acc == wait[w].acc \cup fed
       IN  /\ wait' = [wait EXCEPT ![w].acc = acc,
                                   ![w].pc = IF {Mark, Mark + 1} \subseteq acc
                                               THEN "matched" ELSE "drain"]
           /\ hist' = [hist EXCEPT ![w].seen = @ \cup fed]
    /\ UNCHANGED <<ringVars, readerVars, closed, obs>>

\* Variant: every closed channel is taken for a closed console (issue #28).
WaitEndsClosed(w) ==
    /\ wait[w].pc = "drain"
    /\ AtEnd(w)
    /\ wait' = [wait EXCEPT ![w].pc = "closed"]
    /\ UNCHANGED <<ringVars, readerVars, closed, sub, obs, hist>>

\* drainInto finds the channel closed: slow, or the console is gone?
WaitEnds(w) ==
    /\ wait[w].pc = "drain"
    /\ AtEnd(w)
    /\ wait' = [wait EXCEPT ![w].pc = IF closed THEN "closed" ELSE "rearm"]
    /\ UNCHANGED <<ringVars, readerVars, closed, sub, obs, hist>>

\* Variant: nothing is replayed.
RearmBlind(w) ==
    /\ wait[w].pc = "rearm"
    /\ wait' = [wait EXCEPT ![w].pc = "subscribe",
                            ![w].replay = 0,
                            ![w].acc = {}]
    /\ hist' = [hist EXCEPT ![w].rearmAt = total]
    /\ UNCHANGED <<ringVars, readerVars, closed, sub, obs>>

\* missed := c.TotalWritten() - armTotal; sc.reset()
Rearm(w) ==
    /\ wait[w].pc = "rearm"
    /\ wait' = [wait EXCEPT ![w].pc = "subscribe",
                            ![w].replay = Least(totalIn - wait[w].arm, Window),
                            ![w].acc = {}]
    /\ hist' = [hist EXCEPT ![w].rearmAt = total]
    /\ UNCHANGED <<ringVars, readerVars, closed, sub, obs>>

\* ctx is done: seen by the select, or before the next subscription.
WaitTimesOut(w) ==
    /\ wait[w].pc \in {"drain", "rearm"}
    /\ wait' = [wait EXCEPT ![w].pc = "timeout"]
    /\ UNCHANGED <<ringVars, readerVars, closed, sub, obs, hist>>

\* The call returns; its deferred sub.Close drops the queue.
WaitReturns(w) ==
    /\ wait[w].pc \in {"matched", "timeout", "closed"}
    /\ wait' = [wait EXCEPT ![w] = NotWaiting]
    /\ hist' = [hist EXCEPT ![w] = NoHist]
    /\ Unsubscribe(w)
    /\ UNCHANGED <<ringVars, readerVars, closed, obs>>

-----------------------------------------------------------------------------
WaiterStep(w) == WaitSubscribe(w) \/ Feed(w) \/ WaitEnds(w) \/ Rearm(w)

Next ==
    \/ Read \/ Publish \/ ReadFails
    \/ CloseTransport \/ CloseFinish
    \/ Reset
    \/ \E o \in Observers :
         Observe(o) \/ ObserverSends(o) \/ ObserverEnds(o) \/ ObserverLeaves(o)
    \/ \E w \in Waiters :
         Arm(w) \/ WaiterStep(w) \/ WaitTimesOut(w) \/ WaitReturns(w)

Spec == Init /\ [][Next]_vars

-----------------------------------------------------------------------------
(* Properties.                                                             *)

\* Every variable has its type; the scrollback is within the ring.
TypeOK ==
    /\ total \in Nat /\ totalIn \in 0 .. total
    /\ size = Least(Cap, totalIn)
    /\ reader \in {"read", "publish", "dead"} /\ inHand \in Nat
    /\ up \in BOOLEAN /\ closed \in BOOLEAN
    /\ DOMAIN sub = Subs
    /\ \A s \in Subs : Len(sub[s].ch) <= SubChanCap /\ sub[s].open \in BOOLEAN
    /\ obs \in [Observers -> {"idle", "streaming", "toldClosed"}]
    /\ \A w \in Waiters :
         wait[w].pc \in {"idle", "subscribe", "drain", "rearm",
                         "matched", "timeout", "closed"}

\* Replay and live output join with no gap and no duplicate: the chunks a
\* subscriber has not read continue what it read, and reach the newest byte as
\* long as it is attached, across Reset and eviction (Subscribe, publish).  (The
\* types are checked with it.)
FeedHasNoGap ==
    /\ TypeOK
    /\ \A s \in Subs :
         LET q == sub[s].ch
             from(i) == IF i = 1 THEN sub[s].upto ELSE q[i - 1][2]
         IN  /\ \A i \in DOMAIN q : q[i][1] = from(i)
             /\ sub[s].open => from(Len(q) + 1) = total

\* A pattern waiter that was detached for slowness is never told that the
\* console closed (issue #28), and one told so will get no more from it.
ClosedMeansClosed ==
    \A w \in Waiters : wait[w].pc = "closed" => closed

\* A waiter never scans output older than its arming, except the scrollback
\* it asked for, however often it re-subscribes and whatever resets the ring.
NoPreArmHistory ==
    \A w \in Waiters :
      \A p \in wait[w].acc : p > hist[w].armAt - hist[w].inc

\* w is attached, has drained its queue, and found nothing.
CaughtUp(w) == wait[w].pc = "drain" /\ sub[w].open /\ sub[w].ch = <<>>

\* The output since w armed that it can still be expected to have scanned.
Owed(w) == {p \in hist[w].start + 1 .. total : p > hist[w].lostTo}

\* A waiter that has caught up has scanned everything printed since it armed,
\* however often it was detached, except what the ring evicted before a
\* re-subscription and what was printed between counting and re-subscribing, if
\* the scrollback was not reset meanwhile.
NothingMissed ==
    \A w \in Waiters :
      CaughtUp(w) /\ hist[w].epoch = resets => Owed(w) \subseteq hist[w].seen

\* However often it re-subscribes, a wait scans neither more nor less than what
\* it should (the two bounds on the replay of WaitForPattern).
ReplayIsExact == NoPreArmHistory /\ NothingMissed

\* The pattern is printed while w waits: w returns, unless the scrollback is
\* reset or the bytes were lost to it (the re-subscription loop terminates).
PatternFound ==
    \A w \in Waiters :
      (wait[w].pc = "drain" /\ Mark > hist[w].start /\ Mark < total)
        ~> \/ wait[w].pc \in {"matched", "timeout", "closed", "idle"}
           \/ hist[w].epoch # resets
           \/ Mark <= hist[w].lostTo
=============================================================================
