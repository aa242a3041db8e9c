---------------------------- MODULE PowerProofs ----------------------------
(***************************************************************************)
(* What the calls of the power control may rely on, proved for any number  *)
(* of concurrent calls, any ring and any amount of output.                 *)
(*                                                                         *)
(* The properties speak of finished calls.  What makes them inductive is   *)
(* what a call at work may count on between its SNMP exchanges, and which  *)
(* calls reach which step.                                                 *)
(***************************************************************************)
EXTENDS Power, SequenceTheorems, TLAPS

Pcs == {"idle", "hook", "off", "wait", "on", "query", "done"}
Replies == {"none", "failed", "on", "off", "unknown"}

CallType == [action : Actions, pc : Pcs, reply : Replies, boots : Nat, next : Nat]

Typed ==
    /\ outlet \in {"on", "off"}
    /\ boots \in Nat
    /\ next \in Nat
    /\ written \in Seq(Nat)
    /\ call \in [Calls -> CallType]

\* Which calls reach which step, and that a reply ends a call.
Flow(c) ==
    /\ call[c].pc = "idle" => call[c].action = "status"
    /\ call[c].pc \in {"hook", "off"} => call[c].action \in {"off", "cycle"}
    /\ call[c].pc = "wait" => call[c].action = "cycle"
    /\ call[c].pc = "on" => call[c].action \in {"on", "cycle"}
    /\ call[c].pc # "done" => call[c].reply = "none"
    /\ call[c].reply = "none" => call[c].pc # "done"

\* A cycle that has switched off and finds the outlet on again was overtaken
\* by a call that switched it on: the target has rebooted already.
MustHaveBooted(c) ==
    /\ call[c].action = "cycle"
    /\ \/ call[c].pc \in {"wait", "on"} /\ outlet = "on"
       \/ call[c].pc = "query"
       \/ Succeeded(c)
Rebooted(c) == boots >= call[c].boots /\ (MustHaveBooted(c) => boots > call[c].boots)

\* From the hook on, nothing older than the call is in the scrollback.
HasCleared(c) ==
    /\ call[c].action \in {"off", "cycle"}
    /\ call[c].pc \in {"off", "wait", "on", "query"} \/ Succeeded(c)
NotOlder(m) == \A i \in 1 .. Len(written) : written[i] >= m
Cleared(c) == call[c].next <= next /\ (HasCleared(c) => NotOlder(call[c].next))

Own(c) == Flow(c) /\ Rebooted(c) /\ Cleared(c)

\* A dark outlet is accounted for, by a call that is still at work if need be.
Darkens(c) ==
    \/ call[c].action = "off"
    \/ call[c].reply = "failed"
    \/ call[c].action = "cycle" /\ call[c].pc \in {"wait", "on"}
Accounted == outlet = "off" => \E c \in Calls : Darkens(c)

\* A call between its command and its read-back that finds the outlet the
\* other way has an opponent.
Raises(c) == call[c].action \in {"on", "cycle"}
Lowers(c) == call[c].action \in {"off", "cycle"}
WasRaised(c) ==
    /\ call[c].action = "off"
    /\ (call[c].pc = "query" /\ outlet = "on") \/ call[c].reply = "on"
WasLowered(c) ==
    /\ Raises(c)
    /\ (call[c].pc = "query" /\ outlet = "off") \/ call[c].reply = "off"
Opposed ==
    \A c \in Calls :
      /\ WasRaised(c) => \E d \in Calls \ {c} : Raises(d)
      /\ WasLowered(c) => \E d \in Calls \ {c} : Lowers(d)

IInv == Typed /\ (\A c \in Calls : Own(c)) /\ Accounted /\ Opposed

USE DEF Pcs, Replies, Actions

\* Nobody has called.
LEMMA InitIInv == Init => IInv
<1> SUFFICES ASSUME Init PROVE IInv
  OBVIOUS
<1>1. Typed
  BY DEF Init, RingInit, Typed, CallType
<1>2. \A c \in Calls : Own(c)
  BY DEF Init, RingInit, Own, Flow, Rebooted, MustHaveBooted, Cleared, HasCleared, Succeeded
<1>3. Accounted /\ Opposed
  BY DEF Init, Accounted, Opposed, WasRaised, WasLowered
<1> QED
  BY <1>1, <1>2, <1>3 DEF IInv

\* What is published is newer than everything before.
LEMMA PublishedNewer ==
  ASSUME Typed, ReadLoop
  PROVE  /\ next' \in Nat /\ next <= next'
         /\ written' \in Seq(Nat)
         /\ \A m \in Nat : m <= next /\ NotOlder(m) => NotOlder(m)'
<1>1. PICK n \in 1 .. line :
           /\ next' = next + Len([i \in 1 .. n |-> next + i - 1])
           /\ written' = written \o [i \in 1 .. n |-> next + i - 1]
  BY DEF ReadLoop, Write
<1> DEFINE p == [i \in 1 .. n |-> next + i - 1]
<1>2. n \in Nat /\ next \in Nat
  BY DEF Typed
<1>3. p \in Seq(Nat) /\ Len(p) = n /\ \A i \in 1 .. n : p[i] = next + i - 1
  BY <1>2
<1> HIDE DEF p
<1>4. next' = next + Len(p) /\ written' = written \o p
  BY <1>1 DEF p
<1>5. written \in Seq(Nat)
  BY DEF Typed
<1>6. \A i \in 1 .. Len(written') :
        written'[i] = IF i <= Len(written) THEN written[i] ELSE p[i - Len(written)]
  BY <1>3, <1>4, <1>5
<1>7. Len(written') = Len(written) + n
  BY <1>3, <1>4, <1>5, ConcatProperties
<1>8. ASSUME NEW m \in Nat, m <= next, NotOlder(m), NEW i \in 1 .. Len(written')
      PROVE  written'[i] >= m
  <2>1. CASE i <= Len(written)
    BY <1>5, <1>6, <1>8, <2>1 DEF NotOlder
  <2>2. CASE i > Len(written)
    <3>1. i - Len(written) \in 1 .. n
      BY <1>2, <1>5, <1>7, <2>2
    <3>2. written'[i] = next + (i - Len(written)) - 1
      BY <1>3, <1>5, <1>6, <2>2, <3>1
    <3> QED
      BY <1>2, <1>5, <1>8, <3>1, <3>2
  <2> QED
    BY <1>5, <2>1, <2>2
<1>9. next' = next + n /\ written' \in Seq(Nat)
  BY <1>3, <1>4, <1>5
<1> QED
  BY <1>2, <1>8, <1>9 DEF NotOlder

\* Call c goes on at p, or ends with reply r; nothing else about the calls
\* changes.
Moved(c, p, r) ==
    /\ call' \in [Calls -> CallType]
    /\ \A d \in Calls : d # c => call'[d] = call[d]
    /\ call'[c].action = call[c].action
    /\ call'[c].boots = call[c].boots
    /\ call'[c].next = call[c].next
    /\ call'[c].pc = p
    /\ call'[c].reply = r

\* A call that goes on has no reply.
LEMMA GotoMoves ==
  ASSUME Typed, NEW c \in Calls, NEW p \in Pcs, Goto(c, p)
  PROVE  Moved(c, p, call[c].reply)
BY DEF Typed, CallType, Goto, Moved

\* A call that replies is done.
LEMMA ReplyMoves ==
  ASSUME Typed, NEW c \in Calls, NEW r \in Replies, Reply(c, r)
  PROVE  Moved(c, "done", r)
BY DEF Typed, CallType, Reply, Moved

\* What a Set does to the outlet: nothing, or what was asked.
LEMMA SetEffect ==
  ASSUME Typed, NEW c \in Calls, NEW o \in {"on", "off"}, NEW p \in Pcs,
         Set(c, o, Goto(c, p))
  PROVE  /\ UNCHANGED ringVars
         /\ \/ /\ outlet' = o
               /\ boots' = boots + IF outlet = "off" /\ o = "on" THEN 1 ELSE 0
               /\ Moved(c, p, call[c].reply) \/ Moved(c, "done", "failed")
            \/ /\ outlet' = outlet /\ boots' = boots
               /\ Moved(c, "done", "failed")
BY GotoMoves, ReplyMoves DEF Set, powerVars

\* What each call's own invariant and its part in the others' must do in a
\* step for the invariant to hold after it.
LEMMA Assemble ==
  ASSUME Typed', Accounted, Opposed, NEW c \in Calls,
         \A d \in Calls : Own(d)',
         outlet' = "off" => outlet = "off" \/ Darkens(c)',
         \A d \in Calls : Darkens(d) => Darkens(d)' \/ outlet' = "on",
         \A d \in Calls : (Raises(d) => Raises(d)') /\ (Lowers(d) => Lowers(d)'),
         \A d \in Calls : WasRaised(d)' => WasRaised(d) \/ (d # c /\ Raises(c)'),
         \A d \in Calls : WasLowered(d)' => WasLowered(d) \/ (d # c /\ Lowers(c)')
  PROVE  IInv'
<1>1. Accounted'
  BY DEF Accounted, Typed
<1>2. ASSUME NEW d \in Calls, WasRaised(d)'
      PROVE  \E e \in Calls \ {d} : Raises(e)'
  <2>1. CASE WasRaised(d)
    BY <2>1 DEF Opposed
  <2>2. CASE d # c /\ Raises(c)'
    BY <2>2
  <2> QED
    BY <1>2, <2>1, <2>2
<1>3. ASSUME NEW d \in Calls, WasLowered(d)'
      PROVE  \E e \in Calls \ {d} : Lowers(e)'
  <2>1. CASE WasLowered(d)
    BY <2>1 DEF Opposed
  <2>2. CASE d # c /\ Lowers(c)'
    BY <2>2
  <2> QED
    BY <1>3, <2>1, <2>2
<1>4. Opposed'
  BY <1>2, <1>3 DEF Opposed
<1> QED
  BY <1>1, <1>4 DEF IInv

\* A new call.
LEMMA CallIInv ==
  ASSUME IInv, NEW c \in Calls, NEW a \in Actions, PowerControl(c, a)
  PROVE  IInv'
<1> USE DEF IInv
<1>0. Own(c) /\ Flow(c) /\ Rebooted(c) /\ Cleared(c)
  BY DEF Own
<1>1. /\ call[c].pc = "idle" /\ call[c].action = "status" /\ call[c].reply = "none"
      /\ outlet' = outlet /\ boots' = boots /\ next' = next /\ written' = written
      /\ call' \in [Calls -> CallType]
      /\ \A d \in Calls : d # c => call'[d] = call[d]
      /\ call'[c].action = a /\ call'[c].reply = "none"
      /\ call'[c].boots = boots /\ call'[c].next = next
      /\ call'[c].pc \in {"hook", "on", "query"}
      /\ call'[c].pc = "hook" => a \in {"off", "cycle"}
      /\ call'[c].pc = "on" => a = "on"
      /\ call'[c].pc = "query" => a = "status"
  BY <1>0 DEF PowerControl, Typed, CallType, Flow, ringVars, powerVars
<1>2. Typed'
  BY <1>0, <1>1 DEF Typed, Moved
<1>3. Own(c)'
  <2>1. Flow(c)'
    BY <1>0, <1>1 DEF Flow, Typed, Moved
  <2>2. Rebooted(c)'
    BY <1>0, <1>1 DEF Rebooted, MustHaveBooted, Succeeded, Flow, Typed, CallType, Moved
  <2>3. Cleared(c)'
    BY <1>0, <1>1 DEF Cleared, HasCleared, NotOlder, Succeeded, Flow, Typed, CallType, Moved
  <2> QED
    BY <2>1, <2>2, <2>3 DEF Own
<1>4. ASSUME NEW d \in Calls, d # c PROVE Own(d)'
  <2>1. call'[d] = call[d] /\ Own(d)
    BY <1>0, <1>1, <1>4 DEF Moved
  <2>2. Flow(d)' /\ Rebooted(d)'
    BY <1>0, <1>1, <2>1 DEF Own, Flow, Rebooted, MustHaveBooted, Succeeded, Typed, CallType
  <2>3. Cleared(d)'
    BY <1>0, <1>1, <2>1 DEF Own, Cleared, HasCleared, NotOlder, Succeeded, Typed, CallType
  <2> QED
    BY <2>2, <2>3 DEF Own
<1>5. ASSUME NEW d \in Calls
     PROVE  /\ outlet' = "off" => outlet = "off" \/ Darkens(c)'
            /\ Darkens(d) => Darkens(d)' \/ outlet' = "on"
            /\ (Raises(d) => Raises(d)') /\ (Lowers(d) => Lowers(d)')
  BY <1>0, <1>1, <1>5 DEF Darkens, Raises, Lowers, Flow, Typed, Moved
<1>6. ASSUME NEW d \in Calls
     PROVE  /\ WasRaised(d)' => WasRaised(d) \/ (d # c /\ Raises(c)')
            /\ WasLowered(d)' => WasLowered(d) \/ (d # c /\ Lowers(c)')
  BY <1>0, <1>1, <1>6 DEF WasRaised, WasLowered, Raises, Lowers, Flow, Typed, Moved
<1> QED
  BY <1>2, <1>3, <1>4, <1>5, <1>6, Assemble

\* One call takes a step.
LEMMA StepIInv == ASSUME IInv, NEW c \in Calls, Step(c) PROVE IInv'
<1> USE DEF IInv
<1>0. Own(c) /\ Flow(c) /\ Rebooted(c) /\ Cleared(c)
  BY DEF Own
<1>1. CASE \E a \in Actions : PowerControl(c, a)
  BY <1>1, CallIInv
<1>2. CASE Hook(c)
  <2>1. /\ call[c].pc = "hook" /\ outlet' = outlet /\ boots' = boots
        /\ written' = <<>> /\ next' = next
        /\ Moved(c, "off", call[c].reply)
    BY <1>2, GotoMoves DEF Hook, Reset, powerVars
  <2>2. Typed'
    BY <1>0, <2>1 DEF Typed, Moved
  <2>3. Own(c)'
    <3>1. Flow(c)'
      BY <1>0, <2>1 DEF Flow, Typed, Moved
    <3>2. Rebooted(c)'
      BY <1>0, <2>1 DEF Rebooted, MustHaveBooted, Succeeded, Flow, Typed, CallType, Moved
    <3>3. Cleared(c)'
      BY <1>0, <2>1 DEF Cleared, HasCleared, NotOlder, Succeeded, Flow, Typed, CallType, Moved
    <3> QED
      BY <3>1, <3>2, <3>3 DEF Own
  <2>4. ASSUME NEW d \in Calls, d # c PROVE Own(d)'
    <3>1. call'[d] = call[d] /\ Own(d)
      BY <1>0, <2>1, <2>4 DEF Moved
    <3>2. Flow(d)' /\ Rebooted(d)'
      BY <1>0, <2>1, <3>1 DEF Own, Flow, Rebooted, MustHaveBooted, Succeeded, Typed, CallType
    <3>3. Cleared(d)'
      BY <1>0, <2>1, <3>1 DEF Own, Cleared, HasCleared, NotOlder, Succeeded, Typed, CallType
    <3> QED
      BY <3>2, <3>3 DEF Own
  <2>5. ASSUME NEW d \in Calls
       PROVE  /\ outlet' = "off" => outlet = "off" \/ Darkens(c)'
              /\ Darkens(d) => Darkens(d)' \/ outlet' = "on"
              /\ (Raises(d) => Raises(d)') /\ (Lowers(d) => Lowers(d)')
    BY <1>0, <2>1, <2>5 DEF Darkens, Raises, Lowers, Flow, Typed, Moved
  <2>6. ASSUME NEW d \in Calls
       PROVE  /\ WasRaised(d)' => WasRaised(d) \/ (d # c /\ Raises(c)')
              /\ WasLowered(d)' => WasLowered(d) \/ (d # c /\ Lowers(c)')
    BY <1>0, <2>1, <2>6 DEF WasRaised, WasLowered, Raises, Lowers, Flow, Typed, Moved
  <2> QED
    BY <2>2, <2>3, <2>4, <2>5, <2>6, Assemble
<1>3. CASE Off(c)
  <2> DEFINE p == IF call[c].action = "off" THEN "query" ELSE "wait"
  <2>1. /\ call[c].pc = "off" /\ written' = written /\ next' = next
        /\ \/ outlet' = "off" /\ boots' = boots
              /\ (Moved(c, p, call[c].reply) \/ Moved(c, "done", "failed"))
           \/ outlet' = outlet /\ boots' = boots /\ Moved(c, "done", "failed")
    BY <1>3, SetEffect DEF Off, Typed, ringVars
  <2>2. Typed'
    BY <1>0, <2>1 DEF Typed, Moved
  <2>3. Own(c)'
    <3>1. Flow(c)'
      BY <1>0, <2>1 DEF Flow, Typed, Moved
    <3>2. Rebooted(c)'
      BY <1>0, <2>1 DEF Rebooted, MustHaveBooted, Succeeded, Flow, Typed, CallType, Moved
    <3>3. Cleared(c)'
      BY <1>0, <2>1 DEF Cleared, HasCleared, NotOlder, Succeeded, Flow, Typed, CallType, Moved
    <3> QED
      BY <3>1, <3>2, <3>3 DEF Own
  <2>4. ASSUME NEW d \in Calls, d # c PROVE Own(d)'
    <3>1. call'[d] = call[d] /\ Own(d)
      BY <1>0, <2>1, <2>4 DEF Moved
    <3>2. Flow(d)' /\ Rebooted(d)'
      BY <1>0, <2>1, <3>1 DEF Own, Flow, Rebooted, MustHaveBooted, Succeeded, Typed, CallType
    <3>3. Cleared(d)'
      BY <1>0, <2>1, <3>1 DEF Own, Cleared, HasCleared, NotOlder, Succeeded, Typed, CallType
    <3> QED
      BY <3>2, <3>3 DEF Own
  <2>5. ASSUME NEW d \in Calls
       PROVE  /\ outlet' = "off" => outlet = "off" \/ Darkens(c)'
              /\ Darkens(d) => Darkens(d)' \/ outlet' = "on"
              /\ (Raises(d) => Raises(d)') /\ (Lowers(d) => Lowers(d)')
    BY <1>0, <2>1, <2>5 DEF Darkens, Raises, Lowers, Flow, Typed, Moved
  <2>6. ASSUME NEW d \in Calls
       PROVE  /\ WasRaised(d)' => WasRaised(d) \/ (d # c /\ Raises(c)')
              /\ WasLowered(d)' => WasLowered(d) \/ (d # c /\ Lowers(c)')
    BY <1>0, <2>1, <2>6 DEF WasRaised, WasLowered, Raises, Lowers, Flow, Typed, Moved
  <2> QED
    BY <2>2, <2>3, <2>4, <2>5, <2>6, Assemble
<1>4. CASE CycleWait(c)
  <2>1. /\ call[c].pc = "wait" /\ written' = written /\ next' = next /\ outlet' = outlet /\ boots' = boots
        /\ Moved(c, "on", call[c].reply) \/ Moved(c, "done", "failed")
    BY <1>4, GotoMoves, ReplyMoves DEF CycleWait, ringVars, powerVars
  <2>2. Typed'
    BY <1>0, <2>1 DEF Typed, Moved
  <2>3. Own(c)'
    <3>1. Flow(c)'
      BY <1>0, <2>1 DEF Flow, Typed, Moved
    <3>2. Rebooted(c)'
      BY <1>0, <2>1 DEF Rebooted, MustHaveBooted, Succeeded, Flow, Typed, CallType, Moved
    <3>3. Cleared(c)'
      BY <1>0, <2>1 DEF Cleared, HasCleared, NotOlder, Succeeded, Flow, Typed, CallType, Moved
    <3> QED
      BY <3>1, <3>2, <3>3 DEF Own
  <2>4. ASSUME NEW d \in Calls, d # c PROVE Own(d)'
    <3>1. call'[d] = call[d] /\ Own(d)
      BY <1>0, <2>1, <2>4 DEF Moved
    <3>2. Flow(d)' /\ Rebooted(d)'
      BY <1>0, <2>1, <3>1 DEF Own, Flow, Rebooted, MustHaveBooted, Succeeded, Typed, CallType
    <3>3. Cleared(d)'
      BY <1>0, <2>1, <3>1 DEF Own, Cleared, HasCleared, NotOlder, Succeeded, Typed, CallType
    <3> QED
      BY <3>2, <3>3 DEF Own
  <2>5. ASSUME NEW d \in Calls
       PROVE  /\ outlet' = "off" => outlet = "off" \/ Darkens(c)'
              /\ Darkens(d) => Darkens(d)' \/ outlet' = "on"
              /\ (Raises(d) => Raises(d)') /\ (Lowers(d) => Lowers(d)')
    BY <1>0, <2>1, <2>5 DEF Darkens, Raises, Lowers, Flow, Typed, Moved
  <2>6. ASSUME NEW d \in Calls
       PROVE  /\ WasRaised(d)' => WasRaised(d) \/ (d # c /\ Raises(c)')
              /\ WasLowered(d)' => WasLowered(d) \/ (d # c /\ Lowers(c)')
    BY <1>0, <2>1, <2>6 DEF WasRaised, WasLowered, Raises, Lowers, Flow, Typed, Moved
  <2> QED
    BY <2>2, <2>3, <2>4, <2>5, <2>6, Assemble
<1>5. CASE On(c)
  <2>1. /\ call[c].pc = "on" /\ written' = written /\ next' = next
        /\ \/ /\ outlet' = "on" /\ boots' = boots + IF outlet = "off" THEN 1 ELSE 0
              /\ Moved(c, "query", call[c].reply) \/ Moved(c, "done", "failed")
           \/ outlet' = outlet /\ boots' = boots /\ Moved(c, "done", "failed")
    BY <1>5, SetEffect DEF On, Typed, ringVars
  <2>2. Typed'
    BY <1>0, <2>1 DEF Typed, Moved
  <2>3. Own(c)'
    <3>1. Flow(c)'
      BY <1>0, <2>1 DEF Flow, Typed, Moved
    <3>2. Rebooted(c)'
      BY <1>0, <2>1 DEF Rebooted, MustHaveBooted, Succeeded, Flow, Typed, CallType, Moved
    <3>3. Cleared(c)'
      BY <1>0, <2>1 DEF Cleared, HasCleared, NotOlder, Succeeded, Flow, Typed, CallType, Moved
    <3> QED
      BY <3>1, <3>2, <3>3 DEF Own
  <2>4. ASSUME NEW d \in Calls, d # c PROVE Own(d)'
    <3>1. call'[d] = call[d] /\ Own(d)
      BY <1>0, <2>1, <2>4 DEF Moved
    <3>2. Flow(d)' /\ Rebooted(d)'
      BY <1>0, <2>1, <3>1 DEF Own, Flow, Rebooted, MustHaveBooted, Succeeded, Typed, CallType
    <3>3. Cleared(d)'
      BY <1>0, <2>1, <3>1 DEF Own, Cleared, HasCleared, NotOlder, Succeeded, Typed, CallType
    <3> QED
      BY <3>2, <3>3 DEF Own
  <2>5. ASSUME NEW d \in Calls
       PROVE  /\ outlet' = "off" => outlet = "off" \/ Darkens(c)'
              /\ Darkens(d) => Darkens(d)' \/ outlet' = "on"
              /\ (Raises(d) => Raises(d)') /\ (Lowers(d) => Lowers(d)')
    BY <1>0, <2>1, <2>5 DEF Darkens, Raises, Lowers, Flow, Typed, Moved
  <2>6. ASSUME NEW d \in Calls
       PROVE  /\ WasRaised(d)' => WasRaised(d) \/ (d # c /\ Raises(c)')
              /\ WasLowered(d)' => WasLowered(d) \/ (d # c /\ Lowers(c)')
    BY <1>0, <2>1, <2>6 DEF WasRaised, WasLowered, Raises, Lowers, Flow, Typed, Moved
  <2> QED
    BY <2>2, <2>3, <2>4, <2>5, <2>6, Assemble
<1>6. CASE Status(c)
  <2>1. /\ call[c].pc = "query" /\ written' = written /\ next' = next /\ outlet' = outlet /\ boots' = boots
        /\ Moved(c, "done", outlet) \/ Moved(c, "done", "unknown")
    BY <1>6, ReplyMoves DEF Status, Typed, ringVars, powerVars
  <2>2. Typed'
    BY <1>0, <2>1 DEF Typed, Moved
  <2>3. Own(c)'
    <3>1. Flow(c)'
      BY <1>0, <2>1 DEF Flow, Typed, Moved
    <3>2. Rebooted(c)'
      BY <1>0, <2>1 DEF Rebooted, MustHaveBooted, Succeeded, Flow, Typed, CallType, Moved
    <3>3. Cleared(c)'
      BY <1>0, <2>1 DEF Cleared, HasCleared, NotOlder, Succeeded, Flow, Typed, CallType, Moved
    <3> QED
      BY <3>1, <3>2, <3>3 DEF Own
  <2>4. ASSUME NEW d \in Calls, d # c PROVE Own(d)'
    <3>1. call'[d] = call[d] /\ Own(d)
      BY <1>0, <2>1, <2>4 DEF Moved
    <3>2. Flow(d)' /\ Rebooted(d)'
      BY <1>0, <2>1, <3>1 DEF Own, Flow, Rebooted, MustHaveBooted, Succeeded, Typed, CallType
    <3>3. Cleared(d)'
      BY <1>0, <2>1, <3>1 DEF Own, Cleared, HasCleared, NotOlder, Succeeded, Typed, CallType
    <3> QED
      BY <3>2, <3>3 DEF Own
  <2>5. ASSUME NEW d \in Calls
       PROVE  /\ outlet' = "off" => outlet = "off" \/ Darkens(c)'
              /\ Darkens(d) => Darkens(d)' \/ outlet' = "on"
              /\ (Raises(d) => Raises(d)') /\ (Lowers(d) => Lowers(d)')
    BY <1>0, <2>1, <2>5 DEF Darkens, Raises, Lowers, Flow, Typed, Moved
  <2>6. ASSUME NEW d \in Calls
       PROVE  /\ WasRaised(d)' => WasRaised(d) \/ (d # c /\ Raises(c)')
              /\ WasLowered(d)' => WasLowered(d) \/ (d # c /\ Lowers(c)')
    BY <1>0, <2>1, <2>6 DEF WasRaised, WasLowered, Raises, Lowers, Flow, Typed, Moved
  <2> QED
    BY <2>2, <2>3, <2>4, <2>5, <2>6, Assemble
<1> QED
  BY <1>1, <1>2, <1>3, <1>4, <1>5, <1>6 DEF Step

\* Every step keeps the invariant.
LEMMA NextIInv == IInv /\ [Next]_vars => IInv'
<1> SUFFICES ASSUME IInv, [Next]_vars PROVE IInv'
  OBVIOUS
<1> USE DEF IInv
<1>1. CASE ReadLoop
  <2>1. outlet' = outlet /\ boots' = boots /\ call' = call
    BY <1>1 DEF ReadLoop, powerVars
  <2>2. Typed'
    BY <1>1, <2>1, PublishedNewer DEF Typed
  <2>3. ASSUME NEW c \in Calls PROVE Own(c)'
    <3>1. Flow(c)' /\ Rebooted(c)'
      BY <2>1 DEF Own, Flow, Rebooted, MustHaveBooted, Succeeded
    <3>2. call[c].next \in Nat /\ Cleared(c)
      BY DEF Own, Typed, CallType
    <3>3. NotOlder(call[c].next) => NotOlder(call[c].next)'
      BY <1>1, <2>1, <3>2, PublishedNewer DEF NotOlder, Cleared
    <3>4. Cleared(c)'
      BY <1>1, <2>1, <3>2, <3>3, PublishedNewer DEF Cleared, HasCleared, Succeeded, Typed
    <3> QED
      BY <3>1, <3>4 DEF Own
  <2>4. Accounted' /\ Opposed'
    BY <2>1 DEF Accounted, Darkens, Opposed, WasRaised, WasLowered, Raises, Lowers
  <2> QED
    BY <2>2, <2>3, <2>4
<1>2. CASE \E c \in Calls : Step(c)
  BY <1>2, StepIInv
<1>3. CASE UNCHANGED <<ringVars, powerVars, call>>
  <2>1. Typed' /\ Accounted' /\ Opposed'
    BY <1>3 DEF ringVars, powerVars, Typed, Accounted, Darkens, Opposed,
                WasRaised, WasLowered, Raises, Lowers
  <2>2. ASSUME NEW c \in Calls PROVE Own(c)'
    BY <1>3 DEF ringVars, powerVars, Own, Flow, Rebooted, MustHaveBooted,
                Cleared, HasCleared, NotOlder, Succeeded
  <2> QED
    BY <2>1, <2>2
<1> QED
  BY <1>1, <1>2, <1>3 DEF Next, TargetPrints, vars

\* The invariant of the power control.
LEMMA IInvHolds == Spec => []IInv
  BY InitIInv, NextIInv, PTL DEF Spec

\* A cycle that is reported done has rebooted the target.
THEOREM ReportedCycleRebootedHolds == Spec => []ReportedCycleRebooted
<1>1. IInv => ReportedCycleRebooted
  BY DEF IInv, Own, Rebooted, MustHaveBooted, ReportedCycleRebooted
<1> QED
  BY IInvHolds, <1>1, PTL

\* A target left dark was asked for, or its caller knows that he failed.
THEOREM DarkIsToldHolds == Spec => []DarkIsTold
<1>1. IInv => DarkIsTold
  BY DEF IInv, Accounted, Darkens, DarkIsTold, Quiet
<1> QED
  BY IInvHolds, <1>1, PTL

\* Only an opposing call undoes what a call did.
THEOREM OnlyAnotherCallUndoesHolds == Spec => []OnlyAnotherCallUndoes
<1>1. IInv => OnlyAnotherCallUndoes
  BY DEF IInv, Opposed, WasRaised, WasLowered, Raises, Lowers, OnlyAnotherCallUndoes
<1> QED
  BY IInvHolds, <1>1, PTL

\* After a reported cycle or off nothing is left of what was in the log when the
\* call was made; what was then still on the line may arrive later.
THEOREM FreshLogHolds == Spec => []FreshLog
<1>1. IInv => FreshLog
  BY DEF IInv, Own, Cleared, HasCleared, NotOlder, FreshLog
<1> QED
  BY IInvHolds, <1>1, PTL

-----------------------------------------------------------------------------
(***************************************************************************)
(* The scrollback ring returns the newest output in order, proved for      *)
(* every capacity and every sequence of writes and resets that the power   *)
(* control and the target produce.                                         *)
(*                                                                         *)
(* The invariant says where each byte is: the i-th of the `size' newest    *)
(* bytes is `i' slots behind `start', around the buffer.                   *)
(***************************************************************************)

\* Up to three times around, the slot is found by subtraction.
Around(a) ==
    IF a < Cap THEN a ELSE IF a < 2 * Cap THEN a - Cap ELSE a - 2 * Cap

\* Where the ring's arithmetic ends up.
LEMMA Modulo ==
  ASSUME NEW a \in Nat, a < 3 * Cap
  PROVE  a % Cap = Around(a) /\ Around(a) \in 0 .. Cap - 1
<1>1. Cap \in Nat /\ Cap > 0
  BY CapAssumption
<1>2. CASE a < Cap
  <2>1. a = 0 * Cap + a
    BY <1>1
  <2> QED
    BY <1>1, <1>2, <2>1 DEF Around
<1>3. CASE a >= Cap /\ a < 2 * Cap
  <2>1. a = 1 * Cap + (a - Cap) /\ a - Cap \in 0 .. Cap - 1
    BY <1>1, <1>3
  <2> QED
    BY <1>1, <1>3, <2>1 DEF Around
<1>4. CASE a >= 2 * Cap
  <2>1. a = 2 * Cap + (a - 2 * Cap) /\ a - 2 * Cap \in 0 .. Cap - 1
    BY <1>1, <1>4
  <2> QED
    BY <1>1, <1>4, <2>1 DEF Around
<1> QED
  BY <1>1, <1>2, <1>3, <1>4

\* Going on from a slot.
LEMMA Onward ==
  ASSUME NEW a \in Nat, a < 2 * Cap, NEW k \in 0 .. Cap
  PROVE  /\ Around(Around(a) + k) = Around(a + k)
         /\ Around(a + k) = IF Around(a) + k < Cap THEN Around(a) + k
                            ELSE Around(a) + k - Cap
<1>1. Cap \in Nat /\ Cap > 0
  BY CapAssumption
<1>2. CASE a < Cap
  BY <1>1, <1>2 DEF Around
<1>3. CASE a >= Cap
  BY <1>1, <1>3 DEF Around
<1> QED
  BY <1>1, <1>2, <1>3

-----------------------------------------------------------------------------
Bytes == 0 .. MaxBytes

\* The i-th of the newest bytes is i slots behind the start.
InOrder ==
    \A i \in 0 .. size - 1 :
      buf[Around(start + i)] = written[Len(written) - size + i + 1]

Ring ==
    /\ RingTypeOK
    /\ written \in Seq(Bytes)
    /\ size = Least(Cap, Len(written))
    /\ InOrder
    /\ Len(written) > Cap => truncated

\* What the console writes, at the end of what has been written.
Appended(p) ==
    /\ written' = written \o p
    /\ totalIn' = totalIn + Len(p)

\* What was written, and what is written now.
LEMMA Appending ==
  ASSUME Ring, NEW p \in Seq(Bytes), Appended(p)
  PROVE  /\ written' \in Seq(Bytes) /\ totalIn' \in Nat
         /\ Len(written') = Len(written) + Len(p)
         /\ Len(written) \in Nat /\ Len(p) \in Nat
         /\ \A i \in 1 .. Len(written) : written'[i] = written[i]
         /\ \A i \in 1 .. Len(p) : written'[Len(written) + i] = p[i]
<1>1. written \in Seq(Bytes) /\ totalIn \in Nat
  BY DEF Ring, RingTypeOK
<1>2. /\ written' \in Seq(Bytes)
      /\ Len(written') = Len(written) + Len(p)
      /\ \A i \in 1 .. Len(written) + Len(p) :
           written'[i] = IF i <= Len(written) THEN written[i] ELSE p[i - Len(written)]
  BY <1>1, ConcatProperties DEF Appended
<1>3. Len(written) \in Nat /\ Len(p) \in Nat
  BY <1>1, LenProperties
<1>4. totalIn' \in Nat
  BY <1>1, <1>3 DEF Appended
<1>5. \A i \in 1 .. Len(written) : written'[i] = written[i]
  BY <1>2, <1>3
<1>6. ASSUME NEW i \in 1 .. Len(p) PROVE written'[Len(written) + i] = p[i]
  <2>1. Len(written) + i \in 1 .. Len(written) + Len(p) /\ ~(Len(written) + i <= Len(written))
    BY <1>3
  <2>2. (Len(written) + i) - Len(written) = i
    BY <1>3
  <2> QED
    BY <1>2, <2>1, <2>2
<1> QED
  BY <1>2, <1>3, <1>4, <1>5, <1>6

\* The elements of the end of a sequence.
LEMMA Rest ==
  ASSUME NEW p \in Seq(Bytes), NEW k \in 0 .. Len(p)
  PROVE  /\ Len(SubSeq(p, k + 1, Len(p))) = Len(p) - k
         /\ \A i \in 1 .. Len(p) - k : SubSeq(p, k + 1, Len(p))[i] = p[k + i]
<1>1. Len(p) \in Nat /\ \A i \in 1 .. Len(p) : p[i] \in Bytes
  BY LenProperties, ElementOfSeq
<1>2. k + 1 \in Int /\ Len(p) \in Int /\ \A i \in k + 1 .. Len(p) : p[i] \in Bytes
  BY <1>1
<1>3. /\ Len(SubSeq(p, k + 1, Len(p))) =
           IF k + 1 <= Len(p) THEN Len(p) - (k + 1) + 1 ELSE 0
      /\ \A i \in 1 .. Len(p) - (k + 1) + 1 :
           SubSeq(p, k + 1, Len(p))[i] = p[(k + 1) + i - 1]
  BY <1>2, SubSeqProperties
<1>4. Len(SubSeq(p, k + 1, Len(p))) = Len(p) - k
  BY <1>1, <1>3
<1>5. ASSUME NEW i \in 1 .. Len(p) - k PROVE SubSeq(p, k + 1, Len(p))[i] = p[k + i]
  <2>1. i \in 1 .. Len(p) - (k + 1) + 1 /\ (k + 1) + i - 1 = k + i
    BY <1>1
  <2>2. SubSeq(p, k + 1, Len(p))[i] = p[(k + 1) + i - 1]
    BY <1>3, <2>1
  <2> QED
    BY <2>1, <2>2
<1> QED
  BY <1>4, <1>5

\* A write of a whole ring or more.
LEMMA TailKeeps ==
  ASSUME Ring, NEW p \in Seq(Bytes), WriteTail(p), Appended(p)
  PROVE  Ring'
<1>0. /\ written' \in Seq(Bytes) /\ totalIn' \in Nat
      /\ Len(written') = Len(written) + Len(p)
      /\ Len(written) \in Nat /\ Len(p) \in Nat
  BY Appending
<1>1. Cap \in Nat /\ Cap > 0 /\ Len(p) \in Nat /\ Len(p) >= Cap
  BY CapAssumption, LenProperties DEF WriteTail
<1> DEFINE t == SubSeq(p, (Len(p) - Cap) + 1, Len(p))
<1>2. Len(t) = Cap /\ \A i \in 1 .. Cap : t[i] = p[Len(p) - Cap + i]
  <2>1. Len(p) - Cap \in 0 .. Len(p) /\ Len(p) - (Len(p) - Cap) = Cap
    BY <1>1
  <2> QED
    BY <2>1, Rest
<1>3. buf' = CopyAt(buf, 0, t) /\ start' = 0 /\ size' = Cap /\ truncated' = TRUE
  BY DEF WriteTail
<1> HIDE DEF t
<1>4. \A j \in 0 .. Cap - 1 : buf'[j] = p[Len(p) - Cap + (j + 1)]
  BY <1>1, <1>2, <1>3 DEF CopyAt, Ring, RingTypeOK
<1>5. buf' \in [0 .. Cap - 1 -> Bytes]
  <2>1. \A j \in 0 .. Cap - 1 : p[Len(p) - Cap + (j + 1)] \in Bytes
    BY <1>1, ElementOfSeq
  <2>2. DOMAIN buf' = 0 .. Cap - 1 /\ buf' = [j \in 0 .. Cap - 1 |-> buf'[j]]
    BY <1>3 DEF CopyAt, Ring, RingTypeOK
  <2> QED
    BY <1>4, <2>1, <2>2
<1>6. RingTypeOK'
  BY <1>1, <1>3, <1>0, <1>5 DEF RingTypeOK, Bytes
<1>7. ASSUME NEW i \in 0 .. Cap - 1
      PROVE  buf'[Around(0 + i)] = written'[Len(written') - Cap + i + 1]
  <2>1. Around(0 + i) = i
    BY <1>1 DEF Around
  <2>2. Len(p) - Cap + (i + 1) \in 1 .. Len(p)
    BY <1>1
  <2>3. Len(written') - Cap + i + 1 = Len(written) + (Len(p) - Cap + (i + 1))
    BY <1>0, <1>1
  <2> QED
    BY <1>4, <2>1, <2>2, <2>3, Appending
<1>8. Cap = Least(Cap, Len(written'))
  BY <1>0, <1>1 DEF Least
<1> QED
  BY <1>3, <1>6, <1>7, <1>0, <1>8 DEF Ring, InOrder

\* Where the data of a short write goes: behind the newest byte, and what does
\* not fit there, to the front.
LEMMA DataSlots ==
  ASSUME NEW C \in Nat, NEW end \in 0 .. C - 1, NEW m \in 0 .. C - 1, NEW n \in Nat,
         \/ n = m /\ m < C - end
         \/ n = C - end /\ m >= C - end,
         NEW k \in 0 .. m - 1
  PROVE  /\ end + k < C => /\ end + k \in 0 .. C - 1 /\ ~(end + k < m - n)
                           /\ end + k >= end /\ (end + k) - end < m
                           /\ (end + k) - end + 1 = k + 1
         /\ end + k >= C => /\ end + k - C \in 0 .. C - 1 /\ end + k - C < m - n
                            /\ n + ((end + k - C) + 1) = k + 1
<1>1. CASE n = m /\ m < C - end
  BY <1>1
<1>2. CASE n = C - end /\ m >= C - end
  BY <1>2
<1> QED
  BY <1>1, <1>2

\* None of it goes where one of the z older bytes stays, i slots from start s.
LEMMA OldSlots ==
  ASSUME NEW C \in Nat, NEW s \in 0 .. C - 1, NEW z \in 0 .. C, NEW end \in 0 .. C - 1,
         NEW m \in 0 .. C - 1, NEW n \in Nat,
         \/ n = m /\ m < C - end
         \/ n = C - end /\ m >= C - end,
         NEW i \in 0 .. z - 1, i >= m - (C - z), NEW a \in Int,
         \/ s + i < C /\ a = s + i
         \/ s + i >= C /\ a = s + i - C,
         \/ s + z < C /\ end = s + z
         \/ s + z >= C /\ end = s + z - C
  PROVE  a \in 0 .. C - 1 /\ ~(a < m - n) /\ ~(a >= end /\ a - end < m)
<1>1. CASE s + z < C /\ end = s + z
  <2>1. a = s + i /\ a < end
    BY <1>1
  <2>2. m - n <= s + i
    BY <1>1
  <2> QED
    BY <2>1, <2>2
<1>2. CASE s + z >= C /\ end = s + z - C
  <2>1. m - n = 0 \/ m - n = m - (C - end)
    OBVIOUS
  <2>2. CASE s + i < C /\ a = s + i
    BY <1>2, <2>1, <2>2
  <2>3. CASE s + i >= C /\ a = s + i - C
    BY <1>2, <2>1, <2>3
  <2> QED
    BY <2>2, <2>3
<1> QED
  BY <1>1, <1>2

\* A shorter write, behind the newest byte and around the end.
LEMMA WrapKeeps ==
  ASSUME Ring, NEW p \in Seq(Bytes), WriteWrapped(p), Appended(p)
  PROVE  Ring'
<1>0. /\ written' \in Seq(Bytes) /\ totalIn' \in Nat
      /\ Len(written') = Len(written) + Len(p)
      /\ Len(written) \in Nat /\ Len(p) \in Nat
  BY Appending
<1> DEFINE end  == (start + size) % Cap
           n    == Least(Len(p), Cap - end)
           over == Len(p) - (Cap - size)
           t    == SubSeq(p, n + 1, Len(p))
<1>1. /\ Cap \in Nat /\ Cap > 0 /\ Len(p) \in Nat /\ Len(p) < Cap
      /\ start \in 0 .. Cap - 1 /\ size \in 0 .. Cap
      /\ Len(written) \in Nat /\ size = Least(Cap, Len(written))
  BY CapAssumption, LenProperties DEF WriteWrapped, Ring, RingTypeOK
<1>2. end = Around(start + size) /\ end \in 0 .. Cap - 1
  <2>1. start + size \in Nat /\ start + size < 3 * Cap
    BY <1>1
  <2> QED
    BY <2>1, Modulo
<1>3. over > 0 => (start + over) % Cap = Around(start + over)
                  /\ Around(start + over) \in 0 .. Cap - 1
  <2>1. over > 0 => start + over \in Nat /\ start + over < 3 * Cap
    BY <1>1
  <2> QED
    BY <2>1, Modulo
<1>4. /\ buf' = CopyAt(CopyAt(buf, end, p), 0, t)
      /\ start' = IF over > 0 THEN (start + over) % Cap ELSE start
      /\ size' = IF over > 0 THEN Cap ELSE size + Len(p)
      /\ truncated' = (truncated \/ over > 0)
  BY DEF WriteWrapped
<1> HIDE DEF end
<1>5. /\ n \in 0 .. Len(p)
      /\ \/ n = Len(p) /\ Len(p) < Cap - end
         \/ n = Cap - end /\ Len(p) >= Cap - end
  BY <1>1, <1>2 DEF Least
<1>6. Len(t) = Len(p) - n /\ \A i \in 1 .. Len(p) - n : t[i] = p[n + i]
  BY <1>5, Rest
<1>a. /\ Cap \in Nat /\ start \in 0 .. Cap - 1 /\ size \in 0 .. Cap
      /\ Len(p) \in 0 .. Cap - 1 /\ n \in Nat
  BY <1>1, <1>5
<1> HIDE DEF n, t
<1>7. \A j \in 0 .. Cap - 1 :
        buf'[j] = IF j < Len(p) - n THEN p[n + (j + 1)]
                  ELSE IF j >= end /\ j - end < Len(p) THEN p[j - end + 1]
                  ELSE buf[j]
  BY <1>1, <1>2, <1>4, <1>5, <1>6 DEF CopyAt, Ring, RingTypeOK
<1>8. buf' \in [0 .. Cap - 1 -> Bytes]
  <2>1. ASSUME NEW j \in 0 .. Cap - 1 PROVE buf'[j] \in Bytes
    <3>1. \A i \in 1 .. Len(p) : p[i] \in Bytes
      BY ElementOfSeq
    <3>2. buf[j] \in Bytes
      BY DEF Ring, RingTypeOK, Bytes
    <3>3. CASE j < Len(p) - n
      <4>1. n + (j + 1) \in 1 .. Len(p)
        BY <1>1, <1>5, <3>3
      <4> QED
        BY <1>7, <3>1, <3>3, <4>1
    <3>4. CASE ~(j < Len(p) - n) /\ j >= end /\ j - end < Len(p)
      <4>1. j - end + 1 \in 1 .. Len(p)
        BY <1>1, <1>2, <3>4
      <4> QED
        BY <1>7, <3>1, <3>4, <4>1
    <3> QED
      BY <1>7, <3>2, <3>3, <3>4
  <2>2. DOMAIN buf' = 0 .. Cap - 1 /\ buf' = [j \in 0 .. Cap - 1 |-> buf'[j]]
    BY <1>4 DEF CopyAt, Ring, RingTypeOK
  <2> QED
    BY <2>1, <2>2
\* A byte of the data is behind the bytes that were there.
<1>9. ASSUME NEW k \in 0 .. Len(p) - 1
      PROVE  buf'[Around(start + size + k)] = p[k + 1]
  <2>1. Around(start + size + k) = IF end + k < Cap THEN end + k ELSE end + k - Cap
    <3>1. start + size \in Nat /\ start + size < 2 * Cap /\ k \in 0 .. Cap
      BY <1>1
    <3> QED
      BY <1>2, <3>1, Onward
  <2>2. CASE end + k < Cap
    <3>1. /\ end + k \in 0 .. Cap - 1 /\ ~(end + k < Len(p) - n)
          /\ end + k >= end /\ (end + k) - end < Len(p) /\ (end + k) - end + 1 = k + 1
      BY <1>a, <1>2, <1>5, <2>2, DataSlots
    <3> QED
      BY <1>7, <2>1, <2>2, <3>1
  <2>3. CASE end + k >= Cap
    <3>1. /\ end + k - Cap \in 0 .. Cap - 1 /\ end + k - Cap < Len(p) - n
          /\ n + ((end + k - Cap) + 1) = k + 1
      BY <1>a, <1>2, <1>5, <2>3, DataSlots
    <3>2. buf'[end + k - Cap] = p[n + ((end + k - Cap) + 1)]
      BY <1>7, <3>1
    <3>3. Around(start + size + k) = end + k - Cap
      BY <1>1, <1>2, <2>1, <2>3
    <3> QED
      BY <3>1, <3>2, <3>3
  <2> QED
    BY <1>1, <1>2, <2>2, <2>3
\* A byte that is not among the oldest, which give way, stays where it is.
<1>10. ASSUME NEW i \in 0 .. size - 1, i >= over
       PROVE  buf'[Around(start + i)] = written[Len(written) - size + i + 1]
  <2>1. /\ Around(start + i) \in 0 .. Cap - 1
        /\ ~(Around(start + i) < Len(p) - n)
        /\ ~(Around(start + i) >= end /\ Around(start + i) - end < Len(p))
    <3> DEFINE a == Around(start + i)
    <3>1. /\ \/ start + i < Cap /\ a = start + i
             \/ start + i >= Cap /\ a = start + i - Cap
          /\ \/ start + size < Cap /\ end = start + size
             \/ start + size >= Cap /\ end = start + size - Cap
      BY <1>1, <1>2 DEF Around
    <3> HIDE DEF a
    <3>2. a \in Int
      BY <1>1, <3>1
    <3>3. a \in 0 .. Cap - 1 /\ ~(a < Len(p) - n) /\ ~(a >= end /\ a - end < Len(p))
      BY <1>a, <1>2, <1>5, <1>10, <3>1, <3>2, OldSlots
    <3> QED
      BY <3>3 DEF a
  <2> QED
    BY <1>7, <2>1 DEF Ring, InOrder
<1>11. ASSUME NEW q \in 0 .. size + Len(p) - 1, q >= over
       PROVE  buf'[Around(start + q)] = written'[Len(written) - size + q + 1]
  <2>1. CASE q < size
    <3>1. q \in 0 .. size - 1 /\ Len(written) - size + q + 1 \in 1 .. Len(written)
      BY <1>1, <2>1 DEF Least
    <3> QED
      BY <1>10, <1>11, <3>1, Appending
  <2>2. CASE q >= size
    <3>1. /\ q - size \in 0 .. Len(p) - 1
          /\ start + size + (q - size) = start + q
          /\ (q - size) + 1 \in 1 .. Len(p)
          /\ Len(written) + ((q - size) + 1) = Len(written) - size + q + 1
      BY <1>1, <2>2
    <3>2. buf'[Around(start + q)] = p[(q - size) + 1]
      BY <1>9, <3>1
    <3>3. written'[Len(written) + ((q - size) + 1)] = p[(q - size) + 1]
      BY <3>1, Appending
    <3> QED
      BY <3>1, <3>2, <3>3
  <2> QED
    BY <1>1, <2>1, <2>2
<1>12. RingTypeOK'
  <2>1. size' \in 0 .. Cap /\ start' \in 0 .. Cap - 1
    BY <1>1, <1>3, <1>4
  <2>2. truncated' \in BOOLEAN
    BY <1>4 DEF Ring, RingTypeOK
  <2> QED
    BY <1>8, <2>1, <1>0, <2>2 DEF RingTypeOK, Bytes
<1>13. size' = Least(Cap, Len(written'))
  BY <1>1, <1>0, <1>4 DEF Least
<1>14. InOrder'
  <2>1. CASE over > 0
    <3>1. ASSUME NEW i \in 0 .. Cap - 1
          PROVE  buf'[Around(start' + i)] = written'[Len(written') - Cap + i + 1]
      <4>1. start' = Around(start + over)
        BY <1>3, <1>4, <2>1
      <4>2. Around(start' + i) = Around(start + (over + i))
        <5>1. /\ start + over \in Nat /\ start + over < 2 * Cap /\ i \in 0 .. Cap
              /\ (start + over) + i = start + (over + i)
          BY <1>1, <2>1
        <5>2. Around(Around(start + over) + i) = Around((start + over) + i)
          BY <5>1, Onward
        <5> QED
          BY <4>1, <5>1, <5>2
      <4>3. over + i \in 0 .. size + Len(p) - 1 /\ over + i >= over
        BY <1>1, <2>1
      <4>4. Len(written') - Cap + i + 1 = Len(written) - size + (over + i) + 1
        BY <1>0, <1>1
      <4> QED
        BY <1>11, <4>2, <4>3, <4>4
    <3> QED
      BY <1>4, <2>1, <3>1 DEF InOrder
  <2>2. CASE ~(over > 0)
    <3>1. ASSUME NEW i \in 0 .. size + Len(p) - 1
          PROVE  buf'[Around(start + i)] = written'[Len(written') - (size + Len(p)) + i + 1]
      <4>1. Len(written') - (size + Len(p)) + i + 1 = Len(written) - size + i + 1 /\ i >= over
        BY <1>1, <1>0, <2>2
      <4> QED
        BY <1>11, <4>1
    <3>2. size' = size + Len(p) /\ start' = start
      BY <1>4, <2>2
    <3>3. ASSUME NEW i \in 0 .. size' - 1
          PROVE  buf'[Around(start' + i)] = written'[Len(written') - size' + i + 1]
      <4>1. i \in 0 .. size + Len(p) - 1
        BY <1>1, <3>2
      <4> QED
        BY <3>1, <3>2, <4>1
    <3> QED
      BY <3>3 DEF InOrder
  <2> QED
    BY <2>1, <2>2
<1>15. Len(written') > Cap => truncated'
  <2>1. Len(written) > Cap => truncated
    BY DEF Ring
  <2>2. Len(written) <= Cap /\ Len(written) + Len(p) > Cap => over > 0
    BY <1>1 DEF Least
  <2>3. Len(written') > Cap => Len(written) > Cap \/ over > 0
    BY <1>0, <1>1, <2>2
  <2> HIDE DEF over
  <2> QED
    BY <1>4, <2>1, <2>3
<1> QED
  BY <1>12, <1>13, <1>0, <1>14, <1>15 DEF Ring

-----------------------------------------------------------------------------
\* A reset ring is empty.
LEMMA ResetKeeps == ASSUME Ring, Reset PROVE Ring'
<1>1. Cap \in Nat /\ Cap > 0
  BY CapAssumption
<1>2. written' = <<>> /\ size' = 0 /\ start' = 0 /\ totalIn' = 0 /\ truncated' = FALSE /\ buf' = buf
  BY DEF Reset
<1>3. written' \in Seq(Bytes) /\ Len(written') = 0
  BY <1>2, EmptySeq
<1>4. RingTypeOK'
  <2>1. 0 \in 0 .. Cap /\ 0 \in 0 .. Cap - 1 /\ 0 \in Nat /\ FALSE \in BOOLEAN
    BY <1>1
  <2> QED
    BY <1>2, <2>1 DEF Ring, RingTypeOK
<1>5. 0 = Least(Cap, 0) /\ ~(0 > Cap)
  BY <1>1 DEF Least
<1>6. InOrder'
  BY <1>2 DEF InOrder
<1> QED
  BY <1>2, <1>3, <1>4, <1>5, <1>6 DEF Ring

\* The bound on the output counts what is still on the line.
OnLine == next \in Nat \ {0} /\ line \in Nat /\ next + line <= MaxBytes + 1

\* Output goes through write, and the ring holds its tail.
LEMMA PublishKeeps == ASSUME OnLine, Ring, ReadLoop PROVE Ring' /\ OnLine'
<1>1. PICK n \in 1 .. line :
           Write([i \in 1 .. n |-> next + i - 1]) /\ line' = line - n
  BY DEF ReadLoop
<1> DEFINE p == [i \in 1 .. n |-> next + i - 1]
<1>2. /\ n \in Nat /\ next \in Nat /\ MaxBytes \in Nat /\ Cap \in Nat
      /\ next + n <= MaxBytes + 1
  BY CapAssumption, MaxBytesAssumption DEF OnLine
<1>3. p \in Seq(Bytes) /\ Len(p) = n
  <2>1. ASSUME NEW i \in 1 .. n PROVE next + i - 1 \in Bytes
    BY <1>2 DEF Bytes
  <2> QED
    BY <1>2, <2>1
<1>4. WriteTail(p) \/ WriteWrapped(p)
  BY <1>1 DEF Write
<1>5. Appended(p) /\ next' = next + Len(p)
  BY <1>1 DEF Write, Appended
<1> HIDE DEF p
<1>6. Ring'
  BY <1>3, <1>4, <1>5, TailKeeps, WrapKeeps
<1>7. OnLine'
  BY <1>1, <1>2, <1>3, <1>5 DEF OnLine
<1> QED
  BY <1>6, <1>7

\* Every step keeps the ring.
LEMMA RingKept == OnLine /\ Ring /\ [Next]_vars => OnLine' /\ Ring'
<1> SUFFICES ASSUME OnLine, Ring, [Next]_vars PROVE OnLine' /\ Ring'
  OBVIOUS
<1>1. CASE TargetPrints
  <2>1. OnLine'
    BY <1>1, CapAssumption, MaxBytesAssumption DEF TargetPrints, OnLine, ringVars
  <2>2. Ring'
    BY <1>1 DEF TargetPrints, ringVars, Ring, RingTypeOK, InOrder
  <2> QED
    BY <2>1, <2>2
<1>2. CASE ReadLoop
  BY <1>2, PublishKeeps
<1>3. ASSUME NEW c \in Calls, Hook(c) PROVE OnLine' /\ Ring'
  BY <1>3, ResetKeeps DEF Hook, Reset, OnLine
<1>4. ASSUME UNCHANGED <<ringVars, line>> PROVE OnLine' /\ Ring'
  BY <1>4 DEF ringVars, OnLine, Ring, RingTypeOK, InOrder
<1>5. ASSUME NEW c \in Calls, Step(c) PROVE Hook(c) \/ UNCHANGED <<ringVars, line>>
  BY <1>5 DEF Step, PowerControl, Off, CycleWait, On, Set, Status
<1>6. CASE UNCHANGED vars
  BY <1>4, <1>6 DEF vars
<1> QED
  BY <1>1, <1>2, <1>3, <1>4, <1>5, <1>6 DEF Next

\* The invariant of the ring.
LEMMA RingHolds == Spec => [](OnLine /\ Ring)
<1>1. Init => Ring
  <2>1. Cap \in Nat /\ Cap > 0 /\ MaxBytes \in Nat
    BY CapAssumption, MaxBytesAssumption
  <2>2. Init => written \in Seq(Bytes) /\ Len(written) = 0
    BY EmptySeq DEF Init, RingInit
  <2>3. 0 = Least(Cap, 0) /\ ~(0 > Cap)
    BY <2>1 DEF Least
  <2>4. Init => RingTypeOK
    <3>1. /\ 0 \in 0 .. Cap /\ 0 \in 0 .. Cap - 1 /\ 0 \in Nat /\ 0 \in 0 .. MaxBytes
          /\ FALSE \in BOOLEAN
      BY <2>1
    <3>2. [j \in 0 .. Cap - 1 |-> 0] \in [0 .. Cap - 1 -> 0 .. MaxBytes]
      BY <3>1
    <3> QED
      BY <3>1, <3>2 DEF Init, RingInit, RingTypeOK
  <2>5. Init => size = 0 /\ InOrder
    BY DEF Init, RingInit, InOrder
  <2> QED
    BY <2>2, <2>3, <2>4, <2>5 DEF Ring
<1>2. Init => OnLine
  BY MaxBytesAssumption DEF Init, RingInit, OnLine
<1> QED
  BY RingKept, <1>1, <1>2, PTL DEF Spec

\* The fields of the ring and of the calls keep their types.
THEOREM TypeOKHolds == Spec => []TypeOK
<1>1. OnLine => line \in 0 .. MaxBytes
  BY MaxBytesAssumption DEF OnLine
<1>2. OnLine /\ Ring /\ IInv => TypeOK
  BY <1>1 DEF Ring, IInv, Typed, CallType, TypeOK, Pcs, Replies
<1> QED
  BY IInvHolds, RingHolds, <1>2, PTL

\* A reader of the scrollback who gets less than was written is told.
THEOREM TruncationReportedHolds == Spec => []TruncationReported
<1>1. ASSUME Ring, NEW m \in 0 .. Cap + 1, Len(Snapshot(m).data) < Len(written)
      PROVE  Snapshot(m).truncated
  <2> DEFINE n == IF m > 0 /\ m < size THEN m ELSE size
  <2>1. Cap \in Nat /\ size \in 0 .. Cap /\ Len(written) \in Nat
        /\ size = Least(Cap, Len(written)) /\ n \in Nat
    <3>1. /\ Cap \in Nat /\ size \in 0 .. Cap /\ Len(written) \in Nat
          /\ size = Least(Cap, Len(written))
      BY <1>1, CapAssumption, LenProperties DEF Ring, RingTypeOK
    <3> QED
      BY <3>1
  <2>2. Len(Snapshot(m).data) = n
    BY <2>1 DEF Snapshot
  <2>3. CASE m > 0 /\ m < size
    BY <2>3 DEF Snapshot
  <2>4. CASE ~(m > 0 /\ m < size)
    <3>1. Len(written) > Cap
      BY <1>1, <2>1, <2>2, <2>4 DEF Least
    <3>2. truncated
      BY <1>1, <3>1 DEF Ring
    <3> QED
      BY <3>2 DEF Snapshot
  <2> QED
    BY <2>3, <2>4
<1>2. Ring => TruncationReported
  BY <1>1 DEF TruncationReported
<1> QED
  BY RingHolds, <1>2, PTL

\* A snapshot is the newest of what was written, in order, whatever the
\* capacity and however the buffer wrapped.
THEOREM SnapshotIsTailHolds == Spec => []SnapshotIsTail
<1>1. ASSUME Ring, NEW m \in 0 .. Cap + 1
      PROVE  Snapshot(m).data = LastOf(written, IF m = 0 THEN Cap ELSE Least(m, Cap))
  <2> DEFINE n     == IF m > 0 /\ m < size THEN m ELSE size
             L     == Len(written)
             begin == (start + (size - n)) % Cap
             first == Least(n, Cap - begin)
             data  == [i \in 1 .. n |-> IF i <= first THEN buf[begin + i - 1]
                                                      ELSE buf[i - first - 1]]
  <2>1. /\ Cap \in Nat /\ Cap > 0 /\ size \in 0 .. Cap /\ start \in 0 .. Cap - 1
        /\ L \in Nat /\ size = Least(Cap, L) /\ n \in 0 .. size
    <3>1. /\ Cap \in Nat /\ Cap > 0 /\ size \in 0 .. Cap /\ start \in 0 .. Cap - 1
          /\ L \in Nat /\ size = Least(Cap, L)
      BY <1>1, CapAssumption, LenProperties DEF Ring, RingTypeOK
    <3> QED
      BY <3>1
  <2>2. Least(IF m = 0 THEN Cap ELSE Least(m, Cap), L) = n
    BY <2>1 DEF Least
  <2>3. begin = Around(start + (size - n)) /\ begin \in 0 .. Cap - 1
    <3>1. start + (size - n) \in Nat /\ start + (size - n) < 3 * Cap
      BY <2>1
    <3> QED
      BY <3>1, Modulo
  <2>4. Snapshot(m).data = data
    BY DEF Snapshot
  <2>5. LastOf(written, IF m = 0 THEN Cap ELSE Least(m, Cap)) = SubSeq(written, L - n + 1, L)
    BY <2>2 DEF LastOf
  <2> HIDE DEF begin, n
  <2>6. \/ first = n /\ n <= Cap - begin
        \/ first = Cap - begin /\ n > Cap - begin
    BY <2>1, <2>3 DEF Least
  <2> HIDE DEF first
  <2>7. ASSUME NEW i \in 1 .. n
        PROVE  data[i] = written[L - n + i]
    <3>1. /\ start + (size - n) \in Nat /\ start + (size - n) < 2 * Cap
          /\ i - 1 \in 0 .. Cap
          /\ start + (size - n) + (i - 1) = start + (size - n + i - 1)
          /\ size - n + i - 1 \in 0 .. size - 1
          /\ L - size + (size - n + i - 1) + 1 = L - n + i
      BY <2>1
    <3>2. Around(start + (size - n + i - 1)) =
            IF begin + (i - 1) < Cap THEN begin + (i - 1) ELSE begin + (i - 1) - Cap
      BY <2>3, <3>1, Onward
    <3>3. buf[Around(start + (size - n + i - 1))] = written[L - n + i]
      BY <1>1, <3>1 DEF Ring, InOrder
    <3>4. CASE i <= first
      <4>1. begin + (i - 1) < Cap /\ begin + (i - 1) = begin + i - 1
        BY <2>1, <2>3, <2>6, <3>4
      <4> QED
        BY <3>2, <3>3, <3>4, <4>1
    <3>5. CASE ~(i <= first)
      <4>1. ~(begin + (i - 1) < Cap) /\ begin + (i - 1) - Cap = i - first - 1
        BY <2>1, <2>3, <2>6, <3>5
      <4> QED
        BY <3>2, <3>3, <3>5, <4>1
    <3> QED
      BY <3>4, <3>5
  <2>8. SubSeq(written, L - n + 1, L) = [i \in 1 .. n |-> written[L - n + i]]
    <3>1. L - n + 1 \in Int /\ L \in Int /\ L - (L - n + 1) + 1 = n
      BY <2>1
    <3>2. \A i \in L - n + 1 .. L : written[i] \in Bytes
      <4>1. \A i \in 1 .. L : written[i] \in Bytes
        BY <1>1, ElementOfSeq DEF Ring
      <4> QED
        BY <2>1, <4>1 DEF Least
    <3>3. /\ SubSeq(written, L - n + 1, L) \in Seq(Bytes)
          /\ Len(SubSeq(written, L - n + 1, L)) = IF L - n + 1 <= L THEN n ELSE 0
          /\ \A i \in 1 .. n : SubSeq(written, L - n + 1, L)[i] = written[(L - n + 1) + i - 1]
      <4> HIDE DEF L
      <4> QED
        BY <3>1, <3>2, SubSeqProperties
    <3>4. Len(SubSeq(written, L - n + 1, L)) = n
      BY <2>1, <3>3
    <3>5. \A i \in 1 .. n : (L - n + 1) + i - 1 = L - n + i
      BY <2>1
    <3>6. SubSeq(written, L - n + 1, L) \in [1 .. n -> Bytes]
      BY <3>3, <3>4, LenProperties
    <3> QED
      BY <3>3, <3>5, <3>6
  <2> QED
    BY <2>4, <2>5, <2>7, <2>8
<1>2. Ring => SnapshotIsTail
  BY <1>1 DEF SnapshotIsTail
<1> QED
  BY RingHolds, <1>2, PTL
=============================================================================
