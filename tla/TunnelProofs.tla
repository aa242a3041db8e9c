---------------------------- MODULE TunnelProofs ----------------------------
(***************************************************************************)
(* What becomes of the last bytes of a tunnel, for wires of any capacity   *)
(* and any amount of data in either direction.                             *)
(*                                                                         *)
(* The argument is one of book-keeping: as long as a pump has not ended,   *)
(* what it wrote, what it holds and what its wire holds add up to what its *)
(* source wrote (FromTarget, ToClient).  What can end a hop early is       *)
(* then excluded: a failed write or a reset reports "failed" and not the   *)
(* end, and the other direction ends only with the local input (Endings).  *)
(* The one exception is a Send to the daemon, which fails with io.EOF: it  *)
(* ends the tunnel with what the stream still holds (SendEnded).           *)
(***************************************************************************)
EXTENDS Tunnel, TLAPS

Sides == {"client", "daemon"}
Ends == {"no", "eof", "failed", "cancelled"}
WireStates == [n : 0 .. Cap, ended : Ends, deaf : BOOLEAN]
PumpStates == [pc : {"idle", "read", "write", "done"}, end : Ends]
Reported == [by : Pumps, err : Ends]

Held(p) == IF pump[p].pc = "write" THEN 1 ELSE 0
Done(p) == IF pump[p].pc = "done" THEN 1 ELSE 0

\* What p, which reads w, wrote or can still write.
Accounted(p, w) == moved[p] + Held(p) + wire[w].n

Typed ==
    /\ wire \in [Wires -> WireStates]
    /\ pump \in [Pumps -> PumpStates]
    /\ errc \in [Sides -> Seq(Reported)]
    /\ client \in {"running", "returned", "gone"}
    /\ daemon \in {"opening", "proxying", "done"}
    /\ moved \in [Pumps \cup {"local", "target"} -> Nat]

\* Nothing is written that was not read.
Bounded ==
    /\ moved["local"] <= MaxSent /\ moved["target"] <= MaxSent
    /\ Accounted("clientUp", "in") <= moved["local"]
    /\ Accounted("daemonUp", "up") <= moved["clientUp"]
    /\ Accounted("daemonDown", "reply") <= moved["target"]
    /\ Accounted("clientDown", "down") <= moved["daemonDown"]

\* A goroutine reports once, to its own side.
Reports ==
    /\ Len(errc["client"]) <= Done("clientUp") + Done("clientDown")
    /\ Len(errc["daemon"]) <= Done("daemonUp") + Done("daemonDown")
    /\ \A i \in 1 .. Len(errc["daemon"]) :
         errc["daemon"][i].by \in {"daemonUp", "daemonDown"}

\* What the place of client and daemon says of pumps and stream.
Stages ==
    /\ daemon = "opening"
         => pump["daemonUp"].pc = "idle" /\ pump["daemonDown"].pc = "idle"
    /\ daemon = "done" => wire["down"].deaf
    /\ daemon # "done" => wire["down"].ended = "no"
    /\ client = "gone"
         => pump["clientUp"].pc = "done" /\ pump["clientDown"].pc = "done"

\* Why a wire, or a chunk in hand, has an end.
Endings ==
    /\ wire["in"].ended \in {"no", "eof"}
    /\ wire["reply"].ended # "cancelled" /\ wire["down"].ended # "cancelled"
    /\ wire["up"].ended = "eof" => wire["in"].ended = "eof"
    /\ wire["up"].ended \in {"failed", "cancelled"}
         => client = "gone" \/ daemon = "done"
    /\ pump["daemonUp"].end = "no" /\ pump["clientDown"].end = "no"
    /\ pump["clientUp"].end \in {"no", "eof"}
    /\ pump["clientUp"].end = "eof"
         => pump["clientUp"].pc = "write" /\ wire["in"].ended = "eof"
    /\ pump["daemonDown"].end # "cancelled"
    /\ pump["daemonDown"].end # "no" => pump["daemonDown"].pc = "write"

Delivered == moved["daemonDown"] = moved["target"]

\* p reported on side s that it met the end, not a failure.
Said(s, p) ==
    \E i \in 1 .. Len(errc[s]) : errc[s][i].by = p /\ errc[s][i].err # "failed"

\* From the target into the stream: an orderly end comes after everything.
FromTarget ==
    /\ pump["daemonDown"].pc # "done" /\ wire["reply"].ended # "failed"
         => Accounted("daemonDown", "reply") = moved["target"]
    /\ pump["daemonDown"].end = "eof"
         => wire["reply"].ended # "no" /\ moved["daemonDown"] + 1 = moved["target"]
    /\ Said("daemon", "daemonDown")
         => /\ pump["daemonDown"].pc = "done" /\ wire["reply"].ended # "no"
            /\ Delivered
    /\ Said("daemon", "daemonUp")
         => wire["in"].ended = "eof" \/ client = "gone" \/ daemon = "done"

\* From the stream to the local program, likewise.
ToClient ==
    /\ pump["clientDown"].pc # "done"
         => Accounted("clientDown", "down") = moved["daemonDown"]
    /\ wire["down"].ended = "eof" /\ wire["in"].ended = "no" /\ client # "gone"
         => Delivered
    /\ Said("client", "clientDown") /\ wire["in"].ended = "no"
         => /\ daemon = "done" /\ pump["clientDown"].pc = "done"
            /\ moved["clientDown"] = moved["target"]

IInv == Typed /\ Bounded /\ Reports /\ Stages /\ Endings /\ FromTarget /\ ToClient

-----------------------------------------------------------------------------
\* Nothing has moved.
LEMMA InitIInv == Init => IInv
<1> SUFFICES ASSUME Init PROVE IInv
  OBVIOUS
<1> USE DEF Init
<1>1. Typed
  BY BoundsAssumption DEF Typed, WireStates, PumpStates, Side, Open, Goroutine, Ends, Wires, Pumps, Sides
<1>2. Bounded
  BY BoundsAssumption DEF Bounded, Accounted, Held, Open, Goroutine, Wires, Pumps
<1>3. Reports
  BY DEF Reports, Sides, Done, Goroutine, Pumps
<1>4. Stages /\ Endings
  BY DEF Stages, Endings, Open, Goroutine, Wires, Pumps, Side
<1>5. FromTarget /\ ToClient
  <2>1. Len(errc["daemon"]) = 0 /\ Len(errc["client"]) = 0
    BY DEF Sides
  <2>2. ~Said("daemon", "daemonDown") /\ ~Said("daemon", "daemonUp")
        /\ ~Said("client", "clientDown")
    BY <2>1 DEF Said
  <2> QED BY <2>2 DEF FromTarget, ToClient, Accounted, Held, Open, Goroutine,
                      Wires, Pumps
<1> QED BY <1>1, <1>2, <1>3, <1>4, <1>5 DEF IInv

-----------------------------------------------------------------------------
(* The two ends, and the functions on either side.                         *)

\* A wire with one or another field changed is a wire.
LEMMA WireState ==
    ASSUME NEW x \in WireStates, NEW k \in 0 .. Cap, NEW e \in Ends, NEW d \in BOOLEAN
    PROVE  /\ [x EXCEPT !.n = k] \in WireStates
           /\ [x EXCEPT !.ended = e] \in WireStates
           /\ [x EXCEPT !.deaf = d] \in WireStates
           /\ [x EXCEPT !.n = k].n = k
           /\ [x EXCEPT !.n = k].ended = x.ended /\ [x EXCEPT !.n = k].deaf = x.deaf
           /\ [x EXCEPT !.ended = e].ended = e
           /\ [x EXCEPT !.ended = e].n = x.n /\ [x EXCEPT !.ended = e].deaf = x.deaf
           /\ [x EXCEPT !.deaf = d].deaf = d
           /\ [x EXCEPT !.deaf = d].n = x.n /\ [x EXCEPT !.deaf = d].ended = x.ended
BY DEF WireStates

\* What becomes of one wire, and that nothing becomes of the others.
LEMMA WireSet ==
    ASSUME Typed, NEW w \in Wires, NEW x \in WireStates,
           wire' = [wire EXCEPT ![w] = x]
    PROVE  /\ wire' \in [Wires -> WireStates]
           /\ wire'[w] = x
           /\ \A v \in Wires \ {w} : wire'[v] = wire[v]
BY DEF Typed

\* What is counted, is counted in natural numbers.
LEMMA Numbers ==
    ASSUME Typed
    PROVE  /\ wire["in"].n \in Nat /\ wire["up"].n \in Nat
           /\ wire["reply"].n \in Nat /\ wire["down"].n \in Nat
           /\ moved["local"] \in Nat /\ moved["target"] \in Nat
           /\ moved["clientUp"] \in Nat /\ moved["daemonUp"] \in Nat
           /\ moved["daemonDown"] \in Nat /\ moved["clientDown"] \in Nat
BY BoundsAssumption DEF Typed, WireStates, Wires, Pumps

\* Without a report nothing is said; a report says what it says.
LEMMA Unsaid ==
    ASSUME UNCHANGED errc, NEW s, NEW p
    PROVE  Said(s, p)' <=> Said(s, p)
BY DEF Said

\* A goroutine reports to its side.
LEMMA Uttered ==
    ASSUME Typed, NEW s \in Sides, NEW e \in Reported,
           errc' = [errc EXCEPT ![s] = Append(@, e)]
    PROVE  /\ errc' \in [Sides -> Seq(Reported)]
           /\ Len(errc'[s]) = Len(errc[s]) + 1
           /\ errc'[s][Len(errc[s]) + 1] = e
           /\ \A i \in 1 .. Len(errc[s]) : errc'[s][i] = errc[s][i]
           /\ \A t \in Sides \ {s} : errc'[t] = errc[t]
           /\ \A p : Said(s, p)' <=> Said(s, p) \/ (e.by = p /\ e.err # "failed")
           /\ \A t \in Sides \ {s} : \A p : Said(t, p)' <=> Said(t, p)
<1>1. /\ errc' \in [Sides -> Seq(Reported)]
      /\ errc[s] \in Seq(Reported) /\ Len(errc[s]) \in Nat
      /\ errc'[s] = Append(errc[s], e)
      /\ \A t \in Sides \ {s} : errc'[t] = errc[t]
  BY DEF Typed
<1>2. /\ Len(errc'[s]) = Len(errc[s]) + 1
      /\ errc'[s][Len(errc[s]) + 1] = e
      /\ \A i \in 1 .. Len(errc[s]) : errc'[s][i] = errc[s][i]
  BY <1>1
<1>3. ASSUME NEW p
      PROVE  Said(s, p)' <=> Said(s, p) \/ (e.by = p /\ e.err # "failed")
  <2>1. \A i \in 1 .. Len(errc'[s]) :
           i \in 1 .. Len(errc[s]) \/ i = Len(errc[s]) + 1
    BY <1>1, <1>2
  <2>2. /\ \A i \in 1 .. Len(errc[s]) : i \in 1 .. Len(errc'[s])
        /\ Len(errc[s]) + 1 \in 1 .. Len(errc'[s])
    BY <1>1, <1>2
  <2> QED BY <1>2, <2>1, <2>2 DEF Said
<1>4. ASSUME NEW t \in Sides \ {s}, NEW p
      PROVE  Said(t, p)' <=> Said(t, p)
  BY <1>1 DEF Said
<1> QED BY <1>1, <1>2, <1>3, <1>4

\* The invariant speaks of few wires, and of these only of some fields.
LEMMA PutIInv ==
    ASSUME IInv,
           \/ Put("local", "in")
           \/ daemon = "proxying" /\ Put("target", "reply")
    PROVE  IInv'
<1>1. ASSUME NEW who \in {"local", "target"}, NEW w \in {"in", "reply"}, Put(who, w)
      PROVE  /\ wire' \in [Wires -> WireStates]
             /\ wire'[w].n = wire[w].n + 1
             /\ wire'[w].ended = wire[w].ended /\ wire[w].ended = "no"
             /\ \A v \in Wires \ {w} : wire'[v] = wire[v]
             /\ moved' \in [Pumps \cup {"local", "target"} -> Nat]
             /\ moved'[who] = moved[who] + 1 /\ moved[who] < MaxSent
             /\ \A m \in (Pumps \cup {"local", "target"}) \ {who} : moved'[m] = moved[m]
             /\ UNCHANGED <<pump, errc, client, daemon>>
  <2> DEFINE x == [wire[w] EXCEPT !.n = @ + 1]
  <2>1. wire[w] \in WireStates /\ w \in Wires
    BY DEF IInv, Typed, Wires
  <2>2. x \in WireStates /\ x.n = wire[w].n + 1 /\ x.ended = wire[w].ended
    BY <1>1, <2>1, BoundsAssumption DEF WireStates, Put
  <2>3. wire' = [wire EXCEPT ![w] = x]
    BY <1>1 DEF Put
  <2> HIDE DEF x
  <2>4. /\ wire' \in [Wires -> WireStates] /\ wire'[w] = x
        /\ \A v \in Wires \ {w} : wire'[v] = wire[v]
    BY <2>1, <2>2, <2>3, WireSet DEF IInv
  <2> QED BY <1>1, <2>2, <2>4 DEF Put, IInv, Typed
<1>2. CASE Put("local", "in")
  <2>1. Typed'
    BY <1>1, <1>2 DEF IInv, Typed
  <2>2. /\ wire'["up"] = wire["up"] /\ wire'["reply"] = wire["reply"]
        /\ wire'["down"] = wire["down"]
    BY <1>1, <1>2 DEF Wires
  <2>3. /\ moved'["clientUp"] = moved["clientUp"] /\ moved'["target"] = moved["target"]
        /\ moved'["daemonUp"] = moved["daemonUp"]
        /\ moved'["daemonDown"] = moved["daemonDown"]
        /\ moved'["clientDown"] = moved["clientDown"]
    BY <1>1, <1>2 DEF Pumps
  <2>4. /\ wire'["in"].n = wire["in"].n + 1 /\ wire'["in"].ended = wire["in"].ended
        /\ moved'["local"] = moved["local"] + 1 /\ moved["local"] < MaxSent
        /\ UNCHANGED <<pump, errc, client, daemon>>
    BY <1>1, <1>2
  <2>5. Bounded'
    BY <2>2, <2>3, <2>4, Numbers, BoundsAssumption DEF IInv, Bounded, Accounted, Held
  <2>6. Reports' /\ Stages' /\ Endings'
    BY <2>2, <2>4 DEF IInv, Reports, Done, Stages, Endings
  <2>7. FromTarget' /\ ToClient'
    BY <2>2, <2>3, <2>4, Unsaid
       DEF IInv, FromTarget, ToClient, Accounted, Held, Delivered, Pumps
  <2> QED BY <2>1, <2>5, <2>6, <2>7 DEF IInv
<1>3. CASE daemon = "proxying" /\ Put("target", "reply")
  <2>1. Typed'
    BY <1>1, <1>3 DEF IInv, Typed
  <2>2. /\ wire'["up"] = wire["up"] /\ wire'["in"] = wire["in"]
        /\ wire'["down"] = wire["down"]
    BY <1>1, <1>3 DEF Wires
  <2>3. /\ moved'["clientUp"] = moved["clientUp"] /\ moved'["local"] = moved["local"]
        /\ moved'["daemonUp"] = moved["daemonUp"]
        /\ moved'["daemonDown"] = moved["daemonDown"]
        /\ moved'["clientDown"] = moved["clientDown"]
    BY <1>1, <1>3 DEF Pumps
  <2>4. /\ wire'["reply"].n = wire["reply"].n + 1
        /\ wire'["reply"].ended = wire["reply"].ended /\ wire["reply"].ended = "no"
        /\ moved'["target"] = moved["target"] + 1 /\ moved["target"] < MaxSent
        /\ UNCHANGED <<pump, errc, client, daemon>>
    BY <1>1, <1>3
  <2>5. Bounded'
    BY <2>2, <2>3, <2>4, Numbers, BoundsAssumption DEF IInv, Bounded, Accounted, Held
  <2>6. FromTarget'
    BY <2>2, <2>3, <2>4, Unsaid, Numbers
       DEF IInv, FromTarget, Accounted, Held, Delivered
  <2>7. ToClient'
    BY <1>3, <2>2, <2>3, <2>4, Unsaid
       DEF IInv, ToClient, Stages, Accounted, Held, Delivered, Pumps
  <2> QED BY <2>1, <2>2, <2>3, <2>4, <2>5, <2>6, <2>7
          DEF IInv, Reports, Done, Stages, Endings
<1> QED BY <1>2, <1>3

\* The local program, or the target, takes what has arrived.
LEMMA GetIInv ==
    ASSUME IInv, NEW w \in {"out", "request"}, Get(w)
    PROVE  IInv'
<1> DEFINE x == [wire[w] EXCEPT !.n = @ - 1]
<1>1. x \in WireStates /\ w \in Wires /\ wire' = [wire EXCEPT ![w] = x]
  <2>1. w \in Wires /\ wire[w] \in WireStates
    BY DEF IInv, Typed, Wires
  <2>2. wire[w].n \in 0 .. Cap /\ wire[w].n > 0
    BY <2>1 DEF WireStates, Get
  <2>3. wire[w].n - 1 \in 0 .. Cap
    BY <2>2, BoundsAssumption
  <2> QED BY <2>1, <2>3, WireState DEF Get, Ends
<1> HIDE DEF x
<1>2. /\ wire' \in [Wires -> WireStates]
      /\ wire'["in"] = wire["in"] /\ wire'["up"] = wire["up"]
      /\ wire'["reply"] = wire["reply"] /\ wire'["down"] = wire["down"]
      /\ UNCHANGED <<pump, errc, client, daemon, moved>>
  BY <1>1, WireSet DEF IInv, Get, Wires
<1> QED
  BY <1>2, Unsaid DEF IInv, Typed, Bounded, Reports, Done, Stages, Endings, FromTarget,
                      ToClient, Accounted, Held, Delivered

\* The local input ends.
LEMMA LocalEndsIInv ==
    ASSUME IInv, LocalEnds
    PROVE  IInv'
<1>1. /\ wire' \in [Wires -> WireStates]
      /\ wire'["in"].n = wire["in"].n /\ wire'["in"].ended = "eof"
      /\ wire'["up"] = wire["up"]
      /\ wire'["reply"] = wire["reply"] /\ wire'["down"] = wire["down"]
      /\ UNCHANGED <<pump, errc, client, daemon, moved>>
  <2>1. PICK exits \in BOOLEAN :
           wire' = [wire EXCEPT !["in"].ended = "eof",
                                !["out"].deaf = @ \/ exits,
                                !["out"].n = IF exits THEN 0 ELSE @]
    BY DEF LocalEnds
  <2> DEFINE i == [wire["in"] EXCEPT !.ended = "eof"]
             k == IF exits THEN 0 ELSE wire["out"].n
             b == wire["out"].deaf \/ exits
             o == [wire["out"] EXCEPT !.deaf = b, !.n = k]
  <2>2. wire["in"] \in WireStates /\ wire["out"] \in WireStates
    BY DEF IInv, Typed, Wires
  <2>3. i \in WireStates /\ i.n = wire["in"].n /\ i.ended = "eof"
    BY <2>2 DEF WireStates, Ends
  <2>4. k \in 0 .. Cap /\ b \in BOOLEAN
    BY <2>2, BoundsAssumption DEF WireStates
  <2>5. wire' = [[wire EXCEPT !["in"] = i] EXCEPT !["out"] = o]
    BY <2>1 DEF IInv, Typed, Wires
  <2>6. o \in WireStates
    <3> HIDE DEF k, b
    <3> QED BY <2>2, <2>4 DEF WireStates
  <2> HIDE DEF i, o
  <2> QED BY <2>3, <2>5, <2>6 DEF IInv, Typed, Wires, LocalEnds
<1>2. Typed' /\ Reports' /\ Stages' /\ Endings'
  BY <1>1 DEF IInv, Typed, Reports, Done, Stages, Endings
<1> QED
  BY <1>1, <1>2, Unsaid DEF IInv, Bounded, FromTarget, ToClient, Accounted, Held,
                            Delivered

\* The target closes its connection, or resets it.
LEMMA TargetClosesIInv ==
    ASSUME IInv, TargetCloses
    PROVE  IInv'
<1>1. /\ wire' \in [Wires -> WireStates]
      /\ \/ wire'["reply"].ended = "failed" /\ wire'["reply"].n = 0
         \/ /\ wire'["reply"].ended = "eof" /\ wire'["reply"].n = wire["reply"].n
            /\ wire["reply"].ended = "no"
      /\ wire'["in"] = wire["in"] /\ wire'["up"] = wire["up"]
      /\ wire'["down"] = wire["down"]
      /\ UNCHANGED <<pump, errc, client, daemon, moved>>
  <2>1. wire["reply"] \in WireStates /\ wire["request"] \in WireStates
    BY DEF IInv, Typed, Wires
  <2>2. PICK r \in WireStates, q \in WireStates :
          /\ \/ r.ended = "failed" /\ r.n = 0
             \/ /\ r.ended = "eof" /\ r.n = wire["reply"].n
                /\ wire["reply"].ended = "no"
          /\ wire' = [[wire EXCEPT !["reply"] = r] EXCEPT !["request"] = q]
    <3>1. CASE /\ wire["reply"].ended = "no"
               /\ wire' = [wire EXCEPT !["reply"].ended = "eof", !["request"].deaf = TRUE]
      <4> DEFINE r == [wire["reply"] EXCEPT !.ended = "eof"]
                 q == [wire["request"] EXCEPT !.deaf = TRUE]
      <4>1. r \in WireStates /\ q \in WireStates /\ r.ended = "eof"
            /\ r.n = wire["reply"].n
        BY <2>1 DEF WireStates, Ends
      <4>2. wire' = [[wire EXCEPT !["reply"] = r] EXCEPT !["request"] = q]
        BY <3>1 DEF IInv, Typed, Wires
      <4> HIDE DEF r, q
      <4> QED BY <3>1, <4>1, <4>2
    <3>2. CASE wire' = [wire EXCEPT !["reply"].ended = "failed", !["reply"].n = 0,
                                    !["request"].deaf = TRUE, !["request"].n = 0]
      <4> DEFINE r == [wire["reply"] EXCEPT !.ended = "failed", !.n = 0]
                 q == [wire["request"] EXCEPT !.deaf = TRUE, !.n = 0]
      <4>1. r \in WireStates /\ q \in WireStates /\ r.ended = "failed" /\ r.n = 0
        <5>1. 0 \in 0 .. Cap
          BY BoundsAssumption
        <5> QED BY <2>1, <5>1 DEF WireStates, Ends
      <4>2. wire' = [[wire EXCEPT !["reply"] = r] EXCEPT !["request"] = q]
        BY <3>2 DEF IInv, Typed, Wires
      <4> HIDE DEF r, q
      <4> QED BY <4>1, <4>2
    <3> QED BY <3>1, <3>2 DEF TargetCloses
  <2> QED BY <2>2 DEF IInv, Typed, Wires, TargetCloses
<1>2. Typed' /\ Reports' /\ Stages' /\ Endings'
  BY <1>1 DEF IInv, Typed, Reports, Done, Stages, Endings
<1>3. Bounded'
  BY <1>1, Numbers DEF IInv, Bounded, Accounted, Held
<1>4. FromTarget' /\ ToClient'
  BY <1>1, Unsaid DEF IInv, FromTarget, ToClient, Accounted, Held, Delivered
<1> QED BY <1>2, <1>3, <1>4 DEF IInv

\* Client.Tunnel returns.
LEMMA ClientReturnsIInv ==
    ASSUME IInv, ClientReturns
    PROVE  IInv'
BY Unsaid DEF ClientReturns, IInv, Typed, Bounded, Reports, Stages, Endings,
              FromTarget, ToClient, Accounted, Held, Done, Delivered

\* The client process dies.
LEMMA ClientDiesIInv ==
    ASSUME IInv, ClientDies
    PROVE  IInv'
<1>1. /\ wire' \in [Wires -> WireStates]
      /\ wire'["in"].n = wire["in"].n /\ wire'["in"].ended = wire["in"].ended
      /\ wire'["up"].n = wire["up"].n /\ wire'["up"].ended = "cancelled"
      /\ wire'["reply"] = wire["reply"]
      /\ wire'["down"].n = wire["down"].n /\ wire'["down"].ended = wire["down"].ended
      /\ wire'["down"].deaf
  <2> DEFINE i == [wire["in"] EXCEPT !.deaf = TRUE]
             u == [wire["up"] EXCEPT !.ended = "cancelled"]
             d == [wire["down"] EXCEPT !.deaf = TRUE]
             o == [wire["out"] EXCEPT !.ended = IF @ = "no" THEN "eof" ELSE @]
  <2>1. /\ wire["in"] \in WireStates /\ wire["up"] \in WireStates
        /\ wire["down"] \in WireStates /\ wire["out"] \in WireStates
    BY DEF IInv, Typed, Wires
  <2>2. i \in WireStates /\ i.n = wire["in"].n /\ i.ended = wire["in"].ended
    BY <2>1 DEF WireStates
  <2>3. u \in WireStates /\ u.n = wire["up"].n /\ u.ended = "cancelled"
    BY <2>1 DEF WireStates, Ends
  <2>4. d \in WireStates /\ d.n = wire["down"].n /\ d.ended = wire["down"].ended /\ d.deaf
    BY <2>1 DEF WireStates
  <2>5. o \in WireStates
    BY <2>1 DEF WireStates, Ends
  <2>6. wire' = [[[[wire EXCEPT !["up"] = u] EXCEPT !["down"] = d]
                     EXCEPT !["in"] = i] EXCEPT !["out"] = o]
    BY DEF ClientDies, IInv, Typed, Wires
  <2> HIDE DEF i, u, d, o
  <2> QED BY <2>2, <2>3, <2>4, <2>5, <2>6 DEF IInv, Typed, Wires
<1>2. /\ pump' \in [Pumps -> PumpStates]
      /\ pump'["clientUp"] = Goroutine("done", "no")
      /\ pump'["clientDown"] = Goroutine("done", "no")
      /\ pump'["daemonUp"] = pump["daemonUp"]
      /\ pump'["daemonDown"] = pump["daemonDown"]
  BY DEF ClientDies, IInv, Typed, PumpStates, Pumps, Side, Goroutine, Ends
<1>3. client' = "gone" /\ UNCHANGED <<errc, daemon, moved>>
  BY DEF ClientDies
<1>4. Typed' /\ Stages' /\ Endings'
  BY <1>1, <1>2, <1>3 DEF IInv, Typed, Stages, Endings, Goroutine
<1>5. Reports'
  <2>1. /\ Len(errc["client"]) \in Nat
        /\ Done("clientUp") \in 0 .. 1 /\ Done("clientDown") \in 0 .. 1
    BY DEF IInv, Typed, Done, Sides
  <2>2. Done("clientUp")' = 1 /\ Done("clientDown")' = 1
    BY <1>2 DEF Done, Goroutine
  <2>3. UNCHANGED <<Done("daemonUp"), Done("daemonDown")>>
    BY <1>2 DEF Done
  <2> QED BY <1>3, <2>1, <2>2, <2>3 DEF IInv, Reports
<1>6. Bounded'
  BY <1>1, <1>2, <1>3, Numbers DEF IInv, Bounded, Accounted, Held, Goroutine
<1>7. FromTarget' /\ ToClient'
  BY <1>1, <1>2, <1>3, Unsaid
     DEF IInv, FromTarget, ToClient, Accounted, Held, Delivered, Goroutine
<1> QED BY <1>4, <1>5, <1>6, <1>7 DEF IInv

\* The daemon reaches the target.
LEMMA TunnelOpensIInv ==
    ASSUME IInv, TunnelOpens
    PROVE  IInv'
<1>1. /\ pump' \in [Pumps -> PumpStates]
      /\ pump'["daemonUp"] = Goroutine("read", "no")
      /\ pump'["daemonDown"] = Goroutine("read", "no")
      /\ pump'["clientUp"] = pump["clientUp"]
      /\ pump'["clientDown"] = pump["clientDown"]
  BY DEF TunnelOpens, IInv, Typed, PumpStates, Pumps, Side, Goroutine, Ends
<1>2. daemon' = "proxying" /\ daemon = "opening" /\ UNCHANGED <<wire, errc, client, moved>>
  BY DEF TunnelOpens
<1>3. pump["daemonUp"].pc = "idle" /\ pump["daemonDown"].pc = "idle"
  BY <1>2 DEF IInv, Stages
<1>4. Len(errc["daemon"]) = 0
  BY <1>3 DEF IInv, Typed, Reports, Done, Sides
<1>5. ~Said("daemon", "daemonUp")' /\ ~Said("daemon", "daemonDown")'
  BY <1>2, <1>4 DEF Said
<1>6. Typed' /\ Stages' /\ Endings'
  BY <1>1, <1>2 DEF IInv, Typed, Stages, Endings, Goroutine
<1>7. Reports'
  BY <1>1, <1>2, <1>3 DEF IInv, Typed, Reports, Done, Goroutine, Sides
<1>8. Bounded'
  BY <1>1, <1>2, <1>3, Numbers DEF IInv, Bounded, Accounted, Held, Goroutine
<1>9. FromTarget' /\ ToClient'
  BY <1>1, <1>2, <1>3, <1>5, Unsaid
     DEF IInv, FromTarget, ToClient, Accounted, Held, Delivered, Goroutine
<1> QED BY <1>6, <1>7, <1>8, <1>9 DEF IInv

\* StreamEnds, for a stream whose other wires are as w has them.
LEMMA Hung ==
    ASSUME NEW w \in [Wires -> WireStates], NEW e \in {"eof", "failed"}
    PROVE  LET v == StreamEnds(w, e) IN
           /\ v \in [Wires -> WireStates]
           /\ v["up"].n = w["up"].n /\ v["up"].ended = "cancelled"
           /\ v["down"].n = w["down"].n /\ v["down"].ended = e /\ v["down"].deaf
           /\ v["in"] = w["in"] /\ v["reply"] = w["reply"]
<1> DEFINE u == [w["up"] EXCEPT !.deaf = TRUE, !.ended = "cancelled"]
           d == [w["down"] EXCEPT !.deaf = TRUE, !.ended = e]
<1>1. w["up"] \in WireStates /\ w["down"] \in WireStates
  BY DEF Wires
<1>2. u \in WireStates /\ u.n = w["up"].n /\ u.ended = "cancelled"
  BY <1>1 DEF WireStates, Ends
<1>3. d \in WireStates /\ d.n = w["down"].n /\ d.ended = e /\ d.deaf
  BY <1>1 DEF WireStates, Ends
<1>4. StreamEnds(w, e) = [[w EXCEPT !["up"] = u] EXCEPT !["down"] = d]
  BY DEF StreamEnds, Wires
<1> HIDE DEF u, d
<1> QED BY <1>2, <1>3, <1>4 DEF Wires

\* The daemon does not reach the target.
LEMMA OpenFailsIInv ==
    ASSUME IInv, OpenFails
    PROVE  IInv'
<1>1. /\ wire' \in [Wires -> WireStates]
      /\ wire'["up"].n = wire["up"].n /\ wire'["up"].ended = "cancelled"
      /\ wire'["down"].n = wire["down"].n /\ wire'["down"].ended = "failed"
      /\ wire'["down"].deaf
      /\ wire'["in"] = wire["in"] /\ wire'["reply"] = wire["reply"]
      /\ daemon' = "done" /\ UNCHANGED <<pump, errc, client, moved>>
  BY Hung DEF OpenFails, IInv, Typed
<1>2. Typed' /\ Reports' /\ Stages' /\ Endings'
  BY <1>1 DEF IInv, Typed, Reports, Done, Stages, Endings
<1>3. Bounded' /\ FromTarget' /\ ToClient'
  BY <1>1, Unsaid DEF IInv, Bounded, FromTarget, ToClient, Accounted, Held, Delivered
<1> QED BY <1>2, <1>3 DEF IInv

\* The status is nil only after everything the target sent, or when the local
\* input or the client had ended.
LEMMA TunnelReturnsIInv ==
    ASSUME IInv, TunnelReturns
    PROVE  IInv'
<1> DEFINE r == Head(errc["daemon"])
           st == Status(r.err)
<1>1. /\ Len(errc["daemon"]) \in Nat /\ 1 \in 1 .. Len(errc["daemon"])
      /\ r = errc["daemon"][1] /\ r \in Reported
  BY DEF TunnelReturns, IInv, Typed, Sides
<1>2. r.by \in {"daemonUp", "daemonDown"}
  BY <1>1 DEF IInv, Reports
<1>3. st \in {"eof", "failed"}
  BY DEF Status
<1>4. st = "eof" => \/ wire["in"].ended = "eof" \/ client = "gone"
                    \/ Delivered
  <2>1. r.err # "failed" => Said("daemon", r.by)
    BY <1>1 DEF Said
  <2>2. st = "eof" => r.err # "failed" \/ client = "gone"
    BY DEF Status
  <2> QED BY <1>2, <2>1, <2>2 DEF IInv, FromTarget, TunnelReturns
<1>5. /\ daemon = "proxying" /\ daemon' = "done"
      /\ UNCHANGED <<pump, errc, client, moved>>
      /\ wire' = StreamEnds(ConnClosed(wire), st)
  BY DEF TunnelReturns
<1> HIDE DEF st, r
<1>6. /\ ConnClosed(wire) \in [Wires -> WireStates]
      /\ ConnClosed(wire)["in"] = wire["in"] /\ ConnClosed(wire)["up"] = wire["up"]
      /\ ConnClosed(wire)["down"] = wire["down"]
      /\ ConnClosed(wire)["reply"].ended = "failed" /\ ConnClosed(wire)["reply"].n = 0
  <2> DEFINE q == [wire["request"] EXCEPT !.ended = IF @ = "no" THEN "eof" ELSE @,
                                          !.deaf = TRUE]
             p == [wire["reply"] EXCEPT !.ended = "failed", !.n = 0, !.deaf = TRUE]
  <2>1. wire["request"] \in WireStates /\ wire["reply"] \in WireStates
    BY DEF IInv, Typed, Wires
  <2>2. q \in WireStates
    BY <2>1 DEF WireStates, Ends
  <2>3. p \in WireStates /\ p.ended = "failed" /\ p.n = 0
    <3>1. 0 \in 0 .. Cap
      BY BoundsAssumption
    <3> QED BY <2>1, <3>1 DEF WireStates, Ends
  <2>4. ConnClosed(wire) = [[wire EXCEPT !["request"] = q] EXCEPT !["reply"] = p]
    BY DEF ConnClosed, IInv, Typed, Wires
  <2> HIDE DEF p, q
  <2> QED BY <2>2, <2>3, <2>4 DEF IInv, Typed, Wires
<1>7. /\ wire' \in [Wires -> WireStates]
      /\ wire'["up"].n = wire["up"].n /\ wire'["up"].ended = "cancelled"
      /\ wire'["down"].n = wire["down"].n /\ wire'["down"].ended = st
      /\ wire'["down"].deaf
      /\ wire'["in"] = wire["in"]
      /\ wire'["reply"].ended = "failed" /\ wire'["reply"].n = 0
  BY <1>3, <1>5, <1>6, Hung
<1>8. Typed' /\ Reports' /\ Stages' /\ Endings'
  BY <1>3, <1>5, <1>7 DEF IInv, Typed, Reports, Done, Stages, Endings
<1>9. Bounded'
  BY <1>5, <1>7, Numbers DEF IInv, Bounded, Accounted, Held
<1>10. FromTarget' /\ ToClient'
  BY <1>4, <1>5, <1>7, Unsaid
     DEF IInv, FromTarget, ToClient, Accounted, Held, Delivered
<1> QED BY <1>8, <1>9, <1>10 DEF IInv

-----------------------------------------------------------------------------
(* The pumps.                                                              *)

\* Where each pump takes from and gives to.
LEMMA Ways ==
    /\ From["clientUp"] = "in" /\ From["daemonUp"] = "up"
    /\ From["daemonDown"] = "reply" /\ From["clientDown"] = "down"
    /\ To["clientUp"] = "up" /\ To["daemonUp"] = "request"
    /\ To["daemonDown"] = "down" /\ To["clientDown"] = "out"
    /\ Side("clientUp") = "client" /\ Side("clientDown") = "client"
    /\ Side("daemonUp") = "daemon" /\ Side("daemonDown") = "daemon"
BY DEF From, To, Side

\* The states of a pump at its beginning and its end.
LEMMA Ended ==
    /\ Goroutine("done", "no") \in PumpStates /\ Goroutine("read", "no") \in PumpStates
    /\ Goroutine("done", "no").pc = "done" /\ Goroutine("done", "no").end = "no"
    /\ Goroutine("read", "no").pc = "read" /\ Goroutine("read", "no").end = "no"
BY DEF Goroutine, PumpStates, Ends

\* A pump that ends, with a report or without.
Stops(p, e) ==
    /\ pump' = [pump EXCEPT ![p] = Goroutine("done", "no")]
    /\ \/ errc' = errc
       \/ errc' = [errc EXCEPT ![Side(p)] = Append(@, [by |-> p, err |-> e])]

\* A pump that stops says why, to its own side only.
LEMMA StopsSays ==
    ASSUME IInv, NEW p \in Pumps, NEW e \in Ends, pump[p].pc # "done", Stops(p, e)
    PROVE  /\ pump' \in [Pumps -> PumpStates]
           /\ pump'[p].pc = "done" /\ pump'[p].end = "no"
           /\ \A q \in Pumps \ {p} : pump'[q] = pump[q]
           /\ errc' \in [Sides -> Seq(Reported)]
           /\ Reports'
           /\ \A s \in Sides, q \in Pumps :
                Said(s, q)' => Said(s, q) \/ (q = p /\ s = Side(p) /\ e # "failed")
<1>1. /\ pump' \in [Pumps -> PumpStates]
      /\ pump'[p].pc = "done" /\ pump'[p].end = "no"
      /\ \A q \in Pumps \ {p} : pump'[q] = pump[q]
  BY Ended DEF IInv, Typed, Stops
<1>2. Done(p) = 0 /\ Done(p)' = 1 /\ \A q \in Pumps \ {p} : Done(q)' = Done(q)
  BY <1>1 DEF Done
<1>3. \A q \in Pumps : Done(q) \in 0 .. 1
  BY DEF Done
<1>4. Len(errc["client"]) \in Nat /\ Len(errc["daemon"]) \in Nat
  BY DEF IInv, Typed, Sides
<1>5. CASE errc' = errc
  <2>1. Reports'
    <3>1. \A q \in Pumps : Done(q) <= Done(q)' /\ Done(q)' \in 0 .. 1
      BY <1>2, <1>3
    <3>2. /\ Len(errc["client"]) <= Done("clientUp") + Done("clientDown")
          /\ Len(errc["daemon"]) <= Done("daemonUp") + Done("daemonDown")
      BY DEF IInv, Reports
    <3>3. /\ Len(errc'["client"]) <= Done("clientUp")' + Done("clientDown")'
          /\ Len(errc'["daemon"]) <= Done("daemonUp")' + Done("daemonDown")'
      BY <1>3, <1>4, <1>5, <3>1, <3>2 DEF Pumps
    <3> QED BY <1>5, <3>3 DEF IInv, Reports
  <2>2. \A s, q : Said(s, q)' <=> Said(s, q)
    BY <1>5, Unsaid
  <2> QED BY <1>1, <1>5, <2>1, <2>2 DEF IInv, Typed
<1>6. CASE errc' = [errc EXCEPT ![Side(p)] = Append(@, [by |-> p, err |-> e])]
  <2> DEFINE s == Side(p)
             r == [by |-> p, err |-> e]
  <2>1. r \in Reported /\ r.by = p /\ r.err = e /\ s \in Sides
    BY DEF Reported, Side, Sides
  <2>2. errc' = [errc EXCEPT ![s] = Append(@, r)]
    BY <1>6
  <2> HIDE DEF s, r
  <2>3. /\ errc' \in [Sides -> Seq(Reported)]
        /\ Len(errc'[s]) = Len(errc[s]) + 1
        /\ errc'[s][Len(errc[s]) + 1] = r
        /\ \A i \in 1 .. Len(errc[s]) : errc'[s][i] = errc[s][i]
        /\ \A t \in Sides \ {s} : errc'[t] = errc[t]
        /\ \A q : Said(s, q)' <=> Said(s, q) \/ (r.by = q /\ r.err # "failed")
        /\ \A t \in Sides \ {s} : \A q : Said(t, q)' <=> Said(t, q)
    BY <2>1, <2>2, Uttered DEF IInv
  <2>4. Reports'
    <3>1. CASE s = "client"
      <4>1. p \in {"clientUp", "clientDown"}
        BY <3>1 DEF s, Side, Pumps
      <4>2. errc'["daemon"] = errc["daemon"]
        BY <2>3, <3>1 DEF Sides
      <4>3. UNCHANGED <<Done("daemonUp"), Done("daemonDown")>>
        BY <1>2, <4>1 DEF Pumps
      <4>4. Done("clientUp")' + Done("clientDown")'
              = Done("clientUp") + Done("clientDown") + 1
        BY <1>2, <1>3, <4>1 DEF Pumps
      <4>5. /\ Done("clientUp") \in 0 .. 1 /\ Done("clientDown") \in 0 .. 1
            /\ Len(errc["client"]) <= Done("clientUp") + Done("clientDown")
            /\ Len(errc'["client"]) = Len(errc["client"]) + 1
        BY <1>3, <2>3, <3>1 DEF IInv, Reports, Pumps
      <4>6. Len(errc'["client"]) <= Done("clientUp")' + Done("clientDown")'
        BY <1>4, <4>4, <4>5
      <4> QED BY <4>2, <4>3, <4>6 DEF IInv, Reports
    <3>2. CASE s = "daemon"
      <4>1. p \in {"daemonUp", "daemonDown"}
        BY <3>2 DEF s, Side, Pumps
      <4>2. errc'["client"] = errc["client"]
        BY <2>3, <3>2 DEF Sides
      <4>3. UNCHANGED <<Done("clientUp"), Done("clientDown")>>
        BY <1>2, <4>1 DEF Pumps
      <4>4. Done("daemonUp")' + Done("daemonDown")'
              = Done("daemonUp") + Done("daemonDown") + 1
        BY <1>2, <1>3, <4>1 DEF Pumps
      <4>5. /\ Done("daemonUp") \in 0 .. 1 /\ Done("daemonDown") \in 0 .. 1
            /\ Len(errc["daemon"]) <= Done("daemonUp") + Done("daemonDown")
            /\ Len(errc'["daemon"]) = Len(errc["daemon"]) + 1
        BY <1>3, <2>3, <3>2 DEF IInv, Reports, Pumps
      <4>6. Len(errc'["daemon"]) <= Done("daemonUp")' + Done("daemonDown")'
        BY <1>4, <4>4, <4>5
      <4>7. ASSUME NEW i \in 1 .. Len(errc'["daemon"])
            PROVE  errc'["daemon"][i].by \in {"daemonUp", "daemonDown"}
        <5>1. i \in 1 .. Len(errc["daemon"]) \/ i = Len(errc["daemon"]) + 1
          BY <1>4, <4>5
        <5> QED BY <2>1, <2>3, <3>2, <4>1, <5>1 DEF IInv, Reports
      <4> QED BY <4>2, <4>3, <4>6, <4>7 DEF IInv, Reports
    <3> QED BY <2>1, <3>1, <3>2 DEF Sides
  <2>5. ASSUME NEW t \in Sides, NEW q \in Pumps, Said(t, q)'
        PROVE  Said(t, q) \/ (q = p /\ t = Side(p) /\ e # "failed")
    BY <2>1, <2>3, <2>5 DEF s
  <2> QED BY <1>1, <2>3, <2>4, <2>5
<1> QED BY <1>5, <1>6 DEF Stops

\* A pump reads.
LEMMA ReadIInv ==
    ASSUME IInv, NEW p \in Pumps, Read(p)
    PROVE  IInv'
<1> DEFINE w == From[p]
           x == [wire[w] EXCEPT !.n = @ - 1]
<1>1. w \in Wires /\ wire[w] \in WireStates /\ pump[p].pc = "read"
      /\ wire[w].n \in 0 .. Cap /\ wire[w].n > 0 /\ wire[w].ended \in Ends
  BY Ways DEF IInv, Typed, Wires, Pumps, Read, WireStates
<1>2. wire[w].n - 1 \in 0 .. Cap
  BY <1>1, BoundsAssumption
<1>3. /\ x \in WireStates /\ x.n = wire[w].n - 1 /\ x.ended = wire[w].ended
      /\ x.deaf = wire[w].deaf
  BY <1>1, <1>2, WireState DEF WireStates
<1>4. wire' = [wire EXCEPT ![w] = x] /\ UNCHANGED <<errc, client, daemon, moved>>
  BY DEF Read
<1>5. PICK end \in Ends :
        /\ pump' = [pump EXCEPT ![p] = Goroutine("write", end)]
        /\ end # "no" => end = wire[w].ended /\ wire[w].n = 1 /\ w \in {"in", "reply"}
  <2>1. PICK end \in {"no"} \cup (IF wire[w].n = 1 /\ w \in {"in", "reply"}
                                    THEN {wire[w].ended} ELSE {}) :
          pump' = [pump EXCEPT ![p] = Goroutine("write", end)]
    BY DEF Read
  <2> QED BY <1>1, <2>1 DEF Ends
<1> HIDE DEF x
<1>6. /\ wire' \in [Wires -> WireStates] /\ wire'[w] = x
      /\ \A v \in Wires \ {w} : wire'[v] = wire[v]
  BY <1>1, <1>3, <1>4, WireSet DEF IInv
<1>7. /\ pump' \in [Pumps -> PumpStates]
      /\ pump'[p].pc = "write" /\ pump'[p].end = end
      /\ \A q \in Pumps \ {p} : pump'[q] = pump[q]
  BY <1>5 DEF IInv, Typed, PumpStates, Goroutine
<1>8. Typed'
  BY <1>4, <1>6, <1>7 DEF IInv, Typed
<1>9. UNCHANGED <<Done("clientUp"), Done("clientDown"), Done("daemonUp"),
                  Done("daemonDown")>>
  BY <1>1, <1>7 DEF Done, Pumps
<1>10. Reports'
  BY <1>4, <1>9 DEF IInv, Reports
<1>11. CASE p = "clientUp"
  <2>1. /\ wire'["in"].n = wire["in"].n - 1 /\ wire'["in"].ended = wire["in"].ended
        /\ wire'["up"] = wire["up"] /\ wire'["reply"] = wire["reply"]
        /\ wire'["down"] = wire["down"] /\ pump'["clientUp"].pc = "write"
        /\ pump["clientUp"].pc = "read"
        /\ pump'["clientUp"].end # "no" => pump'["clientUp"].end = wire["in"].ended
        /\ pump'["daemonUp"] = pump["daemonUp"]
        /\ pump'["daemonDown"] = pump["daemonDown"]
        /\ pump'["clientDown"] = pump["clientDown"]
    BY <1>1, <1>3, <1>5, <1>6, <1>7, <1>11, Ways DEF Wires, Pumps
  <2>2. Stages' /\ Endings'
    BY <1>4, <2>1 DEF IInv, Stages, Endings
  <2>3. Bounded'
    BY <1>4, <2>1, Numbers DEF IInv, Bounded, Accounted, Held
  <2>4. FromTarget' /\ ToClient'
    BY <1>4, <2>1, Unsaid DEF IInv, FromTarget, ToClient, Accounted, Held, Delivered
  <2> QED BY <1>8, <1>10, <2>2, <2>3, <2>4 DEF IInv
<1>12. CASE p = "daemonUp"
  <2>1. /\ wire'["up"].n = wire["up"].n - 1 /\ wire'["up"].ended = wire["up"].ended
        /\ wire'["in"] = wire["in"] /\ wire'["reply"] = wire["reply"]
        /\ wire'["down"] = wire["down"] /\ pump'["daemonUp"].pc = "write"
        /\ pump["daemonUp"].pc = "read" /\ pump'["daemonUp"].end = "no"
        /\ pump'["clientUp"] = pump["clientUp"]
        /\ pump'["daemonDown"] = pump["daemonDown"]
        /\ pump'["clientDown"] = pump["clientDown"]
    BY <1>1, <1>3, <1>5, <1>6, <1>7, <1>12, Ways DEF Wires, Pumps
  <2>2. Stages' /\ Endings'
    BY <1>4, <2>1 DEF IInv, Stages, Endings
  <2>3. Bounded'
    BY <1>4, <2>1, Numbers DEF IInv, Bounded, Accounted, Held
  <2>4. FromTarget' /\ ToClient'
    BY <1>4, <2>1, Unsaid DEF IInv, FromTarget, ToClient, Accounted, Held, Delivered
  <2> QED BY <1>8, <1>10, <2>2, <2>3, <2>4 DEF IInv
<1>13. CASE p = "daemonDown"
  <2>1. /\ wire'["reply"].n = wire["reply"].n - 1
        /\ wire'["reply"].ended = wire["reply"].ended
        /\ wire'["in"] = wire["in"] /\ wire'["up"] = wire["up"]
        /\ wire'["down"] = wire["down"] /\ pump'["daemonDown"].pc = "write"
        /\ pump["daemonDown"].pc = "read"
        /\ pump'["daemonDown"].end # "no"
             => pump'["daemonDown"].end = wire["reply"].ended /\ wire["reply"].n = 1
        /\ pump'["clientUp"] = pump["clientUp"]
        /\ pump'["daemonUp"] = pump["daemonUp"]
        /\ pump'["clientDown"] = pump["clientDown"]
    BY <1>1, <1>3, <1>5, <1>6, <1>7, <1>13, Ways DEF Wires, Pumps
  <2>2. Stages' /\ Endings'
    BY <1>4, <2>1 DEF IInv, Stages, Endings
  <2>3. Bounded'
    BY <1>4, <2>1, Numbers DEF IInv, Bounded, Accounted, Held
  <2>4. FromTarget'
    BY <1>4, <2>1, Unsaid, Numbers DEF IInv, FromTarget, Accounted, Held, Delivered
  <2>5. ToClient'
    BY <1>4, <2>1, Unsaid DEF IInv, ToClient, Accounted, Held, Delivered
  <2> QED BY <1>8, <1>10, <2>2, <2>3, <2>4, <2>5 DEF IInv
<1>14. CASE p = "clientDown"
  <2>1. /\ wire'["down"].n = wire["down"].n - 1
        /\ wire'["down"].ended = wire["down"].ended
        /\ wire'["down"].deaf = wire["down"].deaf
        /\ wire'["in"] = wire["in"] /\ wire'["up"] = wire["up"]
        /\ wire'["reply"] = wire["reply"] /\ pump'["clientDown"].pc = "write"
        /\ pump["clientDown"].pc = "read" /\ pump'["clientDown"].end = "no"
        /\ pump'["clientUp"] = pump["clientUp"]
        /\ pump'["daemonUp"] = pump["daemonUp"]
        /\ pump'["daemonDown"] = pump["daemonDown"]
    BY <1>1, <1>3, <1>5, <1>6, <1>7, <1>14, Ways DEF Wires, Pumps
  <2>2. Stages' /\ Endings'
    BY <1>4, <2>1 DEF IInv, Stages, Endings
  <2>3. Bounded'
    BY <1>4, <2>1, Numbers DEF IInv, Bounded, Accounted, Held
  <2>4. FromTarget'
    BY <1>4, <2>1, Unsaid DEF IInv, FromTarget, Accounted, Held, Delivered
  <2>5. ToClient'
    BY <1>4, <2>1, Unsaid, Numbers DEF IInv, ToClient, Accounted, Held, Delivered
  <2> QED BY <1>8, <1>10, <2>2, <2>3, <2>4, <2>5 DEF IInv
<1> QED BY <1>11, <1>12, <1>13, <1>14 DEF Pumps

\* The end of an input: everything before it has been passed on.
LEMMA ReadEndsIInv ==
    ASSUME IInv, NEW p \in Pumps, ReadEnds(p)
    PROVE  IInv'
<1> DEFINE e == wire[From[p]].ended
<1>1. /\ From[p] \in Wires /\ e \in Ends \ {"no"} /\ pump[p].pc = "read"
      /\ wire[From[p]].n = 0 \/ e = "cancelled"
      /\ UNCHANGED <<client, daemon, moved>>
  BY Ways DEF IInv, Typed, Wires, Pumps, ReadEnds, WireStates
<1>2. Report(p, e, CloseSend(p))
  BY DEF ReadEnds
<1>3. wire' = CloseSend(p) /\ Stops(p, e)
  BY <1>2 DEF Report, Stops
<1> HIDE DEF e
<1>4. /\ pump' \in [Pumps -> PumpStates]
      /\ pump'[p].pc = "done" /\ pump'[p].end = "no"
      /\ \A q \in Pumps \ {p} : pump'[q] = pump[q]
      /\ errc' \in [Sides -> Seq(Reported)]
      /\ Reports'
      /\ \A s \in Sides, q \in Pumps :
           Said(s, q)' => Said(s, q) \/ (q = p /\ s = Side(p) /\ e # "failed")
  BY <1>1, <1>3, StopsSays
<1>5. CASE p = "clientUp"
  <2>1. /\ pump'["clientUp"].pc = "done" /\ pump'["clientUp"].end = "no"
        /\ pump["clientUp"].pc = "read"
        /\ pump'["daemonUp"] = pump["daemonUp"]
        /\ pump'["daemonDown"] = pump["daemonDown"]
        /\ pump'["clientDown"] = pump["clientDown"]
        /\ Said("daemon", "daemonDown")' => Said("daemon", "daemonDown")
        /\ Said("daemon", "daemonUp")' => Said("daemon", "daemonUp")
        /\ Said("client", "clientDown")' => Said("client", "clientDown")
    BY <1>1, <1>4, <1>5 DEF Pumps, Sides
  <2>2. wire["in"].ended = "eof"
    BY <1>1, <1>5, Ways DEF IInv, Endings, e
  <2>3. /\ wire' \in [Wires -> WireStates]
        /\ wire'["in"] = wire["in"] /\ wire'["reply"] = wire["reply"]
        /\ wire'["down"] = wire["down"] /\ wire'["up"].n = wire["up"].n
        /\ wire'["up"].ended \in {wire["up"].ended, "eof"}
    <3>1. CASE wire["up"].ended = "no"
      <4> DEFINE x == [wire["up"] EXCEPT !.ended = "eof"]
      <4>1. wire["up"] \in WireStates /\ "up" \in Wires
        BY DEF IInv, Typed, Wires
      <4>2. x \in WireStates /\ x.n = wire["up"].n /\ x.ended = "eof"
        BY <4>1, WireState DEF WireStates, Ends
      <4>3. wire' = [wire EXCEPT !["up"] = x]
        BY <1>3, <1>5, <3>1 DEF CloseSend
      <4> HIDE DEF x
      <4> QED BY <4>1, <4>2, <4>3, WireSet DEF IInv, Wires
    <3>2. CASE wire["up"].ended # "no"
      BY <1>3, <3>2 DEF CloseSend, IInv, Typed
    <3> QED BY <3>1, <3>2
  <2>4. Typed'
    BY <1>1, <1>4, <2>3 DEF IInv, Typed
  <2>5. Stages' /\ Endings'
    BY <1>1, <2>1, <2>2, <2>3 DEF IInv, Stages, Endings
  <2>6. Bounded'
    BY <1>1, <2>1, <2>3, Numbers DEF IInv, Bounded, Accounted, Held
  <2>7. FromTarget' /\ ToClient'
    BY <1>1, <2>1, <2>3 DEF IInv, FromTarget, ToClient, Accounted, Held, Delivered
  <2> QED BY <1>4, <2>4, <2>5, <2>6, <2>7 DEF IInv
<1>6. ASSUME p # "clientUp" PROVE UNCHANGED wire
  BY <1>3, <1>6 DEF CloseSend
<1>7. CASE p = "daemonUp"
  <2>1. /\ pump'["daemonUp"].pc = "done" /\ pump'["daemonUp"].end = "no"
        /\ pump["daemonUp"].pc = "read" /\ UNCHANGED wire
        /\ pump'["clientUp"] = pump["clientUp"]
        /\ pump'["daemonDown"] = pump["daemonDown"]
        /\ pump'["clientDown"] = pump["clientDown"]
        /\ Said("daemon", "daemonDown")' => Said("daemon", "daemonDown")
        /\ Said("daemon", "daemonUp")' => Said("daemon", "daemonUp") \/ e # "failed"
        /\ Said("client", "clientDown")' => Said("client", "clientDown")
    BY <1>1, <1>4, <1>6, <1>7 DEF Pumps, Sides
  <2>2. e # "failed" => wire["in"].ended = "eof" \/ client = "gone" \/ daemon = "done"
    BY <1>1, <1>7, Ways DEF IInv, Endings, e, Ends
  <2>3. Typed' /\ Stages' /\ Endings'
    BY <1>1, <1>4, <2>1 DEF IInv, Typed, Stages, Endings
  <2>4. Bounded'
    BY <1>1, <2>1, Numbers DEF IInv, Bounded, Accounted, Held
  <2>5. FromTarget' /\ ToClient'
    BY <1>1, <2>1, <2>2 DEF IInv, FromTarget, ToClient, Accounted, Held, Delivered
  <2> QED BY <1>4, <2>3, <2>4, <2>5 DEF IInv
<1>8. CASE p = "daemonDown"
  <2>1. /\ pump'["daemonDown"].pc = "done" /\ pump'["daemonDown"].end = "no"
        /\ pump["daemonDown"].pc = "read" /\ UNCHANGED wire
        /\ pump'["clientUp"] = pump["clientUp"]
        /\ pump'["daemonUp"] = pump["daemonUp"]
        /\ pump'["clientDown"] = pump["clientDown"]
        /\ Said("daemon", "daemonDown")' => Said("daemon", "daemonDown") \/ e # "failed"
        /\ Said("daemon", "daemonUp")' => Said("daemon", "daemonUp")
        /\ Said("client", "clientDown")' => Said("client", "clientDown")
    BY <1>1, <1>4, <1>6, <1>8 DEF Pumps, Sides
  <2>2. e # "failed" => wire["reply"].ended # "no" /\ Delivered
    <3>1. e = wire["reply"].ended /\ e # "no" /\ e # "cancelled" /\ wire["reply"].n = 0
      BY <1>1, <1>8, Ways DEF IInv, Endings, e
    <3> QED BY <2>1, <3>1, Numbers DEF IInv, FromTarget, Accounted, Held, Delivered
  <2>3. Typed' /\ Stages' /\ Endings'
    BY <1>1, <1>4, <2>1 DEF IInv, Typed, Stages, Endings
  <2>4. Bounded'
    BY <1>1, <2>1, Numbers DEF IInv, Bounded, Accounted, Held
  <2>5. FromTarget' /\ ToClient'
    BY <1>1, <2>1, <2>2 DEF IInv, FromTarget, ToClient, Accounted, Held, Delivered
  <2> QED BY <1>4, <2>3, <2>4, <2>5 DEF IInv
<1>9. CASE p = "clientDown"
  <2>1. /\ pump'["clientDown"].pc = "done" /\ pump'["clientDown"].end = "no"
        /\ pump["clientDown"].pc = "read" /\ UNCHANGED wire
        /\ pump'["clientUp"] = pump["clientUp"]
        /\ pump'["daemonUp"] = pump["daemonUp"]
        /\ pump'["daemonDown"] = pump["daemonDown"]
        /\ Said("daemon", "daemonDown")' => Said("daemon", "daemonDown")
        /\ Said("daemon", "daemonUp")' => Said("daemon", "daemonUp")
        /\ Said("client", "clientDown")' => Said("client", "clientDown") \/ e # "failed"
    BY <1>1, <1>4, <1>6, <1>9 DEF Pumps, Sides
  <2>2. e # "failed" /\ wire["in"].ended = "no"
          => daemon = "done" /\ moved["clientDown"] = moved["target"]
    <3>1. /\ e = wire["down"].ended /\ e # "no" /\ e # "cancelled"
          /\ wire["down"].n = 0
      BY <1>1, <1>9, Ways DEF IInv, Endings, e
    <3>2. daemon = "done" /\ client # "gone"
      BY <2>1, <3>1 DEF IInv, Stages
    <3>3. moved["clientDown"] = moved["daemonDown"]
      BY <2>1, <3>1, Numbers DEF IInv, ToClient, Accounted, Held
    <3>4. e # "failed" => e = "eof"
      BY <1>1, <3>1 DEF Ends
    <3> QED BY <3>1, <3>2, <3>3, <3>4 DEF IInv, ToClient, Delivered
  <2>3. Typed' /\ Stages' /\ Endings'
    BY <1>1, <1>4, <2>1 DEF IInv, Typed, Stages, Endings
  <2>4. Bounded'
    BY <1>1, <2>1, Numbers DEF IInv, Bounded, Accounted, Held
  <2>5. FromTarget' /\ ToClient'
    BY <1>1, <2>1, <2>2 DEF IInv, FromTarget, ToClient, Accounted, Held, Delivered
  <2> QED BY <1>4, <2>3, <2>4, <2>5 DEF IInv
<1> QED BY <1>5, <1>7, <1>8, <1>9 DEF Pumps

\* A failed write is reported as a failure (to the end of its stream clientUp
\* owes nothing): what it held is lost, and nobody is told otherwise.
LEMMA WriteFailsIInv ==
    ASSUME IInv, NEW p \in Pumps, WriteFails(p)
    PROVE  IInv'
<1> DEFINE e == IF p = "clientUp" THEN "eof" ELSE "failed"
<1>1. e \in Ends /\ pump[p].pc = "write" /\ UNCHANGED <<wire, client, daemon, moved>>
  BY DEF WriteFails, Ends
<1>2. Stops(p, e)
  BY DEF WriteFails, Stops
<1>3. p # "clientUp" => e = "failed"
  OBVIOUS
<1> HIDE DEF e
<1>4. /\ pump' \in [Pumps -> PumpStates]
      /\ pump'[p].pc = "done" /\ pump'[p].end = "no"
      /\ \A q \in Pumps \ {p} : pump'[q] = pump[q]
      /\ errc' \in [Sides -> Seq(Reported)]
      /\ Reports'
      /\ \A s \in Sides, q \in Pumps :
           Said(s, q)' => Said(s, q) \/ (q = p /\ s = Side(p) /\ e # "failed")
  BY <1>1, <1>2, StopsSays
<1>5. /\ Said("daemon", "daemonDown")' => Said("daemon", "daemonDown")
      /\ Said("daemon", "daemonUp")' => Said("daemon", "daemonUp")
      /\ Said("client", "clientDown")' => Said("client", "clientDown")
  BY <1>3, <1>4 DEF Pumps, Sides
<1>6. \A q \in Pumps : \/ pump'[q] = pump[q]
                       \/ /\ pump'[q].pc = "done" /\ pump'[q].end = "no"
                          /\ pump[q].pc = "write"
  BY <1>1, <1>4
<1>7. Typed'
  BY <1>1, <1>4 DEF IInv, Typed
<1>8. Stages' /\ Endings'
  BY <1>1, <1>6 DEF IInv, Stages, Endings, Pumps
<1>9. Bounded'
  <2>1. \A q \in Pumps : Held(q)' \in 0 .. 1 /\ Held(q) \in 0 .. 1 /\ Held(q)' <= Held(q)
    BY <1>6 DEF Held
  <2> QED BY <1>1, <2>1, Numbers DEF IInv, Bounded, Accounted, Pumps
<1>10. FromTarget' /\ ToClient'
  BY <1>1, <1>5, <1>6 DEF IInv, FromTarget, ToClient, Accounted, Held, Delivered, Pumps
<1> QED BY <1>4, <1>7, <1>8, <1>9, <1>10 DEF IInv

\* What a write changes of the wires: one chunk more, and for clientUp, whose
\* chunk came with the end of its input, the end of the stream.
LEMMA WriteSent ==
    ASSUME IInv, NEW p \in Pumps, Write(p)
    PROVE  /\ wire' \in [Wires -> WireStates]
           /\ wire'[To[p]].n = wire[To[p]].n + 1
           /\ wire'[To[p]].deaf = wire[To[p]].deaf
           /\ p # "clientUp" => wire'[To[p]].ended = wire[To[p]].ended
           /\ \A v \in Wires \ {To[p]} : wire'[v] = wire[v]
           /\ \/ wire'["up"].ended = wire["up"].ended
              \/ p = "clientUp" /\ pump[p].end # "no" /\ wire'["up"].ended = "eof"
<1> DEFINE w == To[p]
           x == [wire[w] EXCEPT !.n = @ + 1]
           sent == [wire EXCEPT ![w] = x]
<1>1. w \in Wires /\ wire[w] \in WireStates /\ wire["up"] \in WireStates
  BY Ways DEF IInv, Typed, Wires, Pumps
<1>2. wire[w].n \in 0 .. Cap /\ wire[w].n < Cap /\ wire[w].ended \in Ends
  BY <1>1 DEF Write, WireStates
<1>3. wire[w].n + 1 \in 0 .. Cap
  BY <1>2, BoundsAssumption
<1>4. /\ x \in WireStates /\ x.n = wire[w].n + 1 /\ x.ended = wire[w].ended
      /\ x.deaf = wire[w].deaf
  BY <1>1, <1>2, <1>3, WireState DEF WireStates
<1> HIDE DEF x
<1>5. /\ sent \in [Wires -> WireStates] /\ sent[w] = x
      /\ \A v \in Wires \ {w} : sent[v] = wire[v]
  BY <1>1, <1>4 DEF IInv, Typed
<1>6. sent["up"] \in WireStates /\ sent["up"].ended = wire["up"].ended /\ "up" \in Wires
  BY <1>4, <1>5 DEF Wires
<1>7. CASE pump[p].end = "no"
  <2>1. wire' = sent
    BY <1>7 DEF Write, x
  <2> HIDE DEF sent
  <2>2. wire' \in [Wires -> WireStates] /\ wire'[w] = x
    BY <1>5, <2>1
  <2>3. \A v \in Wires \ {w} : wire'[v] = wire[v]
    BY <1>5, <2>1
  <2>4. wire'["up"].ended = wire["up"].ended
    BY <1>6, <2>1
  <2> QED BY <1>4, <2>2, <2>3, <2>4
<1>8. CASE pump[p].end # "no"
  <2> DEFINE u == CloseSend(p)["up"].ended
             y == [sent["up"] EXCEPT !.ended = u]
  <2>1. wire' = [sent EXCEPT !["up"].ended = u]
    BY <1>8 DEF Write, Report, x
  <2>2. \/ p = "clientUp" /\ u = "eof"
        \/ u = wire["up"].ended
    BY <1>1 DEF CloseSend, IInv, Typed
  <2>3. u \in Ends
    BY <1>1, <2>2 DEF WireStates, Ends
  <2> HIDE DEF u
  <2>4. /\ y \in WireStates /\ y.ended = u /\ y.n = sent["up"].n
        /\ y.deaf = sent["up"].deaf
    BY <1>6, <2>3 DEF WireStates
  <2>5. u = wire["up"].ended => y = sent["up"]
    BY <1>6 DEF WireStates
  <2>6. wire' = [sent EXCEPT !["up"] = y]
    BY <2>1
  <2> HIDE DEF sent, y
  <2>7. /\ wire' \in [Wires -> WireStates] /\ wire'["up"] = y
        /\ \A v \in Wires \ {"up"} : wire'[v] = sent[v]
    BY <1>5, <1>6, <2>4, <2>6
  <2>8. p = "clientUp" => w = "up"
    BY Ways
  <2>9. p # "clientUp" => w # "up"
    BY Ways DEF Pumps
  <2>10. CASE p = "clientUp"
    BY <1>1, <1>4, <1>5, <1>8, <2>2, <2>4, <2>7, <2>8, <2>10
  <2>11. CASE p # "clientUp"
    <3>1. \A v \in Wires : wire'[v] = sent[v]
      BY <2>2, <2>5, <2>7, <2>11
    <3>2. wire'[w] = x
      BY <1>1, <1>5, <3>1
    <3>3. \A v \in Wires \ {w} : wire'[v] = wire[v]
      BY <1>5, <3>1
    <3>4. wire'["up"].ended = wire["up"].ended
      BY <1>6, <3>1
    <3> QED BY <1>4, <2>7, <3>2, <3>3, <3>4
  <2> QED BY <2>10, <2>11
<1> QED BY <1>7, <1>8

\* A write hands on what was held; with an end in hand it is the last.
LEMMA WriteIInv ==
    ASSUME IInv, NEW p \in Pumps, Write(p)
    PROVE  IInv'
<1> DEFINE e == pump[p].end
<1>1. /\ e \in Ends /\ pump[p].pc = "write" /\ ~wire[To[p]].deaf
      /\ moved' = [moved EXCEPT ![p] = @ + 1]
      /\ UNCHANGED <<client, daemon>>
  BY DEF Write, IInv, Typed, PumpStates
<1>2. /\ moved' \in [Pumps \cup {"local", "target"} -> Nat]
      /\ moved'[p] = moved[p] + 1
      /\ \A m \in (Pumps \cup {"local", "target"}) \ {p} : moved'[m] = moved[m]
  BY <1>1 DEF IInv, Typed
<1>3. \/ e = "no" /\ pump' = [pump EXCEPT ![p] = Goroutine("read", "no")] /\ errc' = errc
      \/ e # "no" /\ Stops(p, e)
  BY DEF Write, Report, Stops
<1> HIDE DEF e
<1>4. /\ pump' \in [Pumps -> PumpStates]
      /\ pump'[p].pc = (IF e = "no" THEN "read" ELSE "done") /\ pump'[p].end = "no"
      /\ \A q \in Pumps \ {p} : pump'[q] = pump[q]
      /\ errc' \in [Sides -> Seq(Reported)]
      /\ Reports'
      /\ \A s \in Sides, q \in Pumps :
           Said(s, q)' => \/ Said(s, q)
                          \/ q = p /\ s = Side(p) /\ e # "failed" /\ e # "no"
  <2>1. CASE e = "no" /\ pump' = [pump EXCEPT ![p] = Goroutine("read", "no")]
                      /\ errc' = errc
    <3>1. /\ pump' \in [Pumps -> PumpStates]
          /\ pump'[p].pc = "read" /\ pump'[p].end = "no"
          /\ \A q \in Pumps \ {p} : pump'[q] = pump[q]
      BY <2>1, Ended DEF IInv, Typed
    <3>2. UNCHANGED <<Done("clientUp"), Done("clientDown"), Done("daemonUp"),
                      Done("daemonDown")>>
      BY <1>1, <3>1 DEF Done, Pumps
    <3>3. Reports'
      BY <2>1, <3>2 DEF IInv, Reports
    <3>4. \A s, q : Said(s, q)' <=> Said(s, q)
      BY <2>1, Unsaid
    <3> QED BY <2>1, <3>1, <3>3, <3>4 DEF IInv, Typed
  <2>2. CASE e # "no" /\ Stops(p, e)
    BY <1>1, <2>2, StopsSays
  <2> QED BY <1>3, <2>1, <2>2
<1>5. /\ wire' \in [Wires -> WireStates]
      /\ wire'[To[p]].n = wire[To[p]].n + 1
      /\ wire'[To[p]].deaf = wire[To[p]].deaf
      /\ p # "clientUp" => wire'[To[p]].ended = wire[To[p]].ended
      /\ \A v \in Wires \ {To[p]} : wire'[v] = wire[v]
      /\ \/ wire'["up"].ended = wire["up"].ended
         \/ p = "clientUp" /\ e # "no" /\ wire'["up"].ended = "eof"
  BY WriteSent DEF e
<1>6. Typed'
  BY <1>1, <1>2, <1>4, <1>5 DEF IInv, Typed
<1>7. CASE p = "clientUp"
  <2>1. /\ pump["clientUp"].pc = "write" /\ pump["clientUp"].end = e
        /\ pump'["clientUp"].pc \in {"read", "done"} /\ pump'["clientUp"].end = "no"
        /\ pump'["daemonUp"] = pump["daemonUp"]
        /\ pump'["daemonDown"] = pump["daemonDown"]
        /\ pump'["clientDown"] = pump["clientDown"]
        /\ Said("daemon", "daemonDown")' => Said("daemon", "daemonDown")
        /\ Said("daemon", "daemonUp")' => Said("daemon", "daemonUp")
        /\ Said("client", "clientDown")' => Said("client", "clientDown")
    BY <1>1, <1>4, <1>7 DEF Pumps, Sides, e
  <2>2. /\ wire'["in"] = wire["in"] /\ wire'["reply"] = wire["reply"]
        /\ wire'["down"] = wire["down"] /\ wire'["up"].n = wire["up"].n + 1
        /\ \/ wire'["up"].ended = wire["up"].ended
           \/ e # "no" /\ wire'["up"].ended = "eof"
    BY <1>5, <1>7, Ways DEF Wires
  <2>3. /\ moved'["clientUp"] = moved["clientUp"] + 1
        /\ moved'["local"] = moved["local"] /\ moved'["target"] = moved["target"]
        /\ moved'["daemonUp"] = moved["daemonUp"]
        /\ moved'["daemonDown"] = moved["daemonDown"]
        /\ moved'["clientDown"] = moved["clientDown"]
    BY <1>2, <1>7 DEF Pumps
  <2>4. client # "gone" /\ (e # "no" => wire["in"].ended = "eof")
    BY <2>1 DEF IInv, Stages, Endings
  <2>5. Stages' /\ Endings'
    BY <1>1, <2>1, <2>2, <2>4 DEF IInv, Stages, Endings
  <2>6. Bounded'
    BY <2>1, <2>2, <2>3, Numbers DEF IInv, Bounded, Accounted, Held
  <2>7. FromTarget' /\ ToClient'
    BY <1>1, <2>1, <2>2, <2>3
       DEF IInv, FromTarget, ToClient, Accounted, Held, Delivered
  <2> QED BY <1>4, <1>6, <2>5, <2>6, <2>7 DEF IInv
<1>8. CASE p = "daemonUp"
  <2>1. /\ pump["daemonUp"].pc = "write" /\ pump["daemonUp"].end = e
        /\ e = "no" /\ pump'["daemonUp"].pc = "read" /\ pump'["daemonUp"].end = "no"
        /\ pump'["clientUp"] = pump["clientUp"]
        /\ pump'["daemonDown"] = pump["daemonDown"]
        /\ pump'["clientDown"] = pump["clientDown"]
        /\ Said("daemon", "daemonDown")' => Said("daemon", "daemonDown")
        /\ Said("daemon", "daemonUp")' => Said("daemon", "daemonUp")
        /\ Said("client", "clientDown")' => Said("client", "clientDown")
    BY <1>1, <1>4, <1>8 DEF Pumps, Sides, e, IInv, Endings
  <2>2. /\ wire'["in"] = wire["in"] /\ wire'["reply"] = wire["reply"]
        /\ wire'["down"] = wire["down"] /\ wire'["up"] = wire["up"]
    BY <1>5, <1>8, Ways DEF Wires
  <2>3. /\ moved'["daemonUp"] = moved["daemonUp"] + 1
        /\ moved'["local"] = moved["local"] /\ moved'["target"] = moved["target"]
        /\ moved'["clientUp"] = moved["clientUp"]
        /\ moved'["daemonDown"] = moved["daemonDown"]
        /\ moved'["clientDown"] = moved["clientDown"]
    BY <1>2, <1>8 DEF Pumps
  <2>4. Stages' /\ Endings'
    BY <1>1, <2>1, <2>2 DEF IInv, Stages, Endings
  <2>5. Bounded'
    BY <2>1, <2>2, <2>3, Numbers DEF IInv, Bounded, Accounted, Held
  <2>6. FromTarget' /\ ToClient'
    BY <1>1, <2>1, <2>2, <2>3
       DEF IInv, FromTarget, ToClient, Accounted, Held, Delivered
  <2> QED BY <1>4, <1>6, <2>4, <2>5, <2>6 DEF IInv
<1>9. CASE p = "daemonDown"
  <2>1. /\ pump["daemonDown"].pc = "write" /\ pump["daemonDown"].end = e
        /\ pump'["daemonDown"].pc = (IF e = "no" THEN "read" ELSE "done")
        /\ pump'["daemonDown"].end = "no"
        /\ pump'["clientUp"] = pump["clientUp"]
        /\ pump'["daemonUp"] = pump["daemonUp"]
        /\ pump'["clientDown"] = pump["clientDown"]
        /\ Said("daemon", "daemonDown")' => Said("daemon", "daemonDown") \/ e = "eof"
        /\ Said("daemon", "daemonUp")' => Said("daemon", "daemonUp")
        /\ Said("client", "clientDown")' => Said("client", "clientDown")
    <3>1. e \in {"no", "eof", "failed"}
      BY <1>1, <1>9 DEF IInv, Endings, Ends, e
    <3> QED BY <1>1, <1>4, <1>9, <3>1 DEF Pumps, Sides, e
  <2>2. /\ wire'["in"] = wire["in"] /\ wire'["reply"] = wire["reply"]
        /\ wire'["up"] = wire["up"] /\ wire'["down"].n = wire["down"].n + 1
        /\ wire'["down"].ended = wire["down"].ended /\ ~wire["down"].deaf
    BY <1>1, <1>5, <1>9, Ways DEF Wires
  <2>3. /\ moved'["daemonDown"] = moved["daemonDown"] + 1
        /\ moved'["local"] = moved["local"] /\ moved'["target"] = moved["target"]
        /\ moved'["clientUp"] = moved["clientUp"]
        /\ moved'["daemonUp"] = moved["daemonUp"]
        /\ moved'["clientDown"] = moved["clientDown"]
    BY <1>2, <1>9 DEF Pumps
  <2>4. daemon # "done" /\ wire["down"].ended = "no"
    BY <2>2 DEF IInv, Stages
  <2>5. Stages' /\ Endings'
    BY <1>1, <2>1, <2>2, <2>4 DEF IInv, Stages, Endings
  <2>6. Bounded'
    BY <2>1, <2>2, <2>3, Numbers DEF IInv, Bounded, Accounted, Held
  <2>7. FromTarget'
    BY <1>1, <2>1, <2>2, <2>3, Numbers DEF IInv, FromTarget, Accounted, Held, Delivered
  <2>8. ToClient'
    BY <1>1, <2>1, <2>2, <2>3, <2>4, Numbers DEF IInv, ToClient, Accounted, Held
  <2> QED BY <1>4, <1>6, <2>5, <2>6, <2>7, <2>8 DEF IInv
<1>10. CASE p = "clientDown"
  <2>1. /\ pump["clientDown"].pc = "write" /\ pump["clientDown"].end = e
        /\ e = "no" /\ pump'["clientDown"].pc = "read" /\ pump'["clientDown"].end = "no"
        /\ pump'["clientUp"] = pump["clientUp"]
        /\ pump'["daemonUp"] = pump["daemonUp"]
        /\ pump'["daemonDown"] = pump["daemonDown"]
        /\ Said("daemon", "daemonDown")' => Said("daemon", "daemonDown")
        /\ Said("daemon", "daemonUp")' => Said("daemon", "daemonUp")
        /\ Said("client", "clientDown")' => Said("client", "clientDown")
    BY <1>1, <1>4, <1>10 DEF Pumps, Sides, e, IInv, Endings
  <2>2. /\ wire'["in"] = wire["in"] /\ wire'["reply"] = wire["reply"]
        /\ wire'["down"] = wire["down"] /\ wire'["up"] = wire["up"]
    BY <1>5, <1>10, Ways DEF Wires
  <2>3. /\ moved'["clientDown"] = moved["clientDown"] + 1
        /\ moved'["local"] = moved["local"] /\ moved'["target"] = moved["target"]
        /\ moved'["clientUp"] = moved["clientUp"]
        /\ moved'["daemonUp"] = moved["daemonUp"]
        /\ moved'["daemonDown"] = moved["daemonDown"]
    BY <1>2, <1>10 DEF Pumps
  <2>4. Stages' /\ Endings'
    BY <1>1, <2>1, <2>2 DEF IInv, Stages, Endings
  <2>5. Bounded'
    BY <2>1, <2>2, <2>3, Numbers DEF IInv, Bounded, Accounted, Held
  <2>6. FromTarget'
    BY <1>1, <2>1, <2>2, <2>3 DEF IInv, FromTarget, Accounted, Held, Delivered
  <2>7. ToClient'
    BY <1>1, <2>1, <2>2, <2>3, Numbers DEF IInv, ToClient, Accounted, Held, Delivered
  <2> QED BY <1>4, <1>6, <2>4, <2>5, <2>6, <2>7 DEF IInv
<1> QED BY <1>7, <1>8, <1>9, <1>10 DEF Pumps

-----------------------------------------------------------------------------
(* The theorem.                                                            *)

\* Every step keeps the invariant.
LEMMA NextIInv == IInv /\ [Next]_vars => IInv'
<1> SUFFICES ASSUME IInv, [Next]_vars PROVE IInv'
  OBVIOUS
<1>1. ASSUME NEW p \in Pumps, PumpStep(p) PROVE IInv'
  BY <1>1, ReadIInv, ReadEndsIInv, WriteIInv, WriteFailsIInv DEF PumpStep
<1>2. CASE ClientReturns \/ ClientDies
  BY <1>2, ClientReturnsIInv, ClientDiesIInv
<1>3. CASE TunnelOpens \/ OpenFails \/ TunnelReturns
  BY <1>3, TunnelOpensIInv, OpenFailsIInv, TunnelReturnsIInv
<1>4. CASE LocalWrites \/ TargetWrites
  BY <1>4, PutIInv DEF LocalWrites, TargetWrites
<1>5. CASE LocalReads \/ TargetReads
  BY <1>5, GetIInv DEF LocalReads, TargetReads
<1>6. CASE LocalEnds \/ TargetCloses
  BY <1>6, LocalEndsIInv, TargetClosesIInv
<1>7. CASE UNCHANGED vars
  BY <1>7, Unsaid DEF vars, IInv, Typed, Bounded, Reports, Stages, Endings,
     FromTarget, ToClient, Accounted, Held, Done, Delivered
<1> QED BY <1>1, <1>2, <1>3, <1>4, <1>5, <1>6, <1>7 DEF Next

\* The types TLC checks.
LEMMA WellTyped == IInv => TypeOK
<1> SUFFICES ASSUME IInv PROVE TypeOK
  OBVIOUS
<1>1. \A s \in Sides : Len(errc[s]) <= 2
  <2>1. \A p \in Pumps : Done(p) \in 0 .. 1
    BY DEF Done
  <2>2. Len(errc["client"]) \in Nat /\ Len(errc["daemon"]) \in Nat
    BY DEF IInv, Typed, Sides
  <2>3. Len(errc["client"]) <= 2 /\ Len(errc["daemon"]) <= 2
    BY <2>1, <2>2 DEF IInv, Reports, Pumps
  <2> QED BY <2>3 DEF Sides
<1>2. ASSUME NEW m \in Pumps \cup {"local", "target"} PROVE moved[m] \in 0 .. MaxSent
  <2>1. \A p \in Pumps : Held(p) \in 0 .. 1
    BY DEF Held
  <2>2. /\ moved["clientUp"] <= moved["local"] /\ moved["daemonUp"] <= moved["clientUp"]
        /\ moved["daemonDown"] <= moved["target"]
        /\ moved["clientDown"] <= moved["daemonDown"]
    BY <2>1, Numbers DEF IInv, Bounded, Accounted, Pumps
  <2>3. moved["local"] <= MaxSent /\ moved["target"] <= MaxSent
    BY DEF IInv, Bounded
  <2> QED BY <2>2, <2>3, Numbers, BoundsAssumption DEF IInv, Pumps
<1>3. ASSUME NEW p \in Pumps
      PROVE  pump[p] \in [pc : {"idle", "read", "write", "done"},
                          end : {"no", "eof", "failed"}]
  <2>1. pump[p] \in PumpStates /\ pump[p].end # "cancelled"
    BY DEF IInv, Typed, Endings, Pumps
  <2> QED BY <2>1 DEF PumpStates, Ends
<1>4. pump \in [Pumps -> [pc : {"idle", "read", "write", "done"},
                          end : {"no", "eof", "failed"}]]
  BY <1>3 DEF IInv, Typed
<1>5. wire \in [Wires -> [n : 0 .. Cap, deaf : BOOLEAN,
                          ended : {"no", "eof", "failed", "cancelled"}]]
  <2>1. WireStates = [n : 0 .. Cap, deaf : BOOLEAN,
                      ended : {"no", "eof", "failed", "cancelled"}]
    BY DEF WireStates, Ends
  <2> QED BY <2>1 DEF IInv, Typed
<1>6. moved \in [Pumps \cup {"local", "target"} -> 0 .. MaxSent]
  BY <1>2 DEF IInv, Typed
<1> QED BY <1>1, <1>4, <1>5, <1>6 DEF TypeOK, IInv, Typed, Sides

\* A Send that met the end of the stream found the handler returned, and its
\* status is about the whole tail.
SendEnded ==
    /\ wire["up"].deaf => daemon = "done"
    /\ Said("client", "clientUp")
         => /\ daemon = "done"
            /\ wire["down"].ended = "eof" /\ wire["in"].ended = "no" => Delivered

\* What touches neither the handler's end nor what clientUp said keeps that.
Untouched ==
    /\ wire'["up"].deaf = wire["up"].deaf
    /\ daemon = "done" =>
         /\ daemon' = "done"
         /\ wire'["down"].ended = wire["down"].ended
         /\ wire'["in"].ended = "no" => wire["in"].ended = "no"
         /\ moved'["target"] = moved["target"]
         /\ moved'["daemonDown"] = moved["daemonDown"]
LEMMA SendEndedStays ==
    ASSUME SendEnded, Untouched,
           Said("client", "clientUp")' => Said("client", "clientUp")
    PROVE  SendEnded'
BY DEF SendEnded, Untouched, Delivered

\* What one pump reports is not what another said.
LEMMA OtherSays ==
    ASSUME IInv, NEW p \in Pumps \ {"clientUp"}, NEW e \in Ends,
           \/ errc' = errc
           \/ errc' = [errc EXCEPT ![Side(p)] = Append(@, [by |-> p, err |-> e])]
    PROVE  Said("client", "clientUp")' => Said("client", "clientUp")
<1>1. CASE errc' = errc
  BY <1>1, Unsaid
<1>2. CASE errc' = [errc EXCEPT ![Side(p)] = Append(@, [by |-> p, err |-> e])]
  <2> DEFINE s == Side(p)
             r == [by |-> p, err |-> e]
  <2>1. r \in Reported /\ r.by # "clientUp" /\ s \in Sides
    BY DEF Reported, Side, Sides
  <2>2. errc' = [errc EXCEPT ![s] = Append(@, r)] /\ Typed
    BY <1>2 DEF IInv
  <2> HIDE DEF s, r
  <2>3. /\ \A q : Said(s, q)' <=> Said(s, q) \/ (r.by = q /\ r.err # "failed")
        /\ \A t \in Sides \ {s} : \A q : Said(t, q)' <=> Said(t, q)
    BY <2>1, <2>2, Uttered
  <2> QED BY <2>1, <2>3 DEF Sides
<1> QED BY <1>1, <1>2

\* A pump's step keeps it.
LEMMA PumpSendEnded ==
    ASSUME IInv, IInv', SendEnded, NEW p \in Pumps, PumpStep(p)
    PROVE  SendEnded'
<1>1. /\ wire \in [Wires -> WireStates] /\ pump[p] \in PumpStates
      /\ From[p] \in Wires /\ To[p] \in Wires
      /\ {"in", "up", "down"} \subseteq Wires
  BY Ways DEF IInv, Typed, Wires, Pumps
<1>2. CASE Read(p)
  <2>1. \A w \in Wires : wire'[w].ended = wire[w].ended /\ wire'[w].deaf = wire[w].deaf
    BY <1>1, <1>2 DEF Read, WireStates
  <2> QED BY <1>1, <1>2, <2>1, SendEndedStays, Unsaid DEF Read, Untouched
<1>3. CASE ReadEnds(p)
  <2>1. /\ wire' = CloseSend(p) /\ UNCHANGED <<client, daemon, moved>>
        /\ wire[From[p]].ended \in Ends
        /\ errc' = IF p = "clientUp" /\ wire[From[p]].ended = "eof" THEN errc
                   ELSE [errc EXCEPT ![Side(p)] =
                           Append(@, [by |-> p, err |-> wire[From[p]].ended])]
    BY <1>1, <1>3 DEF ReadEnds, Report, WireStates
  <2>2. \A w \in Wires : /\ wire'[w].deaf = wire[w].deaf
                         /\ w # "up" => wire'[w].ended = wire[w].ended
    BY <1>1, <2>1 DEF CloseSend, WireStates
  <2>3. Untouched
    BY <1>1, <2>1, <2>2 DEF Untouched
  <2>4. p = "clientUp" => errc' = errc
    BY <1>3, <2>1, Ways DEF ReadEnds, IInv, Endings
  <2>5. Said("client", "clientUp")' => Said("client", "clientUp")
    <3>1. CASE p = "clientUp"
      BY <2>4, <3>1, Unsaid
    <3>2. CASE p # "clientUp"
      BY <2>1, <3>2, OtherSays
    <3> QED BY <3>1, <3>2
  <2> QED BY <2>3, <2>5, SendEndedStays
<1>4. CASE Write(p)
  <2>1. /\ UNCHANGED <<client, daemon>> /\ pump[p].pc = "write" /\ ~wire[To[p]].deaf
        /\ moved' = [moved EXCEPT ![p] = @ + 1]
        /\ \/ errc' = errc
           \/ /\ pump[p].end # "no" /\ ~(p = "clientUp" /\ pump[p].end = "eof")
              /\ errc' = [errc EXCEPT ![Side(p)] =
                            Append(@, [by |-> p, err |-> pump[p].end])]
    BY <1>4 DEF Write, Report
  <2>2. /\ wire'["up"].deaf = wire["up"].deaf
        /\ wire'["down"].ended = wire["down"].ended
        /\ wire'["in"].ended = wire["in"].ended
    <3>1. /\ wire'[To[p]].deaf = wire[To[p]].deaf
          /\ p # "clientUp" => wire'[To[p]].ended = wire[To[p]].ended
          /\ \A v \in Wires \ {To[p]} : wire'[v] = wire[v]
      BY <1>4, WriteSent
    <3>2. To[p] # "in" /\ (p = "clientUp" => To[p] # "down")
      BY Ways DEF Pumps
    <3>3. wire'["in"] = wire["in"]
      BY <1>1, <3>1, <3>2
    <3>4. wire'["up"].deaf = wire["up"].deaf
      BY <1>1, <3>1
    <3>5. wire'["down"].ended = wire["down"].ended
      BY <1>1, <3>1, <3>2
    <3> QED BY <3>3, <3>4, <3>5
  <2>3. daemon = "done" => p # "daemonDown"
    BY <2>1, Ways DEF IInv, Stages
  <2>4. Untouched
    BY <2>1, <2>2, <2>3 DEF Untouched, IInv, Typed, Pumps
  <2>5. Said("client", "clientUp")' => Said("client", "clientUp")
    <3>1. CASE p = "clientUp"
      <4>1. errc' = errc
        BY <2>1, <3>1 DEF IInv, Endings
      <4> QED BY <4>1, Unsaid
    <3>2. CASE p # "clientUp"
      <4>1. pump[p].end \in Ends
        BY <1>1 DEF PumpStates
      <4> QED BY <2>1, <3>2, <4>1, OtherSays
    <3> QED BY <3>1, <3>2
  <2> QED BY <2>4, <2>5, SendEndedStays
<1>5. CASE WriteFails(p)
  <2>1. /\ UNCHANGED <<wire, client, daemon, moved>> /\ pump[p].pc = "write"
        /\ wire[To[p]].deaf
    BY <1>5 DEF WriteFails
  <2>2. CASE p = "clientUp"
    <3>1. daemon = "done" /\ client # "gone"
      BY <2>1, <2>2, Ways DEF SendEnded, IInv, Stages
    <3>2. wire["down"].ended = "eof" /\ wire["in"].ended = "no" => Delivered
      BY <3>1 DEF IInv, ToClient
    <3> QED BY <2>1, <3>1, <3>2 DEF SendEnded, Delivered
  <2>3. CASE p # "clientUp"
    <3>1. errc' = [errc EXCEPT ![Side(p)] = Append(@, [by |-> p, err |-> "failed"])]
      BY <1>5, <2>3 DEF WriteFails
    <3>2. Said("client", "clientUp")' => Said("client", "clientUp")
      BY <2>3, <3>1, OtherSays DEF Ends
    <3> QED BY <2>1, <3>2, SendEndedStays DEF Untouched
  <2> QED BY <2>2, <2>3
<1> QED BY <1>2, <1>3, <1>4, <1>5 DEF PumpStep

\* Every step keeps it.
LEMMA SendEndedKept == IInv /\ IInv' /\ SendEnded /\ [Next]_vars => SendEnded'
<1> SUFFICES ASSUME IInv, IInv', SendEnded, [Next]_vars PROVE SendEnded'
  OBVIOUS
<1>1. ASSUME NEW p \in Pumps, PumpStep(p) PROVE SendEnded'
  BY <1>1, PumpSendEnded
<1>2. CASE OpenFails \/ TunnelReturns
  <2>1. daemon # "done" /\ daemon' = "done" /\ UNCHANGED errc
    BY <1>2 DEF OpenFails, TunnelReturns
  <2>2. ~Said("client", "clientUp")'
    BY <2>1, Unsaid DEF SendEnded
  <2> QED BY <2>1, <2>2 DEF SendEnded
<1>3. CASE \/ ClientReturns \/ ClientDies \/ TunnelOpens
           \/ LocalWrites \/ LocalReads \/ LocalEnds
           \/ TargetWrites \/ TargetReads \/ TargetCloses \/ UNCHANGED vars
  <2>0. wire \in [Wires -> WireStates]
    BY DEF IInv, Typed
  <2>1. Untouched
    <3>1. CASE ClientReturns \/ TunnelOpens \/ UNCHANGED vars
      BY <3>1 DEF ClientReturns, TunnelOpens, vars, Untouched
    <3>2. CASE ClientDies
      BY <2>0, <3>2 DEF ClientDies, Untouched, Wires, WireStates
    <3>4. CASE LocalReads \/ TargetReads
      BY <2>0, <3>4 DEF LocalReads, TargetReads, Get, Untouched, Wires, WireStates
    <3>5. CASE LocalEnds
      BY <2>0, <3>5 DEF LocalEnds, Untouched, Wires, WireStates
    <3>6. CASE TargetCloses
      BY <2>0, <3>6 DEF TargetCloses, Untouched, Wires, WireStates
    <3>3. CASE LocalWrites \/ TargetWrites
      BY <2>0, <3>3 DEF LocalWrites, TargetWrites, Put, Untouched, Wires, WireStates,
                        IInv, Typed, Pumps
    <3> QED BY <1>3, <3>1, <3>2, <3>3, <3>4, <3>5, <3>6
  <2>2. UNCHANGED errc
    BY <1>3 DEF ClientReturns, ClientDies, TunnelOpens, LocalWrites, LocalReads, LocalEnds,
                TargetWrites, TargetReads, TargetCloses, Put, Get, vars
  <2> QED BY <2>1, <2>2, Unsaid, SendEndedStays
<1> QED BY <1>1, <1>2, <1>3 DEF Next

\* The book-keeping at the end of a tunnel is what TailArrives asks for.
LEMMA TailIsWhole == IInv /\ SendEnded => TailArrives
<1> SUFFICES ASSUME IInv, SendEnded PROVE TailArrives
  OBVIOUS
<1>1. ASSUME NEW p \in Pumps, EndsOn(p) PROVE Said("client", p)
  <2>1. 1 \in 1 .. Len(errc["client"]) /\ Head(errc["client"]) = errc["client"][1]
    BY <1>1 DEF EndsOn, IInv, Typed, Sides
  <2> QED BY <1>1, <2>1 DEF EndsOn, Said
<1>2. EndsOn("clientDown") => moved["clientDown"] = moved["target"]
  BY <1>1 DEF EndsOn, IInv, ToClient, Pumps
<1>3. EndsOn("clientUp") =>
        /\ daemon = "done"
        /\ wire["down"].ended = "eof" => moved["daemonDown"] = moved["target"]
  BY <1>1 DEF EndsOn, SendEnded, Delivered, Pumps
<1> QED BY <1>2, <1>3, WellTyped DEF TailArrives

\* When Tunnel returns without error, while the local program still had input
\* to give, every byte the target sent has been written out; or Send met the end
\* of the stream, and what is missing is on the stream, unless the handler failed
\* (Client.Tunnel and Service.Tunnel, both directions).
THEOREM TailArrivesHolds == Spec => []TailArrives
<1>1. IInv /\ [Next]_vars => IInv'
  BY NextIInv
<1>2. Init => SendEnded
  BY DEF Init, SendEnded, Said, Open, Wires, Sides
<1> QED BY <1>1, <1>2, InitIInv, SendEndedKept, TailIsWhole, PTL DEF Spec
=============================================================================
