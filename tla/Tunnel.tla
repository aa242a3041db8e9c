------------------------------- MODULE Tunnel -------------------------------
(***************************************************************************)
(* The raw tunnel to the target's SSH port: Client.Tunnel (internal/       *)
(* client), Service.Tunnel (internal/server), the gRPC stream and the TCP  *)
(* connection between them, and at the ends the local ssh and the target.  *)
(*                                                                         *)
(*   local --in--> clientUp --up--> daemonUp --request--> target           *)
(*   local <-out-- clientDown <-down-- daemonDown <-reply-- target         *)
(*                                                                         *)
(* On either side two goroutines pump chunks, each until it fails, and the *)
(* first to report on the side's errc ends the tunnel.  A wire is first-in *)
(* first-out, so it is enough to count its chunks.                         *)
(***************************************************************************)
EXTENDS Naturals, Sequences

CONSTANTS Cap,      \* chunks a wire holds before its writer blocks
          MaxSent   \* bound on the chunks each end sends

ASSUME BoundsAssumption == Cap \in Nat \ {0} /\ MaxSent \in Nat

VARIABLES
  wire,    \* [w -> chunks in it, how it ends for its reader, whether writes fail]
  pump,    \* [p -> the goroutine p]
  errc,    \* [side -> the reports of its pumps, in order]
  client,  \* Client.Tunnel and the process around it
  daemon,  \* Service.Tunnel
  moved    \* [p -> chunks p has written]; of local and target, chunks sent

vars == <<wire, pump, errc, client, daemon, moved>>

Pumps == {"clientUp", "daemonUp", "daemonDown", "clientDown"}
Wires == {"in", "up", "request", "reply", "down", "out"}

From == [clientUp |-> "in", daemonUp |-> "up",
         daemonDown |-> "reply", clientDown |-> "down"]
To == [clientUp |-> "up", daemonUp |-> "request",
       daemonDown |-> "down", clientDown |-> "out"]
Side(p) == IF p \in {"clientUp", "clientDown"} THEN "client" ELSE "daemon"

\* Where a pump is in its loop; end is the error its Read returned with data.
Goroutine(pc, end) == [pc |-> pc, end |-> end]
Open == [n |-> 0, ended |-> "no", deaf |-> FALSE]

Init ==
    /\ wire = [w \in Wires |-> Open]
    /\ pump = [p \in Pumps |->
         Goroutine(IF Side(p) = "client" THEN "read" ELSE "idle", "no")]
    /\ errc = [s \in {"client", "daemon"} |-> <<>>]
    /\ client = "running"
    /\ daemon = "opening"
    /\ moved = [p \in Pumps \cup {"local", "target"} |-> 0]

-----------------------------------------------------------------------------
(* The pumps.                                                              *)

\* p reports e and ends.  At the end of its input clientUp half-closes the
\* stream instead, and reports only what is not io.EOF.
Report(p, e, w) ==
    /\ pump' = [pump EXCEPT ![p] = Goroutine("done", "no")]
    /\ errc' = IF p = "clientUp" /\ e = "eof" THEN errc
               ELSE [errc EXCEPT ![Side(p)] = Append(@, [by |-> p, err |-> e])]
    /\ wire' = w

CloseSend(p) ==
    IF p = "clientUp" /\ wire["up"].ended = "no"
      THEN [wire EXCEPT !["up"].ended = "eof"] ELSE wire

\* Variant: a Read that returns data and an error counts as an error only.
ReadDropping(p) ==
    LET w == From[p] IN
    /\ pump[p].pc = "read" /\ wire[w].n > 0
    /\ IF wire[w].n = 1 /\ wire[w].ended = "eof"
         THEN Report(p, "eof", [CloseSend(p) EXCEPT ![w].n = 0])
         ELSE /\ wire' = [wire EXCEPT ![w].n = @ - 1]
              /\ pump' = [pump EXCEPT ![p] = Goroutine("write", "no")]
              /\ UNCHANGED errc
    /\ UNCHANGED <<client, daemon, moved>>

\* A chunk; the last one of an io.Reader may come together with its end.
Read(p) ==
    LET w == From[p] IN
    /\ pump[p].pc = "read" /\ wire[w].n > 0
    /\ wire' = [wire EXCEPT ![w].n = @ - 1]
    /\ \E end \in {"no"} \cup (IF wire[w].n = 1 /\ w \in {"in", "reply"}
                                 THEN {wire[w].ended} ELSE {}) :
         pump' = [pump EXCEPT ![p] = Goroutine("write", end)]
    /\ UNCHANGED <<errc, client, daemon, moved>>

\* A cancelled stream may end before what it still holds was received.
ReadEnds(p) ==
    LET w == wire[From[p]] IN
    /\ pump[p].pc = "read" /\ w.ended # "no"
    /\ w.n = 0 \/ w.ended = "cancelled"
    /\ Report(p, w.ended, CloseSend(p))
    /\ UNCHANGED <<client, daemon, moved>>

Write(p) ==
    LET sent == [wire EXCEPT ![To[p]].n = @ + 1]
    IN /\ pump[p].pc = "write"
       /\ ~wire[To[p]].deaf /\ wire[To[p]].n < Cap
       /\ moved' = [moved EXCEPT ![p] = @ + 1]
       /\ IF pump[p].end = "no"
            THEN /\ pump' = [pump EXCEPT ![p] = Goroutine("read", "no")]
                 /\ wire' = sent
                 /\ UNCHANGED errc
            ELSE Report(p, pump[p].end,
                        [sent EXCEPT !["up"].ended = CloseSend(p)["up"].ended])
       /\ UNCHANGED <<client, daemon>>

\* Sending on a stream that the other side has ended fails with io.EOF.
WriteFails(p) ==
    /\ pump[p].pc = "write"
    /\ wire[To[p]].deaf
    /\ pump' = [pump EXCEPT ![p] = Goroutine("done", "no")]
    /\ errc' = [errc EXCEPT ![Side(p)] =
         Append(@, [by |-> p, err |-> IF p = "clientUp" THEN "eof" ELSE "failed"])]
    /\ UNCHANGED <<wire, client, daemon, moved>>

-----------------------------------------------------------------------------
(* Client.Tunnel, and the process that called it.                          *)

ClientReturns ==
    /\ client = "running"
    /\ errc["client"] # <<>>
    /\ client' = "returned"
    /\ UNCHANGED <<wire, pump, errc, daemon, moved>>

\* The process exits or is killed: the stream is cancelled, its pipes close.
ClientDies ==
    /\ client # "gone"
    /\ client' = "gone"
    /\ pump' = [p \in Pumps |->
         IF Side(p) = "client" THEN Goroutine("done", "no") ELSE pump[p]]
    /\ wire' = [wire EXCEPT !["up"].ended = "cancelled", !["down"].deaf = TRUE,
                            !["in"].deaf = TRUE,
                            !["out"].ended = IF @ = "no" THEN "eof" ELSE @]
    /\ UNCHANGED <<errc, daemon, moved>>

-----------------------------------------------------------------------------
(* Service.Tunnel.                                                         *)

\* The handler's status is what the client receives after all that was sent.
StreamEnds(w, err) ==
    [w EXCEPT !["up"].deaf = TRUE, !["up"].ended = "cancelled",
              !["down"].deaf = TRUE, !["down"].ended = err]

\* The first message arrived and the target was dialled; or one of them failed.
TunnelOpens ==
    /\ daemon = "opening"
    /\ daemon' = "proxying"
    /\ pump' = [p \in Pumps |->
         IF Side(p) = "daemon" THEN Goroutine("read", "no") ELSE pump[p]]
    /\ UNCHANGED <<wire, errc, client, moved>>

OpenFails ==
    /\ daemon = "opening"
    /\ daemon' = "done"
    /\ wire' = StreamEnds(wire, "failed")
    /\ UNCHANGED <<pump, errc, client, moved>>

\* Variant: the connection is left open.
ConnLeaked(w) == w

\* conn.Close(): what the target has not been sent yet still reaches it.
ConnClosed(w) ==
    [w EXCEPT !["request"].ended = IF @ = "no" THEN "eof" ELSE @,
              !["request"].deaf = TRUE,
              !["reply"].ended = "failed", !["reply"].n = 0, !["reply"].deaf = TRUE]

\* nil for io.EOF, and for anything once the client is gone.
Status(e) == IF e \in {"eof", "cancelled"} \/ client = "gone" THEN "eof" ELSE "failed"

TunnelReturns ==
    /\ daemon = "proxying"
    /\ errc["daemon"] # <<>>
    /\ daemon' = "done"
    /\ wire' = StreamEnds(ConnClosed(wire), Status(Head(errc["daemon"]).err))
    /\ UNCHANGED <<pump, errc, client, moved>>

-----------------------------------------------------------------------------
(* The ends: the local program and the target.                             *)

Put(who, w) ==
    /\ moved[who] < MaxSent
    /\ wire[w].ended = "no" /\ ~wire[w].deaf /\ wire[w].n < Cap
    /\ wire' = [wire EXCEPT ![w].n = @ + 1]
    /\ moved' = [moved EXCEPT ![who] = @ + 1]
    /\ UNCHANGED <<pump, errc, client, daemon>>

Get(w) ==
    /\ wire[w].n > 0
    /\ wire' = [wire EXCEPT ![w].n = @ - 1]
    /\ UNCHANGED <<pump, errc, client, daemon, moved>>

LocalWrites == Put("local", "in")
LocalReads == Get("out")
TargetWrites == daemon = "proxying" /\ Put("target", "reply")
TargetReads == Get("request")

\* The local program has no more input, or exits.
LocalEnds ==
    /\ wire["in"].ended = "no" \/ ~wire["out"].deaf
    /\ \E exits \in BOOLEAN :
         wire' = [wire EXCEPT !["in"].ended = "eof",
                              !["out"].deaf = @ \/ exits,
                              !["out"].n = IF exits THEN 0 ELSE @]
    /\ UNCHANGED <<pump, errc, client, daemon, moved>>

\* The target closes; a reset (it restarted, had not read everything, or gets
\* more after it closed) takes with it what is on the way.
TargetCloses ==
    /\ daemon = "proxying" /\ wire["reply"].ended # "failed"
    /\ \/ /\ wire["reply"].ended = "no" /\ wire["request"].n = 0
          /\ wire' = [wire EXCEPT !["reply"].ended = "eof", !["request"].deaf = TRUE]
       \/ wire' = [wire EXCEPT !["reply"].ended = "failed", !["reply"].n = 0,
                               !["request"].deaf = TRUE, !["request"].n = 0]
    /\ UNCHANGED <<pump, errc, client, daemon, moved>>

PumpStep(p) == Read(p) \/ ReadEnds(p) \/ Write(p) \/ WriteFails(p)

Next ==
    \/ \E p \in Pumps : PumpStep(p)
    \/ ClientReturns
    \/ ClientDies
    \/ TunnelOpens
    \/ OpenFails
    \/ TunnelReturns
    \/ LocalWrites \/ LocalReads \/ LocalEnds
    \/ TargetWrites \/ TargetReads \/ TargetCloses

Spec == Init /\ [][Next]_vars

(***************************************************************************)
(* Fairness: goroutines run, and dialling has a timeout.  Nothing is       *)
(* assumed of the local program or the target, but in FairSpec that they   *)
(* read what they are sent.                                                *)
(***************************************************************************)
GoroutinesRun ==
    /\ \A p \in Pumps : WF_vars(PumpStep(p))
    /\ WF_vars(ClientReturns)
    /\ WF_vars(TunnelOpens \/ OpenFails)
    /\ WF_vars(TunnelReturns)

DaemonSpec == Spec /\ GoroutinesRun
FairSpec == DaemonSpec /\ WF_vars(LocalReads) /\ WF_vars(TargetReads)

-----------------------------------------------------------------------------
(* Properties.                                                             *)

\* Every variable has its type; errc never holds more than its buffer.
TypeOK ==
    /\ wire \in [Wires -> [n : 0 .. Cap, deaf : BOOLEAN,
                           ended : {"no", "eof", "failed", "cancelled"}]]
    /\ pump \in [Pumps -> [pc : {"idle", "read", "write", "done"},
                           end : {"no", "eof", "failed"}]]
    /\ \A s \in {"client", "daemon"} : Len(errc[s]) <= 2
    /\ client \in {"running", "returned", "gone"}
    /\ daemon \in {"opening", "proxying", "done"}
    /\ moved \in [Pumps \cup {"local", "target"} -> 0 .. MaxSent]

\* Tunnel returns nil on p's report, though its local program had more to send.
EndsOn(p) ==
    /\ errc["client"] # <<>>
    /\ Head(errc["client"]) = [by |-> p, err |-> "eof"]
    /\ wire["in"].ended = "no"

\* What has become of the target's last bytes when Tunnel returns without error
\* and the local program had not ended its input.  Having received the end of
\* the stream, it has written out all the target sent: no tail is lost in any of
\* the three hops (conn.Read, the stream and its status, a side's goroutines).
\* Having met the end in Send (io.EOF, client.go:306, taken for a good end at
\* :337), it leaves unread what the stream still holds, and the handler's status
\* with it: all that holds then is that the daemon has returned and, if it did
\* so without error, had put the whole tail on the stream.  (With the types.)
TailArrives ==
    /\ TypeOK
    /\ EndsOn("clientDown") => moved["clientDown"] = moved["target"]
    /\ EndsOn("clientUp") =>
         /\ daemon = "done"
         /\ wire["down"].ended = "eof" => moved["daemonDown"] = moved["target"]

\* Once the client is gone the handler returns and its goroutines end, if the
\* target takes what it is sent: "conn.Close() // unblock the other direction".
HandlerEnds ==
    client = "gone" ~>
      /\ daemon = "done"
      /\ \A p \in {"daemonUp", "daemonDown"} : pump[p].pc \in {"idle", "done"}

\* When the local program exits "the tunnel unwinds", so that the command can
\* release the lock: Tunnel returns.
ProxyUnwinds == wire["in"].ended = "eof" ~> client # "running"

\* Whichever end goes first, nothing of the tunnel stays at the other.
TunnelUnwinds == HandlerEnds /\ ProxyUnwinds

\* "A crashed client cannot hold the lock forever": its handler returns, so
\* that the session is idle.  Violated: nothing watches the stream's context
\* while daemonUp is in conn.Write, and a target that does not read keeps it
\* there.
CrashedClientLetsGo == client = "gone" ~> daemon = "done"
=============================================================================
