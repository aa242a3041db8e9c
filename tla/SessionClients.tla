--------------------------- MODULE SessionClients ---------------------------
(***************************************************************************)
(* The clients of the hardware lock, composed with it: the command line    *)
(* (cmd/unwedge), which acquires once, keeps the session alive in the      *)
(* background and releases at the end, and the MCP bridge (cmd/unwedge-    *)
(* mcp), which acquires when a tool needs it and, told that its session is *)
(* lost, acquires another and repeats the tool once.                       *)
(*                                                                         *)
(* A client awaits at most one RPC, its keepalive aside.  A request may be *)
(* lost or arrive after its client has given up, an answer may come too    *)
(* late, either process may die, and the daemon may be restarted: it keeps *)
(* the lock in memory only.  Waiters and Calls of SessionLock are both the *)
(* RPCs, each of which is at any time one handler of one kind.             *)
(***************************************************************************)
EXTENDS SessionLock

CONSTANTS Clis,         \* runs of the command line
          Mcps,         \* MCP bridges
          NoRpc,        \* a client that awaits nothing
          Latency,      \* bound on the delay of a keepalive and of a grant, in ticks
          MaxLost,      \* bound on the keepalives lost in a row
          MaxOps,       \* [c -> bound on the operations c asks for]
          MaxRestarts   \* bound on the restarts of the daemon

Clients == Clis \cup Mcps
Rpcs == Waiters

ASSUME RpcsAssumption == Waiters = Calls /\ NoRpc \notin Rpcs
ASSUME ClientsAssumption == Clis \cap Mcps = {}

\* What a keepalive sent every third of the TTL can make up for: the grant that
\* starts it and the next ping may both be late, after MaxLost lost ones.
ASSUME DelayAssumption ==
    /\ Latency \in Nat /\ MaxLost \in Nat
    /\ (MaxLost + 1) * (TTL \div 3) + 2 * Latency <= TTL

VARIABLES
  client,    \* [c -> the process c]
  rpc,       \* [r -> the request or handler r]
  restarts   \* how often the daemon was restarted

lockVars == <<mgrVars, acquire, call, issued, finished>>
allVars == <<vars, client, rpc, restarts>>

\* Variant: one keepalive less in a TTL.
IntervalHalf == TTL \div 2

\* sess.TTL / 3
Interval == TTL \div 3

Free == [st |-> "free", kind |-> "none", sid |-> NoId,
         by |-> NoRpc, n |-> 0, res |-> "none"]

\* sid is Client.sessionID, due and lost belong to the keepalive; ran and res
\* are history: how often the operation ran, and what its caller was told.
NewClient(c) == [pc |-> IF c \in Clis THEN "begin" ELSE "ready", sid |-> NoId,
                 rpc |-> NoRpc, retried |-> FALSE, n |-> 0,
                 ran |-> 0, res |-> "none",
                 due |-> 0, lost |-> 0]

\* A new request takes a free slot; which one does not matter.
SomeFree == \E r \in Rpcs : rpc[r] = Free
AFree == CHOOSE r \in Rpcs : rpc[r] = Free

Awaited(r) == \E c \in Clients : client[c].rpc = r

ClientsInit ==
    /\ Init
    /\ client = [c \in Clients |-> NewClient(c)]
    /\ rpc = [r \in Rpcs |-> Free]
    /\ restarts = 0

-----------------------------------------------------------------------------
(* Requests.  cl is the client's state otherwise.                          *)

Request(c, r, kind, st, sid, n) ==
    rpc' = [rpc EXCEPT ![r] = [Free EXCEPT !.kind = kind, !.st = st, !.sid = sid,
                                           !.by = c, !.n = n]]

\* A StartSession that is late is one whose handler is slow to try; a wait
\* without a bound (-session-wait 0) is one that never times out.
SendStart(c, r, cl, pc, mode) ==
    /\ Request(c, r, "start", "serving", NoId, 0)
    /\ StartSession(r) /\ acquire'[r].mode = mode
    /\ client' = [client EXCEPT ![c] = [cl EXCEPT !.pc = pc, !.rpc = r]]

SendCall(c, r, cl) ==
    /\ Request(c, r, "call", "sent", cl.sid, cl.n)
    /\ client' = [client EXCEPT ![c] = [cl EXCEPT !.pc = "call", !.rpc = r]]
    /\ UNCHANGED lockVars

\* Client.Release forgets the id, then asks.
SendFinish(c, r, cl) ==
    /\ Request(c, r, "finish", "sent", cl.sid, 0)
    /\ client' = [client EXCEPT ![c] =
         [cl EXCEPT !.pc = "release", !.rpc = r, !.sid = NoId]]
    /\ UNCHANGED lockVars

\* The process goes on as cl; nobody will read an answer any more.
Detach(c, cl) ==
    /\ client' = [client EXCEPT ![c] = [cl EXCEPT !.rpc = NoRpc]]
    /\ rpc' = [r \in Rpcs |->
         IF r = client[c].rpc /\ rpc[r].st \in {"answered", "broken"}
           THEN Free ELSE rpc[r]]
    /\ UNCHANGED lockVars

\* An operation failed, or ended: a tool returns, a command goes on to release.
Told(cl, res) == [cl EXCEPT !.pc = "ready", !.res = res, !.retried = FALSE]

Gone(c) == [NewClient(c) EXCEPT !.pc = "gone"]

-----------------------------------------------------------------------------
(* Steps of the clients.                                                   *)

\* maybeAcquire first tries without waiting.
Begin(c) ==
    /\ client[c].pc = "begin"
    /\ SomeFree /\ SendStart(c, AFree, client[c], "lock", "failFast")
    /\ UNCHANGED restarts

NextOp(c) == [client[c] EXCEPT !.n = @ + 1, !.ran = 0, !.res = "none"]

\* A command's RPC, or a tool call; a bridge without a session acquires first.
Invoke(c) ==
    LET cl == NextOp(c)
    IN /\ cl.n <= MaxOps[c]
       /\ client[c].pc = "ready"
       /\ c \in Clis => client[c].res # "failed"
       /\ SomeFree
       /\ IF cl.sid = NoId THEN SendStart(c, AFree, cl, "start", "bounded")
                           ELSE SendCall(c, AFree, cl)
       /\ UNCHANGED restarts

\* The acquire_lock tool; with a session it answers at once.
AcquireLock(c) ==
    /\ c \in Mcps
    /\ client[c].pc = "ready" /\ client[c].sid = NoId
    /\ NextOp(c).n <= MaxOps[c]
    /\ SomeFree /\ SendStart(c, AFree, NextOp(c), "lock", "bounded")
    /\ UNCHANGED restarts

\* The deferred release of a command; the release_lock tool.
Release(c) ==
    /\ client[c].pc = "ready" /\ client[c].sid # NoId
    /\ SomeFree /\ SendFinish(c, AFree, client[c])
    /\ UNCHANGED restarts

Answered(c, kind, res) ==
    /\ client[c].rpc # NoRpc
    /\ rpc[client[c].rpc].st = "answered"
    /\ rpc[client[c].rpc].kind = kind
    /\ rpc[client[c].rpc].res = res

Granted(c) ==
    LET r == client[c].rpc
        cl == [client[c] EXCEPT !.sid = rpc[r].sid, !.due = 0, !.lost = 0]
    IN /\ Answered(c, "start", "granted")
       /\ IF cl.pc = "start"
            THEN SendCall(c, r, cl)
            ELSE Detach(c, Told(cl, "none"))
       /\ UNCHANGED restarts

\* A command waits the second time; a tool call fails.
Denied(c) ==
    LET r == client[c].rpc IN
    /\ Answered(c, "start", "busy")
    /\ IF c \in Clis /\ ~client[c].retried
         THEN SendStart(c, r, [client[c] EXCEPT !.retried = TRUE], "lock", "bounded")
         ELSE Detach(c, IF c \in Clis THEN Gone(c)
                                      ELSE Told(client[c], "failed"))
    /\ UNCHANGED restarts

Ended(c) ==
    /\ \E res \in {"ok", "failed"} :
         Answered(c, "call", res) /\ Detach(c, Told(client[c], res))
    /\ UNCHANGED restarts

\* callWithSession repeats the tool when sessionLost recognises the status of
\* the interceptor; an upload that is still sending sees io.EOF in its place.
Refused(c) ==
    LET r == client[c].rpc IN
    /\ Answered(c, "call", "refused")
    /\ \E seen \in {"status", "eof"} :
         IF c \in Mcps /\ seen = "status" /\ ~client[c].retried
           THEN SendStart(c, r, [client[c] EXCEPT !.sid = NoId, !.retried = TRUE],
                          "start", "bounded")
           ELSE Detach(c, Told(client[c], "failed"))
    /\ UNCHANGED restarts

Released(c) ==
    /\ Answered(c, "finish", "ok")
    /\ Detach(c, IF c \in Clis THEN Gone(c) ELSE Told(client[c], "none"))
    /\ UNCHANGED restarts

\* Variant: a tool whose call broke off is repeated too.
GiveUpRetrying(c) ==
    /\ client[c].rpc # NoRpc
    /\ client[c].pc = "call" /\ ~client[c].retried
    /\ SomeFree /\ SendCall(c, AFree, [client[c] EXCEPT !.retried = TRUE])
    /\ UNCHANGED restarts

\* A deadline, an interrupt or the loss of the connection ends the wait.
GiveUp(c) ==
    /\ client[c].rpc # NoRpc
    /\ Detach(c, IF c \in Clis /\ client[c].pc # "call"
                   THEN Gone(c)
                   ELSE Told(client[c], "failed"))
    /\ UNCHANGED restarts

\* The process dies, and its keepalive with it.
Die(c) ==
    /\ client[c].pc # "gone"
    /\ Detach(c, Gone(c))
    /\ UNCHANGED restarts

Receive(c) == Granted(c) \/ Denied(c) \/ Ended(c) \/ Refused(c) \/ Released(c)

-----------------------------------------------------------------------------
(* The keepalive of the command line, and time.                            *)

Alive(c) == c \in Clis /\ client[c].pc \in {"ready", "call"} /\ client[c].sid # NoId

\* One tick of StartKeepalive's ticker: the Ping arrives, or is lost.
Keepalive(c) ==
    /\ Alive(c) /\ client[c].due >= Interval
    /\ \/ /\ Refresh(client[c].sid)
          /\ client' = [client EXCEPT ![c].due = @ - Interval, ![c].lost = 0]
       \/ /\ client[c].lost < MaxLost
          /\ client' = [client EXCEPT ![c].due = @ - Interval, ![c].lost = @ + 1]
          /\ UNCHANGED lockVars
    /\ UNCHANGED <<rpc, restarts>>

\* A keepalive is no later than Latency, nor is the answer that starts it.
ClockTick ==
    /\ Tick
    /\ \A c \in Clients :
         /\ Alive(c) => client[c].due < Interval + Latency
         /\ Answered(c, "start", "granted") => idle < Latency
    /\ client' = [c \in Clients |->
         IF Alive(c) THEN [client[c] EXCEPT !.due = @ + 1] ELSE client[c]]
    /\ UNCHANGED <<rpc, restarts>>

-----------------------------------------------------------------------------
(* Steps of the daemon: the handlers.                                      *)

Serving(r, kind) == rpc[r].st = "sent" /\ rpc[r].kind = kind

Answer(r, res, sid) ==
    /\ rpc' = [rpc EXCEPT ![r] =
         IF Awaited(r) THEN [@ EXCEPT !.st = "answered", !.res = res, !.sid = sid]
                       ELSE Free]
    /\ UNCHANGED client

Serve(r) == rpc' = [rpc EXCEPT ![r].st = "serving"]

\* Which fresh id it is does not matter.
ServeGrab(r) ==
    /\ AcquireGrab(r) /\ id' = CHOOSE i \in Ids \ issued : TRUE
    /\ Answer(r, "granted", id')
    /\ UNCHANGED restarts

ServeBusy(r) ==
    /\ AcquireBusy(r)
    /\ IF acquire[r].mode = "failFast"
         THEN Answer(r, "busy", NoId)
         ELSE UNCHANGED <<rpc, client>>
    /\ UNCHANGED restarts

ServeWoken(r) == WaiterWoken(r) /\ UNCHANGED <<rpc, client, restarts>>

ServeTimedOut(r) == WaiterTimedOut(r) /\ Answer(r, "busy", NoId) /\ UNCHANGED restarts

\* The context of the handler ends when nobody awaits it.
ServeCancelled(r) ==
    /\ ~Awaited(r)
    /\ WaiterCancelled(r)
    /\ Answer(r, "busy", NoId)
    /\ UNCHANGED restarts

\* The interceptor lets the call through, or refuses it.
ServeCall(r) ==
    /\ Serving(r, "call")
    /\ CallStart(r, rpc[r].sid)
    /\ \/ /\ call'[r].pc = "running"
          /\ Serve(r)
          /\ client' = [client EXCEPT ![rpc[r].by].ran =
               IF client[rpc[r].by].n = rpc[r].n THEN @ + 1 ELSE @]
       \/ /\ call'[r] = NoCall
          /\ Answer(r, "refused", NoId)
    /\ UNCHANGED restarts

ServeEnd(r) ==
    /\ CallEnd(r)
    /\ \E res \in {"ok", "failed"} : Answer(r, res, NoId)
    /\ UNCHANGED restarts

\* Finishing a lock that is free, or another's, changes nothing.
ServeFinish(r) ==
    /\ Serving(r, "finish")
    /\ \/ Finish(rpc[r].sid)
       \/ id # rpc[r].sid /\ UNCHANGED lockVars
    /\ Answer(r, "ok", NoId)
    /\ UNCHANGED restarts

\* A request nobody awaits need not arrive.
Vanish(r) ==
    /\ rpc[r].st = "sent" /\ ~Awaited(r)
    /\ rpc' = [rpc EXCEPT ![r] = Free]
    /\ UNCHANGED <<lockVars, client, restarts>>

\* The handlers die with the daemon, and nothing of the lock is persistent.
Restart ==
    /\ restarts < MaxRestarts
    /\ restarts' = restarts + 1
    /\ id' = NoId /\ idle' = 0 /\ activeCalls' = 0 /\ released' = NoId
    /\ closed' = {} /\ finished' = {}
    /\ acquire' = [w \in Waiters |-> Idle]
    /\ call' = [k \in Calls |-> NoCall]
    /\ rpc' = [r \in Rpcs |->
         CASE ~Awaited(r) -> Free
           [] Awaited(r) /\ rpc[r].st = "answered" -> rpc[r]
           [] OTHER -> [rpc[r] EXCEPT !.st = "broken"]]
    /\ UNCHANGED <<issued, client>>

Handle(r) ==
    \/ ServeGrab(r) \/ ServeBusy(r) \/ ServeWoken(r)
    \/ ServeTimedOut(r) \/ ServeCancelled(r)
    \/ ServeCall(r) \/ ServeEnd(r) \/ ServeFinish(r)

ClientStep(c) ==
    \/ Begin(c)
    \/ Invoke(c)
    \/ AcquireLock(c)
    \/ Release(c)
    \/ Receive(c)
    \/ GiveUp(c)
    \/ Die(c)
    \/ Keepalive(c)

Stutter == UNCHANGED <<client, rpc, restarts>>

ClientsNext ==
    \/ \E c \in Clients : ClientStep(c)
    \/ \E r \in Rpcs : Handle(r) \/ Vanish(r)
    \/ Reap /\ Stutter
    \/ ClockTick
    \/ Restart

ClientsSpec == ClientsInit /\ [][ClientsNext]_allVars

-----------------------------------------------------------------------------
(* Properties.                                                             *)

\* The clients and the RPCs have their types; two clients await different RPCs.
ClientsTypeOK ==
    /\ client \in [Clients ->
         [pc : {"begin", "ready", "lock", "start", "call", "release", "gone"},
          sid : Ids \cup {NoId}, rpc : Rpcs \cup {NoRpc},
          retried : BOOLEAN, n : Nat, ran : Nat,
          res : {"none", "ok", "failed"}, due : 0..(Interval + Latency),
          lost : 0..MaxLost]]
    /\ \A r \in Rpcs : rpc[r].st \in {"free", "sent", "serving", "answered", "broken"}
    /\ \A c, d \in Clients :
         c # d /\ client[c].rpc # NoRpc => client[c].rpc # client[d].rpc

\* The retry of callWithSession repeats no operation: whatever is lost, late or
\* restarted, an operation runs at most once, and one that was reported done
\* ran exactly once.  (The types are checked with it.)
ExactlyOnce ==
    /\ ClientsTypeOK
    /\ \A c \in Clients :
         /\ client[c].ran <= 1
         /\ client[c].res = "ok" => client[c].ran = 1

\* A client that still waits for an operation which is running has the lock:
\* the calls that run beside the next holder's (Finish clears the lock while
\* calls are in flight) are calls their client has given up.
DriverHolds ==
    \A r \in Rpcs :
      call[r].pc = "running" /\ call[r].sid # id => ~Awaited(r)

\* The keepalive keeps the lock for the whole command, through local work
\* between RPCs too, when at most MaxLost pings in a row are lost and the daemon is
\* not restarted (StartKeepalive at TTL / 3).
CommandKept ==
    \A c \in Clis : Alive(c) /\ restarts = 0 => id = client[c].sid
=============================================================================
