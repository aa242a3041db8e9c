----------------------------- MODULE FrontEnds -----------------------------
(***************************************************************************)
(* A front end, a command or the MCP bridge, with the daemon it calls,     *)
(* from the start of both to their end.  A front end that comes before the *)
(* daemon listens finds nobody, as one that comes after its end does.      *)
(***************************************************************************)
EXTENDS Command, Bridge

vars == <<daemonVars, cmd, mcp>>

Init ==
    /\ DaemonInit
    /\ \/ cmd = [NoCommand EXCEPT !.pc = "start"] /\ mcp = NoBridge
       \/ cmd = NoCommand /\ mcp = [NoBridge EXCEPT !.pc = "start"]

\* The session does not expire while a keepalive pings.
Daemons ==
    /\ DaemonStep
    /\ ~(KeptAlive /\ MineExpires)
    /\ UNCHANGED <<cmd, mcp>>

Commands ==
    /\ daemon.pc # "starting"
    /\ CommandStep \/ Interrupt \/ BrokenPipe
    /\ UNCHANGED mcp

Bridges ==
    /\ daemon.pc # "starting"
    /\ BridgeStep \/ ReadLine \/ Notify
    /\ UNCHANGED cmd

Next == Daemons \/ Commands \/ Bridges

Spec == Init /\ [][Next]_vars

FairSpec ==
    /\ Spec
    /\ DaemonFairness
    /\ WF_vars(Commands /\ CommandStep)
    /\ WF_vars(Bridges /\ BridgeStep)

-----------------------------------------------------------------------------
\* The variables have their types.
TypeOK ==
    /\ daemon.pc \in {"starting", "up", "draining", "closing", "aborting", "down"}
    /\ daemon.step \in 1 .. Len(Startup)
    /\ daemon.stack \in Seq(Closers)
    /\ holder \in {"free", "me", "other"}
    /\ watch \in BOOLEAN
    /\ rpc.name \in Rpcs \cup {"none"} /\ rpc.wait \in Waits
    /\ rpc.st \in {"none", "sent", "running", "ok", "failed", "refused", "unimplemented"}
    /\ cmd.pc \in {"absent", "start", "try", "wait", "run", "release", "exited", "killed"}
    /\ cmd.fate \in {"none", "unlocked", "refused", "lost"}
    /\ mcp.pc \in {"absent", "start", "loop", "read", "handle", "ensure", "acquiring", "tool",
                   "calling", "stop", "releasing", "gone", "killed"}
    /\ mcp.tool.guarded \in BOOLEAN /\ mcp.replies \in 0 .. 1

\* Three tables say what needs the lock: the server's, the command line's and
\* the bridge's.  A command is never refused for want of a session unless it was
\* told not to take one, and a tool that is exempt from the lock never is.
NotRefused == cmd.fate # "refused" /\ mcp.fate # "refused"

\* Watchers do not lock out the driver: a command all of whose calls are exempt
\* never has the lock, nor has a bridge none of whose tools needed it.
ObserversNeverTakeTheLock ==
    holder = "me" =>
      \/ cmd.pc # "absent" /\ (Operational(cmd.script) \/ cmd.script = <<>>)
      \/ mcp.pc # "absent" /\ mcp.wants

\* The three tables agree in both directions.  (The types are checked with it.)
LockTablesAgree == TypeOK /\ NotRefused /\ ObserversNeverTakeTheLock

\* However it ended (a usage error, a failed call, a signal, the end of stdin, a
\* proxy whose ssh hung up), a front end that is gone left the lock to others.  What
\* is left to the idle expiry instead: a lock whose release, or whose grant, a
\* signal or the daemon's own end cut off; and that of a command or a bridge which
\* SIGPIPE killed, at a write to a closed stdout.  A proxy is never killed so.
LockReturned ==
    holder = "me" =>
      /\ cmd.pc = "exited" => cmd.fate = "lost" /\ (cmd.sig \/ daemon.pc # "up")
      /\ cmd.pc = "killed" => cmd.script # <<"Tunnel">>
      /\ mcp.pc = "gone" => mcp.fate = "lost" /\ (mcp.sig \/ daemon.pc # "up")

\* Before the next line is read, a request has had one reply, and nothing more
\* than one.
OneReply ==
    mcp.pc = "loop" =>
      mcp.replies <= 1 /\ (mcp.id /\ mcp.msg # "initialized" => mcp.replies = 1)

\* A tool is tried a second time only if nothing of the first attempt was done: the
\* session was found lost by its first call.
RetryRepeatsNothing ==
    [][~mcp.retried /\ mcp'.retried => mcp.todo = mcp.tool.calls]_mcp

\* The daemon closes nothing under a running handler, unless its listener failed.
ServedFromOpen ==
    Handling \/ watch =>
      daemon.pc = "aborting" \/ {"console", "sessions"} \cap ToSet(daemon.stack)
                                  = {"console"} \cup IF daemon.locking THEN {"sessions"} ELSE {}

\* A shutdown is held up by a stream that its client keeps open, or by a call to a
\* target that is silent, by nothing else: whoever waits for the lock gets it,
\* because the reaper still runs.
DrainEnds ==
    daemon.pc = "draining" ~> daemon.pc = "down" \/ watch \/ (Handling /\ rpc.name \in Endless)

\* A bridge whose stdin was closed is gone some day, unless its call has no end: it
\* was told to wait for the lock for ever, or its handler never returns.
BridgeEnds ==
    mcp.eof ~> \/ mcp.pc \in {"gone", "killed"}
               \/ Handling /\ (rpc.wait = "forever" \/ rpc.name \in Endless)

\* An interrupted command exits.
CommandEnds == cmd.sig ~> cmd.pc \in {"exited", "killed"}

\* A daemon, a bridge and a command that are told to end do so.
EveryoneEnds == DrainEnds /\ BridgeEnds /\ CommandEnds
=============================================================================
