------------------------------- MODULE Daemon -------------------------------
(***************************************************************************)
(* The daemon as its front ends see it: its start and shutdown             *)
(* (cmd/unwedged), the RPCs it registers, which of them need the hardware  *)
(* lock (internal/server session.go), and the lock itself, reduced to who  *)
(* holds it (SessionLock has the rest).                                    *)
(*                                                                         *)
(* One client of interest makes one call at a time (rpc).  The other       *)
(* clients take and return the lock as they like; whether any of them is   *)
(* in a call that has no end matters when the daemon is told to stop.      *)
(*                                                                         *)
(* A definition called a variant is a later one with a plausible bug:      *)
(* nothing uses it; put in its place, it breaks the properties.            *)
(***************************************************************************)
EXTENDS Naturals, Sequences, SequencesExt

VARIABLES
  daemon,  \* run(): its stage, the startup step, whether it locks, its open resources
  holder,  \* whose session is current: "free", "me" or "other"
  watch,   \* some other call goes on after the signal: a stream, or a silent target's
  rpc      \* the client's call: what it is, and how far

daemonVars == <<daemon, holder, watch, rpc>>

-----------------------------------------------------------------------------
(* The service.                                                            *)

Unary == {"GetStatus", "StartSession", "FinishSession", "Ping", "ReadConsoleLog",
          "WriteConsole", "WaitForPattern", "PowerControl", "RunUbootCommand",
          "ListImages", "DeleteImage", "SSHExec"}
Streams == {"StreamConsole", "InterruptBoot", "Netboot", "UploadImage", "Tunnel",
            "SCPUpload", "SCPDownload"}
Rpcs == Unary \cup Streams

\* sessionExemptMethods
Exempt == {"GetStatus", "StreamConsole", "ReadConsoleLog", "StartSession", "FinishSession",
           "Ping"}

Operational(calls) == \E k \in 1 .. Len(calls) : calls[k] \notin Exempt

\* Handlers that may never return: no deadline ends the Recv or the Send of a
\* stream, nor the handshake with an SSH server that is silent.
Endless == Streams \cup {"SSHExec"}

\* Acquire's wait < 0, wait > 0 and wait = 0
Waits == {"fast", "bounded", "forever"}

NoRpc == [name |-> "none", wait |-> "fast", st |-> "none"]
Send(r, w) == rpc' = [name |-> r, wait |-> w, st |-> "sent"]
Answer(st) == rpc' = [rpc EXCEPT !.st = st]
Answered == rpc.st \in {"ok", "failed", "refused", "unimplemented"}
Handling == rpc.st = "running"

\* UnaryInterceptor, StreamInterceptor: is the call let through?
Allowed == ~daemon.locking \/ rpc.name \in Exempt \/ holder = "me"

Arrive ==
    /\ rpc.st = "sent"
    /\ Answer(IF daemon.pc # "up" THEN "failed"
              ELSE IF Allowed THEN "running" ELSE "refused")
    /\ UNCHANGED <<daemon, holder, watch>>

\* StartSession: granted, refused because it is held for too long, or disabled.
HandleStart ==
    /\ Handling /\ rpc.name = "StartSession"
    /\ \/ /\ ~daemon.locking
          /\ Answer("unimplemented")
          /\ UNCHANGED holder
       \/ /\ daemon.locking /\ holder = "free"
          /\ holder' = "me"
          /\ Answer("ok")
       \/ /\ daemon.locking /\ holder # "free" /\ rpc.wait # "forever"
          /\ Answer("refused")
          /\ UNCHANGED holder
    /\ UNCHANGED <<daemon, watch>>

\* The caller of StartSession is gone: the handler may have granted the lock, or
\* still do.
GiveUpStart ==
    /\ rpc' = NoRpc
    /\ \/ UNCHANGED holder
       \/ /\ Handling /\ daemon.locking /\ holder = "free"
          /\ holder' = "me"

\* Only a lock that another session holds is not finished; a free one is.
HandleFinish ==
    /\ Handling /\ rpc.name = "FinishSession"
    /\ Answer(IF holder = "other" THEN "failed" ELSE "ok")
    /\ holder' = IF holder = "me" THEN "free" ELSE holder
    /\ UNCHANGED <<daemon, watch>>

Completes(answers) ==
    /\ Handling
    /\ \E st \in answers : Answer(st)
    /\ UNCHANGED <<daemon, holder, watch>>

\* Any other handler returns: by itself within a deadline, or when its client or
\* the target goes on.
HandleOther == rpc.name \notin Endless \cup {"StartSession", "FinishSession"} /\ Completes({"ok", "failed"})
HandleClosed == rpc.name \in Endless /\ Completes({"ok", "failed"})

-----------------------------------------------------------------------------
(* The other clients, and sessions that nobody uses.                       *)

OtherAcquires ==
    /\ daemon.pc = "up" /\ daemon.locking /\ holder = "free"
    /\ holder' = "other"
    /\ UNCHANGED <<daemon, watch, rpc>>

OtherReleases ==
    /\ daemon.pc = "up" /\ holder = "other"
    /\ holder' = "free"
    /\ UNCHANGED <<daemon, watch, rpc>>

OtherLeaves ==
    /\ watch
    /\ watch' = FALSE
    /\ UNCHANGED <<daemon, holder, rpc>>

\* The session reaper ends a session that was silent for its TTL.
Expire(who) ==
    /\ holder = who
    /\ "sessions" \in ToSet(daemon.stack)
    /\ holder' = "free"
    /\ UNCHANGED <<daemon, watch, rpc>>

OtherExpires == Expire("other")
MineExpires == Expire("me") /\ ~(Handling /\ rpc.name \notin Exempt)

-----------------------------------------------------------------------------
(* run(): startup, shutdown, and the deferred closers in reverse order.    *)

\* The image step is the store, its reaper and the TFTP server.
Startup == <<"config", "console", "power", "uboot", "images", "ssh", "sessions", "tls", "listen">>
Closers == {"console", "images", "sessions"}
Optional == {"power", "ssh", "sessions", "tls"}

DaemonInit ==
    /\ daemon = [pc |-> "starting", step |-> 1, locking |-> FALSE, stack |-> <<>>]
    /\ holder = "free"
    /\ watch = FALSE
    /\ rpc = NoRpc

Started == daemon.step = Len(Startup)

\* A step succeeds, leaving what it opened to a deferred closer, or is not
\* configured; after the last one the daemon serves.
StartStep ==
    LET s == Startup[daemon.step]
    IN  /\ daemon.pc = "starting"
        /\ \E used \in {TRUE} \cup {s \notin Optional} :
             daemon' = [daemon EXCEPT
               !.step = IF Started THEN @ ELSE @ + 1,
               !.pc = IF Started THEN "up" ELSE @,
               !.stack = IF used /\ s \in Closers THEN Append(@, s) ELSE @,
               !.locking = @ \/ (used /\ s = "sessions")]
        /\ UNCHANGED <<holder, watch, rpc>>

StartFails ==
    /\ daemon.pc = "starting"
    /\ Startup[daemon.step] # "sessions"
    /\ daemon' = [daemon EXCEPT !.pc = "closing"]
    /\ UNCHANGED <<holder, watch, rpc>>

\* Variant: the session manager is closed first, so that nobody gets the lock.
SignalClosesSessions ==
    /\ daemon.pc = "up"
    /\ daemon' = [daemon EXCEPT !.pc = "draining",
                                !.stack = SelectSeq(@, LAMBDA r : r # "sessions")]
    /\ watch' \in BOOLEAN
    /\ UNCHANGED <<holder, rpc>>

\* SIGINT or SIGTERM: GracefulStop takes no new calls.
Signal ==
    /\ daemon.pc = "up"
    /\ daemon' = [daemon EXCEPT !.pc = "draining"]
    /\ watch' \in BOOLEAN
    /\ UNCHANGED <<holder, rpc>>

\* Variant: Stop, which does not wait for the handlers.
StopAtOnce ==
    /\ daemon.pc = "draining"
    /\ daemon' = [daemon EXCEPT !.pc = "closing"]
    /\ UNCHANGED <<holder, watch, rpc>>

\* GracefulStop returns when the last handler has.
Drained ==
    /\ daemon.pc = "draining"
    /\ ~Handling /\ ~watch
    /\ daemon' = [daemon EXCEPT !.pc = "closing"]
    /\ UNCHANGED <<holder, watch, rpc>>

\* Serve returns an error: nobody waits for the handlers.
ServeFails ==
    /\ daemon.pc = "up"
    /\ daemon' = [daemon EXCEPT !.pc = "aborting"]
    /\ UNCHANGED <<holder, watch, rpc>>

\* The deferred closers, then the process is gone with its calls and its lock.
Close ==
    /\ daemon.pc \in {"closing", "aborting"}
    /\ IF daemon.stack # <<>>
         THEN /\ daemon' = [daemon EXCEPT !.stack = Front(@)]
              /\ UNCHANGED <<holder, watch, rpc>>
         ELSE /\ daemon' = [daemon EXCEPT !.pc = "down"]
              /\ holder' = "free"
              /\ watch' = FALSE
              /\ IF Handling THEN Answer("failed") ELSE UNCHANGED rpc

DaemonStep ==
    \/ Arrive \/ HandleStart \/ HandleFinish \/ HandleOther \/ HandleClosed
    \/ OtherAcquires \/ OtherReleases \/ OtherLeaves \/ OtherExpires \/ MineExpires
    \/ StartStep \/ StartFails \/ Signal \/ Drained \/ ServeFails \/ Close

\* Deadlines pass, an unused session expires, and the daemon goes on.
DaemonFairness ==
    /\ WF_daemonVars(Arrive)
    /\ WF_daemonVars(HandleStart) /\ WF_daemonVars(HandleFinish) /\ WF_daemonVars(HandleOther)
    /\ WF_daemonVars(daemon.pc # "up" /\ OtherExpires)
    /\ WF_daemonVars(StartStep) /\ WF_daemonVars(Drained) /\ WF_daemonVars(Close)
=============================================================================
