------------------------------ MODULE Command ------------------------------
(***************************************************************************)
(* The command line client (cmd/unwedge): one command, from its arguments  *)
(* to its exit.  It takes the hardware lock unless the command only        *)
(* observes, makes the command's calls, and returns the lock, also when it *)
(* is interrupted.  Nothing runs after a write to a closed stdout, except  *)
(* in proxy mode.                                                          *)
(*                                                                         *)
(* What a command does is the sequence of its calls; none is a usage error *)
(* it finds in its arguments, after the lock was taken.                    *)
(***************************************************************************)
EXTENDS Daemon

VARIABLE cmd  \* where it is, the command, the calls left, and what befell it

Usage == {<<>>}

ObserveScripts ==
    { <<"status", <<"GetStatus">>>>, <<"console", <<"StreamConsole">>>>,
      <<"log", <<"ReadConsoleLog">>>>, <<"write", <<"WriteConsole">>>> }

TargetScripts ==
    {"power"} \X (Usage \cup {<<"PowerControl">>})
    \cup {"interrupt"} \X {<<"InterruptBoot">>}
    \cup {"uboot"} \X (Usage \cup {<<"RunUbootCommand">>, <<"InterruptBoot", "RunUbootCommand">>})
    \cup {"netboot"} \X (Usage \cup {<<"Netboot">>})

ImageScripts ==
    {"image"} \X (Usage \cup {<<"ListImages">>, <<"UploadImage">>, <<"DeleteImage">>})

RemoteScripts ==
    {"ssh"} \X (Usage \cup {<<"Tunnel">>, <<"SSHExec">>})
    \cup {"scp"} \X (Usage \cup {<<"SCPUpload">>, <<"SCPDownload">>})

\* Smoke has its details, and the console stream beside these calls.
SmokeScripts == {"smoke"} \X (Usage \cup {<<"UploadImage", "Netboot">>,
                                          <<"UploadImage", "Netboot", "SSHExec">>})

\* dispatch
Scripts == ObserveScripts \cup TargetScripts \cup ImageScripts \cup RemoteScripts
           \cup SmokeScripts \cup {"unknown"} \X Usage

\* Variant: listing images looks harmless enough.
LockFreeImages == {"status", "console", "log", "image"}

\* lockFreeCommands
LockFree == {"status", "console", "log"}

NoCommand == [pc |-> "absent", script |-> <<>>, todo |-> <<>>,
              locks |-> FALSE, sig |-> FALSE, fate |-> "none"]

GoOn(pc) == cmd' = [cmd EXCEPT !.pc = pc]

\* realMain: flags, and the connection, which may be refused.
Parse ==
    /\ cmd.pc = "start"
    /\ \/ /\ \E s \in Scripts, noSession \in BOOLEAN :
               cmd' = [cmd EXCEPT !.script = s[2], !.todo = s[2],
                 !.locks = ~noSession /\ s[1] \notin LockFree,
                 !.pc = IF ~noSession /\ s[1] \notin LockFree THEN "try" ELSE "run",
                 !.fate = IF noSession THEN "unlocked" ELSE @]
       \/ GoOn("exited")
    /\ UNCHANGED daemonVars

\* maybeAcquire: first without waiting, to say so if it has to; then for
\* session-wait, which may be 0, for ever.
Acquire ==
    /\ cmd.pc \in {"try", "wait"} /\ rpc = NoRpc
    /\ \E w \in IF cmd.pc = "try" THEN {"fast"} ELSE {"bounded", "forever"} :
         Send("StartSession", w)
    /\ UNCHANGED <<daemon, holder, watch, cmd>>

Acquired ==
    /\ cmd.pc \in {"try", "wait"} /\ Answered
    /\ rpc' = NoRpc
    /\ cmd' = [cmd EXCEPT
         !.locks = rpc.st # "unimplemented",
         !.pc = IF rpc.st \in {"ok", "unimplemented"} THEN "run"
                ELSE IF cmd.pc = "try" /\ rpc.st = "refused" THEN "wait"
                ELSE "exited"]
    /\ UNCHANGED <<daemon, holder, watch>>

\* The next call of the command, under a context the signal cancels.
MakeCall ==
    /\ cmd.pc = "run" /\ cmd.todo # <<>> /\ rpc = NoRpc /\ ~cmd.sig
    /\ Send(Head(cmd.todo), "fast")
    /\ UNCHANGED <<daemon, holder, watch, cmd>>

\* Its answer: an error ends the command.
CallAnswered ==
    /\ cmd.pc = "run" /\ Answered
    /\ rpc' = NoRpc
    /\ cmd' = [cmd EXCEPT !.todo = IF rpc.st = "ok" THEN Tail(@) ELSE <<>>,
                          !.fate = IF rpc.st = "refused" /\ @ = "none" THEN "refused" ELSE @]
    /\ UNCHANGED <<daemon, holder, watch>>

\* SIGINT or SIGTERM
Interrupt ==
    /\ cmd.pc \notin {"absent", "exited", "killed"} /\ ~cmd.sig
    /\ cmd' = [cmd EXCEPT !.sig = TRUE]
    /\ UNCHANGED daemonVars

\* The context is done: the call under way is given up, whatever became of it.
\* A lock that is granted at that moment is nobody's.
Cancelled ==
    /\ cmd.sig
    /\ \/ /\ cmd.pc \in {"try", "wait"}
          /\ GiveUpStart
          /\ cmd' = [cmd EXCEPT !.pc = "exited",
                                !.fate = IF holder' = "me" THEN "lost" ELSE @]
       \/ /\ cmd.pc = "run" /\ cmd.todo # <<>>
          /\ cmd' = [cmd EXCEPT !.todo = <<>>]
          /\ rpc' = NoRpc
          /\ UNCHANGED holder
    /\ UNCHANGED <<daemon, watch>>

\* What the calls write to stdout, while they run or when they return.
Printing ==
    \/ rpc.st = "ok"
    \/ Handling /\ rpc.name \in {"StreamConsole", "InterruptBoot", "Netboot", "Tunnel"}

\* Variant: the proxy is killed by SIGPIPE like any other command.
BrokenPipeKills ==
    /\ cmd.pc = "run" /\ Printing
    /\ cmd' = [cmd EXCEPT !.pc = "killed"]
    /\ rpc' = NoRpc
    /\ UNCHANGED <<daemon, holder, watch>>

\* A write to a closed stdout: SIGPIPE kills the command; a proxy ignores it, and
\* its tunnel unwinds.
BrokenPipe ==
    /\ cmd.pc = "run" /\ Printing
    /\ cmd' = IF cmd.script = <<"Tunnel">> THEN [cmd EXCEPT !.todo = <<>>]
                                           ELSE [cmd EXCEPT !.pc = "killed"]
    /\ rpc' = NoRpc
    /\ UNCHANGED <<daemon, holder, watch>>

\* The deferred release, under a context of its own.
ReleaseLock ==
    /\ cmd.pc = "run" /\ cmd.todo = <<>> /\ rpc = NoRpc
    /\ IF cmd.locks THEN Send("FinishSession", "fast") /\ GoOn("release")
                    ELSE UNCHANGED rpc /\ GoOn("exited")
    /\ UNCHANGED <<daemon, holder, watch>>

Exit ==
    /\ cmd.pc = "release" /\ Answered
    /\ rpc' = NoRpc
    /\ cmd' = [cmd EXCEPT !.pc = "exited", !.fate = IF rpc.st = "ok" THEN @ ELSE "lost"]
    /\ UNCHANGED <<daemon, holder, watch>>

CommandStep ==
    \/ Parse \/ Acquire \/ Acquired \/ MakeCall \/ CallAnswered \/ Cancelled
    \/ ReleaseLock \/ Exit

\* The lock is fresh, or the keepalive pings, if anyone answers.
KeptAlive == cmd.pc \in {"try", "wait", "run", "release"} /\ cmd.locks /\ daemon.pc = "up"
=============================================================================
