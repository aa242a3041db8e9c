------------------------------- MODULE Bridge -------------------------------
(***************************************************************************)
(* The MCP bridge (cmd/unwedge-mcp and internal/mcp): the loop that reads  *)
(* JSON-RPC messages from stdin, one at a time, and answers them; the      *)
(* tools, each of them a sequence of calls of the daemon; and the          *)
(* middleware that takes the hardware lock for the tools that need it and  *)
(* tries once more when the daemon says that the session is lost.          *)
(*                                                                         *)
(* A tool with no calls found its arguments wrong.                         *)
(***************************************************************************)
EXTENDS Daemon

VARIABLE mcp  \* the loop, the message in hand, its tool, its replies, the session

NoArgs == {<<>>}

ConsoleTools ==
    { <<"get_status", <<"GetStatus">>>>, <<"read_console_log", <<"ReadConsoleLog">>>>,
      <<"write_console", <<"WriteConsole">>>> }
    \cup {"wait_for_pattern"} \X (NoArgs \cup {<<"WaitForPattern">>})

LockTools == { <<"acquire_lock", <<"StartSession">>>>, <<"release_lock", <<"FinishSession">>>> }

\* interrupt_boot ignores what is wrong with its arguments.
BootTools ==
    {"power"} \X (NoArgs \cup {<<"PowerControl">>})
    \cup {"run_uboot_command"} \X (NoArgs \cup {<<"RunUbootCommand">>})
    \cup {"interrupt_boot"} \X {<<"InterruptBoot">>}
    \cup {"netboot"} \X (NoArgs \cup {<<"Netboot">>})

ImageTools ==
    {"list_images"} \X {<<"ListImages">>}
    \cup {"upload_image"} \X (NoArgs \cup {<<"UploadImage">>})
    \cup {"delete_image"} \X (NoArgs \cup {<<"DeleteImage">>})

\* smoke.Run, without its console stream (Smoke has the rest)
SmokeCalls == <<"UploadImage", "Netboot">>

TargetTools ==
    {"ssh_exec"} \X (NoArgs \cup {<<"SSHExec">>})
    \cup {"scp_upload"} \X (NoArgs \cup {<<"SCPUpload">>})
    \cup {"scp_download"} \X (NoArgs \cup {<<"SCPDownload">>})
    \cup {"smoke_test"} \X (NoArgs \cup {SmokeCalls})

\* registerTools
Tools == ConsoleTools \cup LockTools \cup BootTools \cup ImageTools \cup TargetTools

LockExempt == {"get_status", "read_console_log", "acquire_lock", "release_lock"}

\* A line of stdin: with an id it is a request, without one a notification; a
\* blank line, and one that is no JSON, have none.
Methods == {"initialize", "initialized", "ping", "tools/list", "tools/call", "other"}
Messages == Methods \X BOOLEAN \cup {"blank", "garbage"} \X {FALSE}

NoTool == [guarded |-> FALSE, calls |-> <<>>]
NoBridge == [pc |-> "absent", msg |-> "blank", id |-> FALSE, replies |-> 0, tool |-> NoTool,
             todo |-> <<>>, retried |-> FALSE, sess |-> FALSE, eof |-> FALSE, sig |-> FALSE,
             fate |-> "none", wants |-> FALSE]

To(pc) == mcp' = [mcp EXCEPT !.pc = pc]

\* The end of Serve's turn, with n replies written; to write one to a stdout that
\* the agent has closed is death by SIGPIPE, and nothing deferred runs.
Turn(n) ==
    \/ mcp' = [mcp EXCEPT !.pc = "loop", !.replies = @ + n, !.tool = NoTool,
                          !.todo = <<>>, !.retried = FALSE]
    \/ n > 0 /\ To("killed")

\* run: the flags and the connection may be refused.
Connect ==
    /\ mcp.pc = "start"
    /\ To("loop") \/ To("gone")
    /\ UNCHANGED daemonVars

\* Serve looks at its context before it reads, and not while it does.
LookAtContext ==
    /\ mcp.pc = "loop"
    /\ mcp' = [mcp EXCEPT !.pc = IF mcp.sig THEN "stop" ELSE "read",
                          !.msg = "blank", !.id = FALSE, !.replies = 0]
    /\ UNCHANGED daemonVars

ReadLine ==
    /\ mcp.pc = "read" /\ ~mcp.eof
    /\ \E m \in Messages :
         mcp' = [mcp EXCEPT !.pc = "handle", !.msg = m[1], !.id = m[2]]
    /\ UNCHANGED daemonVars

ReadEof ==
    /\ mcp.pc = "read" /\ mcp.eof
    /\ To("stop")
    /\ UNCHANGED daemonVars

\* handleLine, but for tools/call: it answers a known method with or without an
\* id, an unknown one only with it, and what cannot be parsed unless it is blank.
HandleLine ==
    /\ mcp.pc = "handle" /\ mcp.msg # "tools/call"
    /\ Turn(IF \/ mcp.msg \in {"initialize", "ping", "tools/list", "garbage"}
               \/ mcp.msg = "other" /\ mcp.id
            THEN 1 ELSE 0)
    /\ UNCHANGED daemonVars

\* Variant: the tool is not found, and nobody says so.
RejectToolSilently ==
    /\ mcp.pc = "handle" /\ mcp.msg = "tools/call"
    /\ Turn(0)
    /\ UNCHANGED daemonVars

\* handleToolCall: invalid params, or no such tool.
RejectTool ==
    /\ mcp.pc = "handle" /\ mcp.msg = "tools/call"
    /\ Turn(1)
    /\ UNCHANGED daemonVars

\* The handler, behind the middleware: acquire_lock has nothing to do when there
\* is a session, release_lock when there is none.
CallTool ==
    /\ mcp.pc = "handle" /\ mcp.msg = "tools/call"
    /\ \E t \in Tools :
         LET calls == IF t[1] = (IF mcp.sess THEN "acquire_lock" ELSE "release_lock")
                        THEN <<>> ELSE t[2]
         IN  mcp' = [mcp EXCEPT !.todo = calls,
               !.tool = [guarded |-> t[1] \notin LockExempt, calls |-> calls],
               !.pc = IF t[1] \in LockExempt THEN "tool" ELSE "ensure",
               !.wants = @ \/ Operational(t[2]) \/ t[2] = <<>> \/ t[1] = "acquire_lock"]
    /\ UNCHANGED daemonVars

\* ensureSession
Ensure ==
    /\ mcp.pc = "ensure" /\ rpc = NoRpc
    /\ IF mcp.sess THEN To("tool") /\ UNCHANGED rpc
                   ELSE To("acquiring") /\ \E w \in {"bounded", "forever"} : Send("StartSession", w)
    /\ UNCHANGED <<daemon, holder, watch>>

Ensured ==
    /\ mcp.pc = "acquiring" /\ Answered
    /\ rpc' = NoRpc
    /\ IF rpc.st \in {"ok", "unimplemented"}
         THEN mcp' = [mcp EXCEPT !.pc = "tool", !.sess = rpc.st = "ok"]
         ELSE Turn(1)
    /\ UNCHANGED <<daemon, holder, watch>>

\* The next call of the tool.  release_lock forgets the session before it asks.
ToolCall ==
    /\ mcp.pc = "tool" /\ mcp.todo # <<>>
    /\ \E w \in IF Head(mcp.todo) = "StartSession" THEN {"bounded", "forever"} ELSE {"fast"} :
         Send(Head(mcp.todo), w)
    /\ mcp' = [mcp EXCEPT !.pc = "calling", !.sess = @ /\ Head(mcp.todo) # "FinishSession"]
    /\ UNCHANGED <<daemon, holder, watch>>

\* Variant: a smoke test fails with the error of its netboot.
SessionLostAnyCall == rpc.st = "refused" /\ mcp.tool.guarded /\ ~mcp.retried

\* callWithSession: the tool failed for want of a session, for the first time.  A
\* smoke test whose netboot is refused has not failed: that is its verdict.
SessionLost ==
    /\ rpc.st = "refused" /\ mcp.tool.guarded /\ ~mcp.retried
    /\ ~(rpc.name = "Netboot" /\ mcp.tool.calls = SmokeCalls)

\* Its answer: on to the next; the whole tool once more; or the tool is done, also
\* if it was still sending and has io.EOF for the refusal.
ToolAnswered ==
    /\ mcp.pc = "calling" /\ Answered
    /\ rpc' = NoRpc
    /\ \/ /\ rpc.st = "ok"
          /\ mcp' = [mcp EXCEPT !.pc = "tool", !.todo = Tail(@),
                                !.sess = @ \/ rpc.name = "StartSession"]
       \/ /\ SessionLost
          /\ mcp' = [mcp EXCEPT !.pc = "ensure", !.todo = mcp.tool.calls,
                                !.retried = TRUE, !.sess = FALSE]
       \/ /\ rpc.st # "ok"
          /\ SessionLost => rpc.name \in {"UploadImage", "SCPUpload"}
          /\ mcp' = [mcp EXCEPT !.todo = <<>>, !.pc = "tool",
                !.fate = CASE rpc.name = "FinishSession" -> "lost"
                           [] rpc.st = "refused" /\ rpc.name # "StartSession"
                                /\ ~mcp.tool.guarded -> "refused"
                           [] OTHER -> @]
    /\ UNCHANGED <<daemon, holder, watch>>

\* The tool's result or error
ToolDone ==
    /\ mcp.pc = "tool" /\ mcp.todo = <<>>
    /\ Turn(1)
    /\ UNCHANGED daemonVars

\* SIGINT or SIGTERM, and the agent closing the bridge's stdin
Notify ==
    /\ mcp.pc \notin {"absent", "stop", "releasing", "gone", "killed"}
    /\ \/ ~mcp.sig /\ mcp' = [mcp EXCEPT !.sig = TRUE]
       \/ ~mcp.eof /\ mcp' = [mcp EXCEPT !.eof = TRUE]
    /\ UNCHANGED daemonVars

\* A call under a context that is done: the tool fails.  What it did to the lock
\* is not known.
Abandon ==
    /\ mcp.sig /\ mcp.pc \in {"acquiring", "calling"}
    /\ IF rpc.name = "StartSession" THEN GiveUpStart ELSE rpc' = NoRpc /\ UNCHANGED holder
    /\ mcp' = [mcp EXCEPT !.pc = "tool", !.todo = <<>>,
         !.fate = IF rpc.name \in {"StartSession", "FinishSession"} THEN "lost" ELSE @]
    /\ UNCHANGED <<daemon, watch>>

\* The deferred release, under a context of its own.
Stop ==
    /\ mcp.pc = "stop" /\ rpc = NoRpc
    /\ IF mcp.sess THEN To("releasing") /\ Send("FinishSession", "fast")
                   ELSE To("gone") /\ UNCHANGED rpc
    /\ UNCHANGED <<daemon, holder, watch>>

Stopped ==
    /\ mcp.pc = "releasing" /\ Answered
    /\ rpc' = NoRpc
    /\ mcp' = [mcp EXCEPT !.pc = "gone", !.sess = FALSE,
                          !.fate = IF rpc.st = "ok" THEN @ ELSE "lost"]
    /\ UNCHANGED <<daemon, holder, watch>>

BridgeStep ==
    \/ Connect \/ LookAtContext \/ ReadEof \/ HandleLine \/ RejectTool \/ CallTool
    \/ Ensure \/ Ensured \/ ToolCall \/ ToolAnswered \/ ToolDone \/ Abandon
    \/ Stop \/ Stopped
=============================================================================
