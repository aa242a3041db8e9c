------------------------------- MODULE Smoke -------------------------------
(***************************************************************************)
(* The release smoke test (internal/smoke, run by `unwedge smoke' and the  *)
(* smoke_test tool): upload an image, capture the console, netboot, look   *)
(* for a marker of a good or a bad boot in what was captured, probe SSH,   *)
(* and give a verdict.                                                     *)
(*                                                                         *)
(* The target runs on its own.  It may print a marker of the system it was *)
(* running before the power cycle, and it may reset into the system in its *)
(* flash.  Of its output only the markers are kept, each with the image    *)
(* that printed it.                                                        *)
(*                                                                         *)
(* The run needs the hardware lock.  The command line keeps it alive; the  *)
(* MCP bridge does not, and no RPC of the wait for a marker refreshes it.  *)
(***************************************************************************)
EXTENDS Naturals, Sequences

CONSTANTS Modes,     \* the SSH checks tried: "none", "any", "expect"
          MaxMarks,  \* bound on the markers printed
          TTL,       \* the longest silence a session survives
          BootWait   \* [front end -> how long a marker is waited for]

ASSUME ModesAssumption == Modes \subseteq {"none", "any", "expect"}
ASSUME TimesAssumption == TTL \in Nat /\ BootWait \in [{"cli", "mcp"} -> Nat]

\* The defaults: waitForMarker's 4 minutes and session.DefaultTTL's 5.
ASSUME DefaultsAssumption == BootWait["mcp"] <= TTL

VARIABLES
  front,   \* who runs the test: "cli" or "mcp"
  mode,    \* Config: SSHCommand unset; set; set with SSHExpect
  run,     \* Run: where it is, the reason of its verdict, the caller's result
  ctx,     \* the caller's context: "live" or "done"
  board,   \* the target: the image it runs, whether in userspace, or hung
  out,     \* the markers it has printed
  cap,     \* captureBuf: its stream, and the markers out[from + 1 .. to] in it
  ssh,     \* history: the images that answered the SSH command
  lock     \* the run's session: its silence, and the time spent waiting

smokeVars == <<front, mode, run, ctx, board, out, cap, ssh, lock>>
conf == <<front, mode>>

Image(i) == [image |-> i, up |-> FALSE, hung |-> FALSE]

SmokeInit ==
    /\ front \in {"cli", "mcp"}
    /\ mode \in IF front = "cli" THEN Modes ELSE {"none"}
    /\ run = [pc |-> "upload", reason |-> "none", result |-> "none"]
    /\ ctx = "live"
    /\ board = Image("old")
    /\ out = <<>>
    /\ cap = [stream |-> "none", from |-> 0, to |-> 0]
    /\ ssh = {}
    /\ lock = [silence |-> 0, waited |-> 0]

Captured(mark) == \E k \in cap.from + 1 .. cap.to : out[k].mark = mark

Goto(pc) == run' = [run EXCEPT !.pc = pc]
Verdict(r) == run' = [run EXCEPT !.pc = "finish", !.reason = r]

-----------------------------------------------------------------------------
(* The target.                                                             *)

Mark(m) ==
    /\ board.image # "none" /\ ~board.hung /\ Len(out) < MaxMarks
    /\ out' = Append(out, [image |-> board.image, mark |-> m])
    /\ UNCHANGED <<conf, lock, run, ctx, cap, ssh>>

\* Userspace is up, or the kernel panics.
Boots == Mark("good") /\ board' = [board EXCEPT !.up = TRUE]
Panics == Mark("bad") /\ board' = [board EXCEPT !.up = FALSE, !.hung = TRUE]

\* It resets, by itself or for a watchdog, and starts from its flash.
Resets ==
    /\ board.image \in {"old", "new"}
    /\ board' = Image("flash")
    /\ UNCHANGED <<conf, lock, run, ctx, out, cap, ssh>>

-----------------------------------------------------------------------------
(* Run, up to the netboot.                                                 *)

\* UploadImageFile; a failure is an error and no verdict.
Upload ==
    /\ run.pc = "upload"
    /\ \/ ctx = "live" /\ Goto("netboot")
       \/ run' = [run EXCEPT !.pc = "done", !.result = "error"]
    /\ UNCHANGED <<conf, lock, ctx, board, out, cap, ssh>>

\* The capture goroutine's stream is accepted, without a replay; Run has not
\* waited for it, only for 300 ms.
CaptureStarts ==
    /\ cap.stream = "none" /\ run.pc \notin {"upload", "finish", "report", "done"}
    /\ cap' = [stream |-> "open", from |-> Len(out), to |-> Len(out)]
    /\ UNCHANGED <<conf, lock, run, ctx, board, out, ssh>>

CaptureReceives ==
    /\ cap.stream = "open" /\ cap.to < Len(out)
    /\ cap' = [cap EXCEPT !.to = @ + 1]
    /\ UNCHANGED <<conf, lock, run, ctx, board, out, ssh>>

\* The stream is refused, or ends: for a slow reader, or with the context.
CaptureEnds ==
    /\ cap.stream # "ended" /\ run.pc # "upload"
    /\ cap' = [cap EXCEPT !.stream = "ended"]
    /\ UNCHANGED <<conf, lock, run, ctx, board, out, ssh>>

\* The power cycle at the start of the netboot.
PowerCycle ==
    /\ run.pc = "netboot"
    /\ board' = Image("none")
    /\ Goto("boot")
    /\ UNCHANGED <<conf, lock, ctx, out, cap, ssh>>

\* The daemon boots the image; or it is late, and the target boots its flash.
Starts ==
    /\ run.pc = "boot" /\ board.image = "none"
    /\ \E i \in {"new", "flash"} : board' = Image(i)
    /\ UNCHANGED <<conf, lock, run, ctx, out, cap, ssh>>

\* The Netboot stream ends: well once the kernel starts, or with an error,
\* which may be the client's own timeout.
NetbootEnds ==
    /\ \/ /\ run.pc = "boot" /\ board.image = "new" /\ ctx = "live"
          /\ Goto("marker")
       \/ run.pc \in {"netboot", "boot"} /\ Verdict("netboot failed")
    /\ UNCHANGED <<conf, lock, ctx, board, out, cap, ssh>>

-----------------------------------------------------------------------------
(* Run, from the marker to the verdict.                                    *)

RunCancelled == ctx = "done" /\ Verdict("cancelled")
Healthy == IF mode = "none" THEN Verdict("pass") ELSE Goto("ssh")

\* The deadline of waitForMarker.
MarkerLate == lock.waited >= BootWait[front]

\* Variant: a good marker is looked for first.
WaitForMarkerGoodFirst ==
    /\ run.pc = "marker"
    /\ CASE Captured("good") -> Healthy
         [] ~Captured("good") /\ Captured("bad") -> Verdict("boot failure")
         [] OTHER -> (MarkerLate /\ Verdict("timed out")) \/ RunCancelled
    /\ UNCHANGED <<conf, lock, ctx, board, out, cap, ssh>>

\* Variant: the deadline is not looked at.
WaitForMarkerEndless ==
    /\ run.pc = "marker"
    /\ CASE Captured("bad") -> Verdict("boot failure")
         [] ~Captured("bad") /\ Captured("good") -> Healthy
         [] OTHER -> RunCancelled
    /\ UNCHANGED <<conf, lock, ctx, board, out, cap, ssh>>

\* waitForMarker: one look at the capture, a bad marker first.
WaitForMarker ==
    /\ run.pc = "marker"
    /\ CASE Captured("bad") -> Verdict("boot failure")
         [] ~Captured("bad") /\ Captured("good") -> Healthy
         [] OTHER -> (MarkerLate /\ Verdict("timed out")) \/ RunCancelled
    /\ UNCHANGED <<conf, lock, ctx, board, out, cap, ssh>>

\* Variant: the output of the SSH command is not matched.
ExpectIgnored(i) == TRUE

\* SSHExpect tells the new image from the one in the flash.
Expect(i) == mode = "expect" => i = "new"

\* trySSH: the command exits 0 on what runs there.
SshAnswers ==
    /\ run.pc = "ssh" /\ ctx = "live" /\ board.up
    /\ ssh' = ssh \cup {board.image}
    /\ Verdict(IF Expect(board.image) THEN "pass" ELSE "ssh mismatch")
    /\ UNCHANGED <<conf, lock, ctx, board, out, cap>>

\* trySSH: the last attempt failed and the deadline has passed; else it retries.
SshFails ==
    /\ run.pc = "ssh"
    /\ Verdict("ssh failed")
    /\ UNCHANGED <<conf, lock, ctx, board, out, cap, ssh>>

\* finish: the capture is ended, and waited for at most 2 s.
EndRun ==
    /\ run.pc = "finish"
    /\ Goto("report")
    /\ cap' = [cap EXCEPT !.stream = "ended"]
    /\ UNCHANGED <<conf, lock, ctx, board, out, ssh>>

\* cmdSmoke: the boot log is written, then the verdict is the exit status.
Report ==
    /\ run.pc = "report"
    /\ \E r \in {"error", IF run.reason = "pass" THEN "pass" ELSE "fail"} :
         run' = [run EXCEPT !.pc = "done", !.result = r]
    /\ UNCHANGED <<conf, lock, ctx, board, out, cap, ssh>>

\* Variant: the command line pings only while a call is in progress.
KeepaliveIdle == FALSE

\* maybeAcquire's keepalive; the bridge has none.
Keepalive == front = "cli"

\* Time passes in the wait for a marker, and for SSH; the polls are frequent.
Tick ==
    /\ \/ run.pc = "marker" /\ ~MarkerLate
       \/ run.pc = "ssh"
    /\ lock.waited <= TTL + BootWait[front]
    /\ lock' = [lock EXCEPT !.waited = @ + 1,
                            !.silence = IF Keepalive THEN 0 ELSE @ + 1]
    /\ UNCHANGED <<conf, run, ctx, board, out, cap, ssh>>

\* The caller is interrupted.
Cancel ==
    /\ ctx = "live" /\ run.pc # "done"
    /\ ctx' = "done"
    /\ UNCHANGED <<conf, lock, run, board, out, cap, ssh>>

-----------------------------------------------------------------------------
Board == Boots \/ Panics \/ Resets
Capture == CaptureStarts \/ CaptureReceives \/ CaptureEnds
Runner == Upload \/ PowerCycle \/ NetbootEnds \/ WaitForMarker \/ SshAnswers
            \/ SshFails \/ EndRun \/ Report

SmokeNext == Board \/ Starts \/ Capture \/ Runner \/ Tick \/ Cancel

SmokeSpec == SmokeInit /\ [][SmokeNext]_smokeVars

\* The upload runs on the caller's context, which need never end; every later step
\* has a timeout.
Timed == run.pc # "upload" \/ ctx = "done"

\* Run goes on where it is timed, and time does.  Nothing is asked of the upload,
\* of the target or of the stream.
FairSmokeSpec == SmokeSpec /\ WF_smokeVars(Timed /\ Runner) /\ WF_smokeVars(Tick)

-----------------------------------------------------------------------------
\* The variables have their types.
SmokeTypeOK ==
    /\ front \in {"cli", "mcp"} /\ mode \in Modes \cup {"none"}
    /\ run.pc \in {"upload", "netboot", "boot", "marker", "ssh", "finish",
                   "report", "done"}
    /\ run.result \in {"none", "pass", "fail", "error"}
    /\ ctx \in {"live", "done"}
    /\ board \in [image : {"none", "old", "new", "flash"},
                  up : BOOLEAN, hung : BOOLEAN]
    /\ cap.stream \in {"none", "open", "ended"}
    /\ cap.from <= cap.to /\ cap.to <= Len(out)
    /\ run.result # "none" <=> run.pc = "done"

\* PASS means that the first marker the target printed since the capture began
\* is a good one: a panic before it is never hidden by a later, good boot from
\* the flash, however the polls, the stream and the output interleave.  (The
\* types are checked with it.)
PassIsEarned ==
    /\ SmokeTypeOK
    /\ run.reason = "pass" =>
         /\ cap.from < Len(out)
         /\ out[cap.from + 1].mark = "good"

\* With SSHExpect, PASS means that the uploaded image has reached userspace and
\* answered, even if the good marker came from another boot (smoke.go:53, "the
\* test also asserts the expected image booted").
ExpectedImageRan ==
    mode = "expect" /\ run.result = "pass" =>
      "new" \in ssh /\ \E k \in 1 .. Len(out) : out[k] = [image |-> "new", mark |-> "good"]

\* Nobody else can drive the target between the power cycle and the verdict: the
\* run's session never expires.  The command line's keepalive holds it, and the
\* bridge's run, which nothing refreshes, is over in time.
RunIsExclusive == lock.silence <= TTL

\* Every run ends whose image was uploaded, or whose caller gave up on it,
\* whatever the target and the console stream do.
VerdictReached == Timed ~> run.pc = "done"
=============================================================================
