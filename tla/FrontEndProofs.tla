--------------------------- MODULE FrontEndProofs ---------------------------
(***************************************************************************)
(* The front ends with their daemon, and the smoke test that either of     *)
(* them runs.  The first have no sizes: the run examines all their states, *)
(* and the proof says why they are sound.  The second is proved for any    *)
(* number of markers and any times that the defaults allow.                *)
(*                                                                         *)
(* FrontEnds: what a front end may assume of the lock at each of its       *)
(* places.  An answer can be read long after the lock has changed hands:   *)
(* the invariant says what it still tells its reader, and which error is   *)
(* on record when it no longer tells anything.                             *)
(*                                                                         *)
(* Smoke: the properties speak of the verdict; the invariant carries the   *)
(* reason for it through the steps before: what the capture began with,    *)
(* what the board printed before it was up, and how the silence of the     *)
(* session is bounded by the time the run has waited.                      *)
(***************************************************************************)
EXTENDS FrontEnds, Smoke, TLAPS

\* The calls a command makes, its lock apart, and the answers to a call.
CommandCalls == Rpcs \ {"StartSession", "FinishSession"}
Answers == {"ok", "failed", "refused", "unimplemented"}

\* The places in run(), a call, a command and a bridge.
DaemonStates ==
    [pc : {"starting", "up", "draining", "closing", "aborting", "down"},
     step : 1 .. Len(Startup), locking : BOOLEAN, stack : Seq(Closers)]
CallStates ==
    [name : Rpcs \cup {"none"}, wait : Waits, st : Answers \cup {"none", "sent", "running"}]
CommandStates ==
    [pc : {"absent", "start", "try", "wait", "run", "release", "exited", "killed"},
     script : Seq(CommandCalls), todo : Seq(CommandCalls),
     locks : BOOLEAN, sig : BOOLEAN, fate : {"none", "unlocked", "lost"}]
BridgePcs == {"absent", "start", "loop", "read", "handle", "ensure", "acquiring", "tool",
              "calling", "stop", "releasing", "gone", "killed"}
BridgeStates ==
    [pc : BridgePcs,
     msg : Methods \cup {"blank", "garbage"}, id : BOOLEAN, replies : 0 .. 1,
     tool : [guarded : BOOLEAN, calls : Seq(Rpcs)], todo : Seq(Rpcs),
     retried : BOOLEAN, sess : BOOLEAN, eof : BOOLEAN, sig : BOOLEAN,
     fate : {"none", "lost"}, wants : BOOLEAN]

\* The daemon's variables have their types; no call is no call in every field.
DaemonTyped ==
    /\ daemon \in DaemonStates
    /\ holder \in {"free", "me", "other"}
    /\ watch \in BOOLEAN
    /\ rpc \in CallStates
    /\ rpc.name = "none" <=> rpc = NoRpc
    /\ rpc.st = "none" <=> rpc = NoRpc

\* So have the front ends'.  That "refused" is not among the fates is a result.
FrontTyped == cmd \in CommandStates /\ mcp \in BridgeStates

\* Until GracefulStop is through, what run() has opened is open: the sessions if
\* it locks, and the console from its second step on.
Opened ==
    daemon.pc \in {"starting", "up", "draining"} =>
      /\ "sessions" \in ToSet(daemon.stack) <=> daemon.locking
      /\ daemon.pc # "starting" \/ daemon.step > 2 => "console" \in ToSet(daemon.stack)

\* Handlers run only while the server does; nobody calls before it listens.
Quiet ==
    /\ Handling => daemon.pc \in {"up", "draining", "aborting"}
    /\ watch => daemon.pc = "draining"
    /\ daemon.pc = "starting" =>
         /\ rpc = NoRpc /\ holder = "free"
         /\ cmd.pc \in {"absent", "start"} /\ mcp.pc \in {"absent", "start"}

\* What an answer still says of the lock when it is read: a refusal that the
\* caller has no session now, a release that it has none.
Told ==
    /\ holder # "free" => daemon.locking
    /\ rpc.st = "unimplemented" => ~daemon.locking
    /\ rpc.st = "refused" =>
         \/ rpc.name = "StartSession"
         \/ rpc.name \notin Exempt /\ holder # "me"
    /\ rpc.name = "FinishSession" /\ rpc.st = "ok" => holder # "me"

\* The client of interest is a command or a bridge, never both.
OneFront ==
    \/ cmd = NoCommand /\ mcp.pc # "absent"
    \/ mcp = NoBridge /\ cmd.pc # "absent"

\* The command may take the lock: it has a call that needs it, or, for a usage
\* error found late, none at all.
CommandWants == Operational(cmd.script) \/ cmd.script = <<>>

\* What a command knows at each place.  In its calls it holds the lock, or needs
\* none, or was told not to take one, or the daemon is going and answers nobody.
CommandSound ==
  cmd.pc # "absent" =>
    /\ cmd.pc \in {"start", "exited", "killed"} => rpc = NoRpc
    /\ cmd.pc = "start" => holder # "me" /\ cmd.fate = "none"
    /\ cmd.pc \in {"try", "wait"} =>
         /\ CommandWants /\ cmd.locks /\ cmd.fate = "none" /\ rpc.name \in {"none", "StartSession"}
         /\ holder = "me" => rpc.st = "ok"
         /\ rpc.st = "ok" => holder = "me" \/ daemon.pc # "up"
         /\ cmd.todo = cmd.script
    /\ cmd.pc = "run" =>
         /\ rpc # NoRpc => cmd.todo # <<>> /\ rpc.name = Head(cmd.todo)
         /\ holder = "me" => cmd.locks
         /\ cmd.fate = "none" =>
              \/ cmd.todo \in Seq(Exempt)
              \/ daemon.pc # "up"
              \/ ~daemon.locking
              \/ holder = "me"
         /\ rpc.st = "refused" => cmd.fate # "none"
         /\ cmd.fate # "lost"
    /\ cmd.pc = "release" => rpc.name = "FinishSession"
    /\ cmd.pc = "exited" /\ holder = "me" => cmd.fate = "lost"
    /\ cmd.pc = "killed" => cmd.script # <<"Tunnel">>
    /\ holder = "me" => CommandWants

\* The calls a tool may have left: a guarded tool makes none that is exempt, an
\* exempt one no other, and only acquire_lock asks for the lock.
ToolCalls(guarded, wants) ==
    Seq(IF guarded THEN Rpcs \ Exempt
        ELSE IF wants THEN Exempt ELSE Exempt \ {"StartSession"})

\* How far a guarded tool is: it has at most one call, or is a smoke test, which may
\* have its second left.
Attempt(calls, todo) ==
    /\ calls = SmokeCalls \/ Len(calls) <= 1
    /\ todo # <<>> => todo = calls \/ (calls = SmokeCalls /\ todo = Tail(SmokeCalls))

\* What the bridge knows at each place.  If the lock is its own, it knows of the
\* session, or is about to, or is returning it, or what became of it was lost.
BridgeSound ==
  mcp.pc # "absent" =>
    /\ mcp.pc = "acquiring" => rpc.name = "StartSession"
    /\ mcp.pc = "calling" => mcp.todo # <<>> /\ rpc.name = Head(mcp.todo)
    /\ mcp.pc = "releasing" => rpc.name = "FinishSession"
    /\ mcp.pc \notin {"acquiring", "calling", "releasing"} => rpc = NoRpc
    /\ mcp.todo \in ToolCalls(mcp.tool.guarded, mcp.wants)
    /\ mcp.tool.calls \in ToolCalls(mcp.tool.guarded, mcp.wants)
    /\ mcp.tool.guarded => Attempt(mcp.tool.calls, mcp.todo)
    /\ mcp.tool.guarded \/ mcp.pc \in {"ensure", "acquiring"} \/ rpc.name = "StartSession"
         \/ holder = "me" => mcp.wants
    /\ holder = "me" =>
         \/ mcp.sess \/ mcp.fate = "lost"
         \/ rpc.name = "StartSession" /\ rpc.st = "ok"
         \/ rpc.name = "FinishSession"
    /\ mcp.pc \in {"start", "gone"} => ~mcp.sess

\* While a message is handled it has no reply; back in the loop it has what it
\* needs.
Replied ==
    /\ mcp.pc \in {"read", "handle", "ensure", "acquiring", "tool", "calling"} => mcp.replies = 0
    /\ mcp.pc = "read" => ~mcp.id
    /\ mcp.pc = "start" => ~mcp.id
    /\ mcp.id => mcp.msg \in Methods
    /\ mcp.pc = "loop" /\ mcp.id /\ mcp.msg # "initialized" => mcp.replies = 1

\* The inductive invariant of the front ends.
IInv ==
    /\ DaemonTyped /\ FrontTyped
    /\ Opened /\ Quiet /\ Told
    /\ OneFront /\ CommandSound /\ BridgeSound /\ Replied

\* One call, or none, is a sequence of calls.
LEMMA Singles ==
    ASSUME NEW S, NEW c \in S
    PROVE  <<c>> \in Seq(S) /\ <<>> \in Seq(S) /\ (c \notin Exempt => Operational(<<c>>))
<1>1. <<c>> \in Seq(S) /\ Len(<<c>>) = 1 /\ <<c>>[1] = c
  OBVIOUS
<1>2. 1 \in 1 .. Len(<<c>>)
  BY <1>1
<1> QED
  BY <1>1, <1>2 DEF Operational

\* What a command calls (dispatch), against the command line's lockFreeCommands and
\* the server's sessionExemptMethods: a lock-free command makes exempt calls only,
\* any other makes one that is not, or none at all for a usage error.
LEMMA ScriptsSound ==
    ASSUME NEW s \in Scripts
    PROVE  /\ s[2] \in Seq(CommandCalls)
           /\ s[1] \in LockFree => s[2] \in Seq(Exempt)
           /\ s[1] \notin LockFree => Operational(s[2]) \/ s[2] = <<>>
<1>1. CASE s[2] = <<>>
  BY <1>1
<1>2. ASSUME NEW c, s[2] = <<c>>, c \in CommandCalls, s[1] \in LockFree => c \in Exempt,
             s[1] \notin LockFree => c \notin Exempt
      PROVE  /\ s[2] \in Seq(CommandCalls)
             /\ s[1] \in LockFree => s[2] \in Seq(Exempt)
             /\ s[1] \notin LockFree => Operational(s[2]) \/ s[2] = <<>>
  BY <1>2, Singles
<1>3. CASE s \in ObserveScripts
  <2>1. \E c : s[2] = <<c>> /\ c \in CommandCalls /\ (s[1] \in LockFree => c \in Exempt)
                 /\ (s[1] \notin LockFree => c \notin Exempt)
    BY <1>3 DEF ObserveScripts, CommandCalls, Rpcs, Unary, Streams, LockFree, Exempt
  <2> QED
    BY <1>2, <2>1
<1>4. CASE s \in TargetScripts \cup ImageScripts \cup RemoteScripts /\ s[2] # <<>>
           /\ s # <<"uboot", <<"InterruptBoot", "RunUbootCommand">>>>
  <2>1. \E c : s[2] = <<c>> /\ c \in CommandCalls /\ (s[1] \in LockFree => c \in Exempt)
                 /\ (s[1] \notin LockFree => c \notin Exempt)
    <3>1. CASE s \in TargetScripts
      BY <1>4, <3>1 DEF TargetScripts, Usage, CommandCalls, Rpcs, Unary, Streams, LockFree, Exempt
    <3>2. CASE s \in ImageScripts
      BY <1>4, <3>2 DEF ImageScripts, Usage, CommandCalls, Rpcs, Unary, Streams, LockFree, Exempt
    <3>3. CASE s \in RemoteScripts
      BY <1>4, <3>3 DEF RemoteScripts, Usage, CommandCalls, Rpcs, Unary, Streams, LockFree, Exempt
    <3> QED
      BY <1>4, <3>1, <3>2, <3>3
  <2> QED
    BY <1>2, <2>1
<1>5. ASSUME s[1] \notin LockFree, s[2] \in Seq(CommandCalls), s[2] # <<>>,
             s[2][1] \notin Exempt
      PROVE  /\ s[2] \in Seq(CommandCalls)
             /\ s[1] \in LockFree => s[2] \in Seq(Exempt)
             /\ s[1] \notin LockFree => Operational(s[2]) \/ s[2] = <<>>
  <2>1. 1 \in 1 .. Len(s[2])
    BY <1>5
  <2> QED
    BY <1>5, <2>1 DEF Operational
<1>6. CASE \/ s \in SmokeScripts /\ s[2] # <<>>
           \/ s = <<"uboot", <<"InterruptBoot", "RunUbootCommand">>>>
  <2>1. s[1] \in {"smoke", "uboot"} /\ s[2] \in {<<"UploadImage", "Netboot">>,
          <<"UploadImage", "Netboot", "SSHExec">>, <<"InterruptBoot", "RunUbootCommand">>}
    BY <1>6 DEF SmokeScripts, Usage
  <2>2. {"UploadImage", "Netboot", "SSHExec", "InterruptBoot", "RunUbootCommand"} \subseteq CommandCalls
    BY DEF CommandCalls, Rpcs, Unary, Streams
  <2>3. s[2] \in Seq(CommandCalls) /\ s[2] # <<>>
    <3>1. CASE s[2] = <<"UploadImage", "Netboot">>
      BY <2>2, <3>1
    <3>2. CASE s[2] = <<"UploadImage", "Netboot", "SSHExec">>
      BY <2>2, <3>2
    <3>3. CASE s[2] = <<"InterruptBoot", "RunUbootCommand">>
      BY <2>2, <3>3
    <3> QED
      BY <2>1, <3>1, <3>2, <3>3
  <2>4. s[1] \notin LockFree /\ s[2][1] \notin Exempt
    BY <2>1 DEF LockFree, Exempt
  <2> QED
    BY <1>5, <2>3, <2>4
<1>7. CASE s \in {"unknown"} \X Usage
  BY <1>1, <1>7 DEF Usage
<1> QED
  BY <1>1, <1>3, <1>4, <1>6, <1>7 DEF Scripts

\* What a tool calls (registerTools), against the bridge's lockExempt and the
\* server's sessionExemptMethods.
LEMMA ToolsSound ==
    ASSUME NEW t \in Tools
    PROVE  /\ t[1] \notin LockExempt =>
                t[2] \in Seq(Rpcs \ Exempt) /\ (Operational(t[2]) \/ t[2] = <<>>)
           /\ t[1] \in LockExempt => t[2] \in Seq(Exempt)
           /\ t[1] \in LockExempt \ {"acquire_lock"} => t[2] \in Seq(Exempt \ {"StartSession"})
           /\ t[2] = SmokeCalls \/ Len(t[2]) <= 1
<1>1. CASE t[2] = <<>>
  BY <1>1
<1>2. ASSUME NEW c, t[2] = <<c>>,
             t[1] \notin LockExempt => c \in Rpcs \ Exempt,
             t[1] \in LockExempt => c \in Exempt,
             t[1] \in LockExempt \ {"acquire_lock"} => c \in Exempt \ {"StartSession"}
      PROVE  /\ t[1] \notin LockExempt =>
                  t[2] \in Seq(Rpcs \ Exempt) /\ (Operational(t[2]) \/ t[2] = <<>>)
             /\ t[1] \in LockExempt => t[2] \in Seq(Exempt)
             /\ t[1] \in LockExempt \ {"acquire_lock"} => t[2] \in Seq(Exempt \ {"StartSession"})
             /\ t[2] = SmokeCalls \/ Len(t[2]) <= 1
  BY <1>2, Singles
<1>3. CASE t[2] # <<>> /\ t # <<"smoke_test", SmokeCalls>>
  <2>1. \E c : /\ t[2] = <<c>>
               /\ t[1] \notin LockExempt => c \in Rpcs \ Exempt
               /\ t[1] \in LockExempt => c \in Exempt
               /\ t[1] \in LockExempt \ {"acquire_lock"} => c \in Exempt \ {"StartSession"}
    <3> USE DEF NoArgs, Rpcs, Unary, Streams, LockExempt, Exempt
    <3>1. CASE t \in ConsoleTools \cup LockTools
      BY <1>3, <3>1 DEF ConsoleTools, LockTools
    <3>2. CASE t \in BootTools
      BY <1>3, <3>2 DEF BootTools
    <3>3. CASE t \in ImageTools
      BY <1>3, <3>3 DEF ImageTools
    <3>4. CASE t \in TargetTools
      BY <1>3, <3>4 DEF TargetTools
    <3> QED
      BY <3>1, <3>2, <3>3, <3>4 DEF Tools
  <2> QED
    BY <1>2, <2>1
<1>4. CASE t = <<"smoke_test", SmokeCalls>>
  <2>1. /\ t[1] \notin LockExempt /\ t[2] \in Seq(Rpcs \ Exempt)
        /\ 1 \in 1 .. Len(t[2]) /\ t[2][1] \notin Exempt
    BY <1>4 DEF SmokeCalls, LockExempt, Rpcs, Unary, Streams, Exempt
  <2> QED
    BY <1>4, <2>1 DEF Operational
<1> QED
  BY <1>1, <1>3, <1>4

-----------------------------------------------------------------------------
(* The steps of the daemon.                                                *)

\* A call that is answered is the call that was made.
LEMMA Answering ==
    ASSUME DaemonTyped, rpc # NoRpc, NEW st \in Answers \cup {"running"}, Answer(st)
    PROVE  /\ rpc' \in CallStates
           /\ rpc'.name = rpc.name /\ rpc'.st = st
           /\ rpc'.name # "none" /\ rpc' # NoRpc
<1>1. rpc.name # "none"
  BY DEF DaemonTyped
<1>2. rpc' = [rpc EXCEPT !.st = st]
  BY DEF Answer
<1>3. st \in Answers \cup {"none", "sent", "running"}
  OBVIOUS
<1>4. /\ rpc' \in CallStates
      /\ rpc'.name = rpc.name /\ rpc'.st = st
  BY <1>2, <1>3 DEF DaemonTyped, CallStates
<1> QED
  BY <1>1, <1>4 DEF NoRpc

\* The daemon leaves the front ends alone.
LEMMA FrontStays ==
    ASSUME IInv, UNCHANGED <<cmd, mcp>>
    PROVE  FrontTyped' /\ OneFront' /\ Replied'
BY DEF IInv, FrontTyped, OneFront, Replied

\* An answer that is not about the lock.
LEMMA AnswerIInv ==
    ASSUME IInv, UNCHANGED <<daemon, holder, watch, cmd, mcp>>,
           NEW st \in Answers \cup {"running"}, Answer(st), rpc # NoRpc,
           st = "running" => daemon.pc \in {"up", "draining", "aborting"},
           st = "unimplemented" => ~daemon.locking,
           st = "refused" =>
             \/ rpc.name = "StartSession"
             \/ /\ rpc.name \notin Exempt /\ holder # "me"
                /\ daemon.pc = "up" /\ daemon.locking,
           st = "ok" => rpc.name # "StartSession" /\ (rpc.name = "FinishSession" => holder # "me"),
           rpc.st \in {"sent", "running"}
    PROVE  IInv'
<1>1. /\ rpc' \in CallStates
      /\ rpc'.name = rpc.name /\ rpc'.st = st /\ rpc' # NoRpc /\ rpc.name # "none"
      /\ st # "none"
  BY Answering DEF IInv, DaemonTyped, Answers
<1>2. DaemonTyped'
  BY <1>1 DEF IInv, DaemonTyped
<1>3. Opened' /\ Quiet'
  BY <1>1 DEF IInv, DaemonTyped, Opened, Quiet, Handling
<1>4. Told'
  BY <1>1 DEF IInv, Told
<1>5. CommandSound'
  <2>1. CASE cmd.pc = "run"
    <3>1. st = "refused" => cmd.fate # "none"
      <4> SUFFICES ASSUME st = "refused", cmd.fate = "none" PROVE FALSE
        OBVIOUS
      <4>2. cmd.todo \in Seq(CommandCalls) /\ cmd.todo # <<>> /\ rpc.name = Head(cmd.todo)
        BY <2>1 DEF IInv, CommandSound, FrontTyped, CommandStates
      <4>3. rpc.name \in CommandCalls
        BY <4>2
      <4>4. /\ rpc.name \notin Exempt /\ holder # "me"
            /\ daemon.pc = "up" /\ daemon.locking
        BY <4>3 DEF CommandCalls
      <4>5. cmd.todo \in Seq(Exempt)
        BY <2>1, <4>4 DEF IInv, CommandSound
      <4>6. rpc.name \in Exempt
        BY <4>2, <4>5
      <4> QED
        BY <4>4, <4>6
    <3> QED
      BY <1>1, <2>1, <3>1 DEF IInv, CommandSound, CommandWants
  <2>2. CASE cmd.pc # "run"
    BY <1>1, <2>2 DEF IInv, CommandSound, CommandWants
  <2> QED
    BY <2>1, <2>2
<1>6. BridgeSound'
  BY <1>1 DEF IInv, BridgeSound
<1> QED
  BY <1>2, <1>3, <1>4, <1>5, <1>6, FrontStays DEF IInv

\* Arrive, and the handlers that have nothing to do with the lock.
LEMMA CallIInv ==
    ASSUME IInv, UNCHANGED <<cmd, mcp>>, Arrive \/ HandleOther \/ HandleClosed
    PROVE  IInv'
<1>1. CASE Arrive
  <2>1. rpc # NoRpc
    BY <1>1 DEF Arrive, NoRpc
  <2>2. CASE daemon.pc # "up"
    BY <1>1, <2>1, <2>2, AnswerIInv DEF Arrive, Answers
  <2>3. CASE daemon.pc = "up" /\ Allowed
    BY <1>1, <2>1, <2>3, AnswerIInv DEF Arrive, Answers
  <2>4. CASE daemon.pc = "up" /\ ~Allowed
    BY <1>1, <2>1, <2>4, AnswerIInv DEF Arrive, Answers, Allowed
  <2> QED
    BY <2>2, <2>3, <2>4
<1>2. CASE HandleOther \/ HandleClosed
  <2>1. /\ rpc.st = "running" /\ rpc.name \notin {"StartSession", "FinishSession"}
        /\ Answer("ok") \/ Answer("failed")
        /\ UNCHANGED <<daemon, holder, watch>>
    BY <1>2 DEF HandleOther, HandleClosed, Completes, Handling, Endless, Streams
  <2>2. rpc # NoRpc
    BY <2>1 DEF NoRpc
  <2> QED
    BY <2>1, <2>2, AnswerIInv DEF Answers
<1> QED
  BY <1>1, <1>2

\* The lock is granted.
LEMMA GrantIInv ==
    ASSUME IInv, UNCHANGED <<daemon, watch, cmd, mcp>>, Handling, rpc.name = "StartSession",
           daemon.locking, holder = "free", holder' = "me", Answer("ok")
    PROVE  IInv'
<1>1. /\ rpc' \in CallStates
      /\ rpc'.name = "StartSession" /\ rpc'.st = "ok" /\ rpc' # NoRpc /\ rpc # NoRpc
  <2>1. rpc # NoRpc
    BY DEF Handling, NoRpc
  <2> QED
    BY <2>1, Answering DEF IInv, Answers
<1>2. DaemonTyped'
  BY <1>1 DEF IInv, DaemonTyped
<1>3. Opened' /\ Quiet'
  BY <1>1 DEF IInv, DaemonTyped, Opened, Quiet, Handling
<1>4. Told'
  BY <1>1 DEF IInv, Told
<1>5. CommandSound'
  <2>1. cmd.pc # "absent" => cmd.pc \in {"try", "wait"}
    <3>1. cmd.pc = "run" => rpc.name \in CommandCalls
      <4> SUFFICES ASSUME cmd.pc = "run" PROVE rpc.name \in CommandCalls
        OBVIOUS
      <4>1. cmd.todo \in Seq(CommandCalls) /\ cmd.todo # <<>> /\ rpc.name = Head(cmd.todo)
        BY <1>1 DEF IInv, CommandSound, FrontTyped, CommandStates
      <4> QED
        BY <4>1
    <3> QED
      BY <1>1, <3>1 DEF IInv, CommandSound, FrontTyped, CommandCalls, CommandStates
  <2> QED
    BY <1>1, <2>1 DEF IInv, CommandSound, CommandWants
<1>6. BridgeSound'
  BY <1>1 DEF IInv, BridgeSound
<1> QED
  BY <1>2, <1>3, <1>4, <1>5, <1>6, FrontStays DEF IInv

\* StartSession, in its three outcomes.
LEMMA StartIInv ==
    ASSUME IInv, UNCHANGED <<cmd, mcp>>, HandleStart
    PROVE  IInv'
<1>1. rpc # NoRpc /\ rpc.st = "running" /\ rpc.name = "StartSession"
  BY DEF HandleStart, Handling, NoRpc
<1>2. CASE ~daemon.locking /\ Answer("unimplemented") /\ UNCHANGED holder
  BY <1>1, <1>2, AnswerIInv DEF HandleStart, Answers
<1>3. CASE daemon.locking /\ holder = "free" /\ holder' = "me" /\ Answer("ok")
  BY <1>3, GrantIInv DEF HandleStart
<1>4. CASE daemon.locking /\ holder # "free" /\ Answer("refused") /\ UNCHANGED holder
  BY <1>1, <1>4, AnswerIInv DEF HandleStart, Answers
<1> QED
  BY <1>2, <1>3, <1>4 DEF HandleStart

\* The lock is not mine any more, or was not and is still not; the call of the
\* moment is as it was, or is the answer that says so.
LEMMA YieldIInv ==
    ASSUME IInv, UNCHANGED <<daemon, watch, cmd, mcp>>,
           holder' \in {"free", "other"}, holder' = "other" => daemon.locking,
           daemon.pc # "starting",
           \/ UNCHANGED rpc /\ (holder = "me" => ~KeptAlive)
           \/ /\ rpc.name = "FinishSession" /\ rpc # NoRpc /\ rpc.st = "running"
              /\ \E st \in {"ok", "failed"} : Answer(st)
    PROVE  IInv'
<1>1. /\ rpc' \in CallStates
      /\ rpc'.name = rpc.name
      /\ \/ rpc' = rpc
         \/ rpc'.st \in {"ok", "failed"} /\ rpc.name = "FinishSession" /\ rpc.st = "running"
      /\ rpc' = NoRpc <=> rpc = NoRpc
  <2>1. CASE UNCHANGED rpc
    <3>1. rpc \in CallStates
      BY DEF IInv, DaemonTyped
    <3> QED
      BY <2>1, <3>1
  <2>2. ASSUME NEW st \in {"ok", "failed"}, Answer(st), rpc.name = "FinishSession", rpc # NoRpc,
               rpc.st = "running"
        PROVE  /\ rpc' \in CallStates
               /\ rpc'.name = rpc.name /\ rpc'.st \in {"ok", "failed"} /\ rpc' # NoRpc
    BY <2>2, Answering DEF IInv, Answers
  <2> QED
    BY <2>1, <2>2
<1>7. rpc.name # "FinishSession" => UNCHANGED rpc /\ (holder = "me" => ~KeptAlive)
  OBVIOUS
<1>2. DaemonTyped'
  <2>1. rpc'.name = "none" <=> rpc' = NoRpc
    BY <1>1 DEF IInv, DaemonTyped
  <2>2. rpc'.st = "none" <=> rpc' = NoRpc
    BY <1>1 DEF IInv, DaemonTyped, NoRpc
  <2> QED
    BY <1>1, <2>1, <2>2 DEF IInv, DaemonTyped
<1>3. Opened' /\ Quiet'
  BY <1>1 DEF IInv, DaemonTyped, Opened, Quiet, Handling
<1>4. Told'
  BY <1>1 DEF IInv, Told
<1>5. CommandSound'
  <2>1. cmd.pc \in {"run", "try", "wait"} => rpc.name # "FinishSession"
    <3>1. cmd.pc = "run" /\ rpc # NoRpc => rpc.name \in CommandCalls
      <4> SUFFICES ASSUME cmd.pc = "run", rpc # NoRpc PROVE rpc.name \in CommandCalls
        OBVIOUS
      <4>1. cmd.todo \in Seq(CommandCalls) /\ cmd.todo # <<>> /\ rpc.name = Head(cmd.todo)
        BY DEF IInv, CommandSound, FrontTyped, CommandStates
      <4> QED
        BY <4>1
    <3> QED
      BY <3>1 DEF IInv, CommandSound, CommandCalls, NoRpc
  <2>2. CASE cmd.pc = "run"
    <3>1. UNCHANGED rpc /\ (holder = "me" => ~KeptAlive)
      BY <1>7, <2>1, <2>2
    <3>2. holder = "me" => daemon.pc # "up"
      BY <2>2, <3>1 DEF IInv, CommandSound, KeptAlive
    <3> QED
      BY <2>2, <3>1, <3>2 DEF IInv, CommandSound, CommandWants
  <2>3. CASE cmd.pc \in {"try", "wait"}
    BY <1>7, <2>1, <2>3 DEF IInv, CommandSound, CommandWants, KeptAlive
  <2>4. CASE cmd.pc \notin {"try", "wait", "run"}
    BY <1>1, <2>4 DEF IInv, CommandSound, CommandWants
  <2> QED
    BY <2>2, <2>3, <2>4
<1>6. BridgeSound'
  BY <1>1 DEF IInv, BridgeSound
<1> QED
  BY <1>2, <1>3, <1>4, <1>5, <1>6, FrontStays DEF IInv

\* FinishSession, the other clients, and the sessions that expire.
LEMMA LockIInv ==
    ASSUME IInv, UNCHANGED <<cmd, mcp>>,
           HandleFinish \/ OtherAcquires \/ OtherReleases \/ OtherExpires
             \/ (MineExpires /\ ~KeptAlive)
    PROVE  IInv'
<1>1. CASE HandleFinish
  <2>1. /\ rpc # NoRpc /\ rpc.st = "running" /\ rpc.name = "FinishSession"
        /\ \E st \in {"ok", "failed"} : Answer(st)
        /\ UNCHANGED <<daemon, watch>>
        /\ holder' = IF holder = "me" THEN "free" ELSE holder
    BY <1>1 DEF HandleFinish, Handling, NoRpc
  <2>2. daemon.pc # "starting" /\ (holder # "free" => daemon.locking)
    BY <2>1 DEF IInv, Quiet, Handling, Told
  <2> QED
    BY <2>1, <2>2, YieldIInv DEF IInv, DaemonTyped
<1>2. CASE OtherAcquires
  BY <1>2, YieldIInv DEF OtherAcquires
<1>3. CASE OtherReleases
  BY <1>3, YieldIInv DEF OtherReleases
<1>4. CASE OtherExpires
  BY <1>4, YieldIInv DEF OtherExpires, Expire, IInv, Quiet
<1>5. CASE MineExpires /\ ~KeptAlive
  BY <1>5, YieldIInv DEF MineExpires, Expire, IInv, Quiet
<1> QED
  BY <1>1, <1>2, <1>3, <1>4, <1>5

\* What a closer that is deferred adds to the stack.
LEMMA Deferred ==
    ASSUME NEW s \in Seq(Closers), NEW c \in Closers
    PROVE  Append(s, c) \in Seq(Closers) /\ ToSet(Append(s, c)) = ToSet(s) \cup {c}
<1>1. /\ Append(s, c) \in Seq(Closers) /\ Len(Append(s, c)) = Len(s) + 1 /\ Len(s) \in Nat
      /\ \A i \in 1 .. Len(s) : Append(s, c)[i] = s[i]
      /\ Append(s, c)[Len(s) + 1] = c
      /\ DOMAIN s = 1 .. Len(s) /\ DOMAIN Append(s, c) = 1 .. Len(s) + 1
  OBVIOUS
<1>2. 1 .. Len(s) + 1 = (1 .. Len(s)) \cup {Len(s) + 1}
  BY <1>1
<1> QED
  BY <1>1, <1>2 DEF ToSet

\* The daemon gets on with its start or its end; no call and no lock is affected.
LEMMA MoveIInv ==
    ASSUME IInv, UNCHANGED <<holder, rpc, cmd, mcp>>,
           daemon' \in DaemonStates,
           watch' \in BOOLEAN,
           daemon.pc # "starting" =>
             daemon'.locking = daemon.locking /\ (daemon'.pc = "up" => daemon.pc = "up"),
           Opened', Quiet'
    PROVE  IInv'
<1>1. DaemonTyped'
  BY DEF IInv, DaemonTyped
<1>2. Told'
  BY DEF IInv, Quiet, Told, NoRpc
<1>3. CommandSound'
  <2>1. CASE daemon.pc = "starting"
    BY <2>1 DEF IInv, Quiet, CommandSound, CommandWants
  <2>2. CASE daemon.pc # "starting"
    BY <2>2 DEF IInv, CommandSound, CommandWants
  <2> QED
    BY <2>1, <2>2
<1>4. BridgeSound'
  BY DEF IInv, BridgeSound
<1> QED
  BY <1>1, <1>2, <1>3, <1>4, FrontStays DEF IInv

\* run(), up to the first call.
LEMMA StartUpIInv ==
    ASSUME IInv, UNCHANGED <<cmd, mcp>>, StartStep \/ StartFails
    PROVE  IInv'
<1>1. /\ daemon.pc = "starting" /\ UNCHANGED <<holder, watch, rpc>>
      /\ daemon \in DaemonStates
      /\ watch = FALSE /\ rpc = NoRpc
  BY DEF StartStep, StartFails, IInv, DaemonTyped, Quiet
<1>2. CASE StartFails
  <2>1. /\ daemon' \in DaemonStates
        /\ daemon'.pc = "closing"
    BY <1>1, <1>2 DEF StartFails, DaemonStates
  <2>2. Opened' /\ Quiet'
    BY <1>1, <2>1 DEF Opened, Quiet, Handling, NoRpc
  <2> QED
    BY <1>1, <2>1, <2>2, MoveIInv
<1>3. CASE StartStep
  <2> DEFINE s == Startup[daemon.step]
  <2>1. Len(Startup) = 9 /\ daemon.step \in 1 .. 9
    BY <1>1 DEF Startup, DaemonStates
  <2>2. PICK used \in {TRUE} \cup {s \notin Optional} :
          daemon' = [daemon EXCEPT
               !.step = IF Started THEN @ ELSE @ + 1,
               !.pc = IF Started THEN "up" ELSE @,
               !.stack = IF used /\ s \in Closers THEN Append(@, s) ELSE @,
               !.locking = @ \/ (used /\ s = "sessions")]
    BY <1>3 DEF StartStep
  <2>3. /\ daemon'.step = (IF daemon.step = 9 THEN 9 ELSE daemon.step + 1)
        /\ daemon'.pc = (IF daemon.step = 9 THEN "up" ELSE "starting")
        /\ daemon'.stack = (IF used /\ s \in Closers THEN Append(daemon.stack, s) ELSE daemon.stack)
        /\ daemon'.locking = (daemon.locking \/ (used /\ s = "sessions"))
    BY <1>1, <2>1, <2>2 DEF Started
  <2>4. s = "console" => used
    BY <2>2 DEF Optional
  <2>5. s = "console" <=> daemon.step = 2
    BY <2>1 DEF Startup
  <2>6. /\ daemon'.stack \in Seq(Closers)
        /\ ToSet(daemon'.stack) = ToSet(daemon.stack) \cup (IF used /\ s \in Closers THEN {s} ELSE {})
    <3> HIDE DEF s
    <3> QED
      BY <1>1, <2>3, Deferred DEF DaemonStates
  <2>7. daemon' \in DaemonStates
    <3>1. /\ (IF Started THEN daemon.step ELSE daemon.step + 1) \in 1 .. Len(Startup)
          /\ (IF used /\ s \in Closers THEN Append(daemon.stack, s) ELSE daemon.stack) \in Seq(Closers)
          /\ (daemon.locking \/ (used /\ s = "sessions")) \in BOOLEAN
      BY <1>1, <2>1, <2>3, <2>6 DEF Started
    <3> HIDE DEF s
    <3> QED
      BY <1>1, <2>2, <3>1 DEF DaemonStates
  <2>8. Opened'
    <3>1. "sessions" \in ToSet(daemon.stack) <=> daemon.locking
      BY <1>1 DEF IInv, Opened
    <3>2. "sessions" \in ToSet(daemon'.stack) <=> daemon'.locking
      <4>1. (used /\ s = "sessions") <=> "sessions" \in (IF used /\ s \in Closers THEN {s} ELSE {})
        <5> HIDE DEF s
        <5> QED
          BY DEF Closers
      <4> HIDE DEF s
      <4> QED
        BY <2>3, <2>6, <3>1, <4>1
    <3>3. daemon.step >= 2 => "console" \in ToSet(daemon'.stack)
      <4>1. CASE daemon.step = 2
        BY <2>4, <2>5, <2>6, <4>1 DEF Closers
      <4>2. CASE daemon.step > 2
        BY <1>1, <2>6, <4>2 DEF IInv, Opened
      <4> QED
        BY <2>1, <4>1, <4>2
    <3> QED
      BY <2>1, <2>3, <3>2, <3>3 DEF Opened
  <2>9. Quiet'
    BY <1>1, <2>3 DEF IInv, Quiet, Handling, NoRpc
  <2> QED
    BY <1>1, <2>7, <2>8, <2>9, MoveIInv
<1> QED
  BY <1>2, <1>3

\* run(), from the signal on.
LEMMA ShutdownIInv ==
    ASSUME IInv, UNCHANGED <<cmd, mcp>>, OtherLeaves \/ Signal \/ Drained \/ ServeFails
    PROVE  IInv'
<1>1. /\ UNCHANGED <<holder, rpc>> /\ daemon.pc # "starting"
      /\ daemon' = daemon \/ \E pc \in {"draining", "closing", "aborting"} : daemon' = [daemon EXCEPT !.pc = pc]
  BY DEF OtherLeaves, Signal, Drained, ServeFails, IInv, Quiet
<1>2. daemon \in DaemonStates
  BY DEF IInv, DaemonTyped
<1>3. /\ daemon' \in DaemonStates
      /\ daemon'.locking = daemon.locking /\ daemon'.stack = daemon.stack
      /\ daemon'.pc \in {"draining", "closing", "aborting"} \/ daemon' = daemon
  BY <1>1, <1>2 DEF DaemonStates
<1>4. watch' \in BOOLEAN
  BY DEF OtherLeaves, Signal, Drained, ServeFails, IInv, DaemonTyped
<1>5. Opened'
  <2>1. daemon'.pc = "draining" => daemon.pc \in {"up", "draining"}
    BY <1>2 DEF OtherLeaves, Signal, Drained, ServeFails
  <2> QED
    BY <1>1, <1>3, <2>1 DEF IInv, Opened
<1>6. Quiet'
  <2>1. CASE OtherLeaves
    BY <1>1, <2>1 DEF OtherLeaves, IInv, Quiet, Handling
  <2>2. CASE Signal
    <3>1. daemon'.pc = "draining"
      BY <1>2, <2>2 DEF Signal
    <3> QED
      BY <1>1, <3>1 DEF Quiet, Handling
  <2>3. CASE Drained
    <3>1. daemon'.pc = "closing" /\ ~Handling /\ ~watch /\ UNCHANGED watch
      BY <1>2, <2>3 DEF Drained
    <3> QED
      BY <1>1, <3>1 DEF Quiet, Handling
  <2>4. CASE ServeFails
    <3>1. daemon'.pc = "aborting" /\ ~watch /\ UNCHANGED watch
      BY <1>2, <2>4 DEF ServeFails, IInv, Quiet
    <3> QED
      BY <1>1, <3>1 DEF Quiet, Handling
  <2> QED
    BY <2>1, <2>2, <2>3, <2>4
<1> QED
  BY <1>1, <1>3, <1>4, <1>5, <1>6, MoveIInv

\* The deferred closers, and the end.
LEMMA CloseIInv ==
    ASSUME IInv, UNCHANGED <<cmd, mcp>>, Close
    PROVE  IInv'
<1>1. daemon.pc \in {"closing", "aborting"} /\ daemon \in DaemonStates
  BY DEF Close, IInv, DaemonTyped
<1>2. CASE daemon.stack # <<>>
  <2>1. /\ daemon' = [daemon EXCEPT !.stack = Front(daemon.stack)]
        /\ UNCHANGED <<holder, watch, rpc>>
    BY <1>2 DEF Close
  <2>2. Front(daemon.stack) \in Seq(Closers)
    <3> DEFINE s == daemon.stack
    <3>1. s \in Seq(Closers) /\ Len(s) \in Nat \ {0}
      BY <1>1, <1>2 DEF DaemonStates
    <3>2. SubSeq(s, 1, Len(s) - 1) \in Seq(Closers)
      <4> HIDE DEF s
      <4>1. \A k \in 1 .. Len(s) - 1 : s[k] \in Closers
        BY <3>1
      <4> QED
        BY <3>1, <4>1
    <3> QED
      BY <3>2 DEF Front
  <2>3. daemon' \in DaemonStates /\ daemon'.pc = daemon.pc /\ daemon'.locking = daemon.locking
    BY <1>1, <2>1, <2>2 DEF DaemonStates
  <2>4. Opened' /\ Quiet' /\ watch' \in BOOLEAN
    BY <1>1, <2>1, <2>3 DEF IInv, DaemonTyped, Opened, Quiet, Handling
  <2> QED
    BY <1>1, <2>1, <2>3, <2>4, MoveIInv
<1>3. CASE daemon.stack = <<>>
  <2>1. /\ daemon' = [daemon EXCEPT !.pc = "down"] /\ holder' = "free" /\ watch' = FALSE
        /\ IF Handling THEN Answer("failed") ELSE UNCHANGED rpc
    BY <1>3 DEF Close
  <2>2. /\ rpc' \in CallStates
        /\ rpc'.name = rpc.name
        /\ rpc' = rpc \/ rpc'.st = "failed"
        /\ rpc' = NoRpc <=> rpc = NoRpc
        /\ rpc'.st # "running"
    <3>1. CASE Handling
      <4>1. rpc # NoRpc
        BY <3>1 DEF Handling, NoRpc
      <4> QED
        BY <2>1, <3>1, <4>1, Answering DEF IInv, Answers
    <3>2. CASE ~Handling
      <4>1. rpc' = rpc
        BY <2>1, <3>2
      <4> QED
        BY <3>2, <4>1 DEF Handling, IInv, DaemonTyped
    <3> QED
      BY <3>1, <3>2
  <2>3. daemon' \in DaemonStates /\ daemon'.pc = "down" /\ daemon'.locking = daemon.locking
    BY <1>1, <2>1 DEF DaemonStates
  <2>4. DaemonTyped'
    <3>1. rpc'.name = "none" <=> rpc' = NoRpc
      BY <2>2 DEF IInv, DaemonTyped
    <3>2. rpc'.st = "none" <=> rpc' = NoRpc
      BY <2>2 DEF IInv, DaemonTyped, NoRpc
    <3> QED
      BY <2>1, <2>2, <2>3, <3>1, <3>2 DEF DaemonTyped
  <2>5. Opened' /\ Quiet' /\ Told'
    BY <2>1, <2>2, <2>3 DEF IInv, Told, Opened, Quiet, Handling
  <2>6. CommandSound'
    <3>1. cmd.pc \in {"try", "wait"} => CommandSound'
      BY <2>1, <2>2, <2>3 DEF IInv, CommandSound, CommandWants
    <3>2. cmd.pc \notin {"try", "wait"} => CommandSound'
      BY <2>1, <2>2, <2>3 DEF IInv, CommandSound, CommandWants
    <3> QED
      BY <3>1, <3>2
  <2>7. BridgeSound'
    BY <2>1, <2>2, <2>3 DEF IInv, BridgeSound
  <2> QED
    BY <2>4, <2>5, <2>6, <2>7, FrontStays DEF IInv
<1> QED
  BY <1>2, <1>3

\* Every step of the daemon keeps the invariant.
LEMMA DaemonIInv == ASSUME IInv, Daemons PROVE IInv'
<1>1. UNCHANGED <<cmd, mcp>> /\ DaemonStep /\ ~(KeptAlive /\ MineExpires)
  BY DEF Daemons
<1> QED
  BY <1>1, CallIInv, StartIInv, LockIInv, StartUpIInv, ShutdownIInv, CloseIInv DEF DaemonStep

-----------------------------------------------------------------------------
(* The steps of a command.                                                 *)

\* A call is made.
LEMMA Sending ==
    ASSUME NEW r \in Rpcs, NEW w \in Waits, Send(r, w)
    PROVE  /\ rpc' \in CallStates
           /\ rpc'.name = r /\ rpc'.st = "sent" /\ rpc'.name # "none" /\ rpc' # NoRpc
BY DEF Send, Rpcs, Unary, Streams, NoRpc, CallStates

\* A step of a front end that does not touch the lock: what it does to the call
\* says all about the daemon's side.
LEMMA DaemonSide ==
    ASSUME IInv, UNCHANGED <<daemon, holder, watch>>,
           daemon.pc # "starting",
           \/ UNCHANGED rpc \/ rpc' = NoRpc
           \/ \E r \in Rpcs, w \in Waits : Send(r, w)
    PROVE  DaemonTyped' /\ Opened' /\ Quiet' /\ Told'
<1>1. CASE UNCHANGED rpc
  BY <1>1 DEF IInv, DaemonTyped, Opened, Quiet, Told, Handling
<1>2. CASE rpc' = NoRpc
  BY <1>2 DEF IInv, DaemonTyped, Opened, Quiet, Told, Handling, NoRpc, Waits, CallStates
<1>3. ASSUME NEW r \in Rpcs, NEW w \in Waits, Send(r, w)
      PROVE  DaemonTyped' /\ Opened' /\ Quiet' /\ Told'
  <2>1. /\ rpc' \in CallStates
        /\ rpc'.name = r /\ rpc'.st = "sent" /\ rpc'.name # "none" /\ rpc' # NoRpc
    BY <1>3, Sending
  <2> QED
    BY <2>1 DEF IInv, DaemonTyped, Opened, Quiet, Told, Handling
<1> QED
  BY <1>1, <1>2, <1>3

\* Where there is a command there is no bridge.
LEMMA CommandAlone ==
    ASSUME IInv, cmd.pc # "absent", cmd'.pc # "absent", UNCHANGED mcp
    PROVE  OneFront' /\ BridgeSound' /\ Replied'
BY DEF IInv, OneFront, BridgeSound, Replied, NoCommand, NoBridge

\* What is left to show of a step of a command, when the daemon's side is shown.
LEMMA CommandMoves ==
    ASSUME IInv, UNCHANGED <<daemon, watch, mcp>>, daemon.pc # "starting",
           cmd.pc # "absent", cmd'.pc # "absent", cmd' \in CommandStates, CommandSound',
           DaemonTyped', Opened', Quiet', Told'
    PROVE  IInv'
<1>1. FrontTyped'
  BY DEF IInv, FrontTyped
<1> QED
  BY <1>1, CommandAlone DEF IInv

\* Its arguments are parsed.
LEMMA ParseIInv == ASSUME IInv, Parse, UNCHANGED mcp, daemon.pc # "starting" PROVE IInv'
<1>1. /\ UNCHANGED <<daemon, holder, watch, rpc>> /\ cmd.pc = "start" /\ cmd \in CommandStates
      /\ rpc = NoRpc /\ holder # "me" /\ cmd.fate = "none"
  BY DEF Parse, daemonVars, IInv, FrontTyped, CommandSound
<1>2. DaemonTyped' /\ Opened' /\ Quiet' /\ Told'
  BY <1>1, DaemonSide
<1>3. ASSUME NEW s \in Scripts, NEW noSession \in BOOLEAN,
             cmd' = [cmd EXCEPT !.script = s[2], !.todo = s[2],
                 !.locks = ~noSession /\ s[1] \notin LockFree,
                 !.pc = IF ~noSession /\ s[1] \notin LockFree THEN "try" ELSE "run",
                 !.fate = IF noSession THEN "unlocked" ELSE @]
      PROVE  cmd' \in CommandStates /\ cmd'.pc # "absent" /\ CommandSound'
  <2> DEFINE locks == ~noSession /\ s[1] \notin LockFree
             pc == IF ~noSession /\ s[1] \notin LockFree THEN "try" ELSE "run"
             fate == IF noSession THEN "unlocked" ELSE cmd.fate
  <2>1. s[2] \in Seq(CommandCalls)
    BY ScriptsSound
  <2>2. locks \in BOOLEAN /\ pc \in {"try", "run"} /\ fate \in {"none", "unlocked"}
    BY <1>1
  <2>3. cmd' = [cmd EXCEPT !.script = s[2], !.todo = s[2], !.locks = locks, !.pc = pc, !.fate = fate]
    BY <1>3
  <2>4. /\ cmd' \in CommandStates
        /\ cmd'.script = s[2] /\ cmd'.todo = s[2]
        /\ cmd'.locks = locks /\ cmd'.pc = pc /\ cmd'.fate = fate
    <3> HIDE DEF locks, pc, fate
    <3> QED
      BY <1>1, <2>1, <2>2, <2>3 DEF CommandStates
  <2>5. CASE locks
    <3>1. Operational(s[2]) \/ s[2] = <<>>
      BY <2>5, ScriptsSound
    <3>2. cmd'.pc = "try" /\ cmd'.locks /\ cmd'.fate = "none"
      BY <1>1, <2>4, <2>5
    <3> QED
      BY <1>1, <2>4, <3>1, <3>2 DEF CommandSound, CommandWants, NoRpc
  <2>6. CASE ~locks
    <3>1. cmd'.pc = "run" /\ (cmd'.fate = "none" => s[2] \in Seq(Exempt))
      <4>1. cmd'.fate = "none" => s[1] \in LockFree
        BY <2>4, <2>6
      <4> QED
        BY <2>4, <2>6, <4>1, ScriptsSound
    <3>2. cmd'.fate # "lost"
      BY <2>2, <2>4
    <3> QED
      BY <1>1, <2>4, <3>1, <3>2 DEF CommandSound, NoRpc
  <2> QED
    BY <2>2, <2>4, <2>5, <2>6
<1>4. ASSUME GoOn("exited") PROVE cmd' \in CommandStates /\ cmd'.pc # "absent" /\ CommandSound'
  <2>1. cmd' \in CommandStates /\ cmd'.pc = "exited"
    BY <1>1, <1>4 DEF GoOn, CommandStates
  <2> QED
    BY <1>1, <2>1 DEF CommandSound
<1>5. cmd' \in CommandStates /\ cmd'.pc # "absent" /\ CommandSound'
  BY <1>3, <1>4 DEF Parse
<1> QED
  BY <1>1, <1>2, <1>5, CommandMoves

\* It asks for the lock, and is told.
LEMMA AcquireIInv ==
    ASSUME IInv, Acquire \/ Acquired, UNCHANGED mcp, daemon.pc # "starting"
    PROVE  IInv'
<1>1. /\ UNCHANGED <<daemon, holder, watch>> /\ cmd.pc \in {"try", "wait"} /\ cmd \in CommandStates
      /\ CommandWants /\ cmd.locks /\ cmd.fate = "none" /\ cmd.todo = cmd.script
      /\ rpc.name \in {"none", "StartSession"}
      /\ holder = "me" => rpc.st = "ok"
      /\ rpc.st = "ok" => holder = "me" \/ daemon.pc # "up"
  BY DEF Acquire, Acquired, IInv, FrontTyped, CommandSound
<1>2. CASE Acquire
  <2>1. PICK w \in Waits : Send("StartSession", w)
    BY <1>2 DEF Acquire, Waits
  <2>2. "StartSession" \in Rpcs /\ rpc = NoRpc /\ UNCHANGED cmd
    BY <1>2 DEF Rpcs, Unary, Acquire
  <2>3. DaemonTyped' /\ Opened' /\ Quiet' /\ Told'
    BY <1>1, <2>1, <2>2, DaemonSide
  <2>4. rpc'.name = "StartSession" /\ rpc'.st = "sent"
    BY <2>1, <2>2, Sending
  <2>5. CommandSound'
    BY <1>1, <2>2, <2>4 DEF CommandSound, CommandWants, NoRpc
  <2> QED
    BY <1>1, <2>2, <2>3, <2>5, CommandMoves
<1>3. CASE Acquired
  <2>1. /\ rpc' = NoRpc /\ Answered
        /\ cmd' = [cmd EXCEPT
             !.locks = rpc.st # "unimplemented",
             !.pc = IF rpc.st \in {"ok", "unimplemented"} THEN "run"
                    ELSE IF cmd.pc = "try" /\ rpc.st = "refused" THEN "wait"
                    ELSE "exited"]
    BY <1>3 DEF Acquired
  <2>2. /\ cmd' \in CommandStates
        /\ cmd'.script = cmd.script /\ cmd'.todo = cmd.todo /\ cmd'.fate = "none"
        /\ cmd'.locks = (rpc.st # "unimplemented")
        /\ cmd'.pc = IF rpc.st \in {"ok", "unimplemented"} THEN "run"
                     ELSE IF cmd.pc = "try" /\ rpc.st = "refused" THEN "wait"
                     ELSE "exited"
    <3> DEFINE locks == rpc.st # "unimplemented"
               pc == IF rpc.st \in {"ok", "unimplemented"} THEN "run"
                     ELSE IF cmd.pc = "try" /\ rpc.st = "refused" THEN "wait"
                     ELSE "exited"
    <3>1. locks \in BOOLEAN /\ pc \in {"run", "wait", "exited"}
      OBVIOUS
    <3>2. cmd' = [cmd EXCEPT !.locks = locks, !.pc = pc]
      BY <2>1
    <3> HIDE DEF locks, pc
    <3>3. /\ cmd' \in CommandStates
          /\ cmd'.script = cmd.script /\ cmd'.todo = cmd.todo /\ cmd'.fate = cmd.fate
          /\ cmd'.locks = locks /\ cmd'.pc = pc
      BY <1>1, <3>1, <3>2 DEF CommandStates
    <3> QED
      BY <1>1, <3>3 DEF locks, pc
  <2>3. DaemonTyped' /\ Opened' /\ Quiet' /\ Told'
    BY <1>1, <2>1, DaemonSide
  <2>4. CommandSound'
    <3>1. CASE rpc.st = "ok"
      <4>1. cmd'.pc = "run" /\ cmd'.locks
        BY <2>2, <3>1
      <4>2. CommandWants'
        BY <1>1, <2>2 DEF CommandWants
      <4>3. rpc'.st # "refused"
        BY <2>1 DEF NoRpc
      <4> QED
        BY <1>1, <2>1, <2>2, <3>1, <4>1, <4>2, <4>3 DEF CommandSound
    <3>2. CASE rpc.st = "unimplemented"
      <4>1. ~daemon.locking /\ holder # "me"
        BY <3>2 DEF IInv, Told
      <4> QED
        BY <1>1, <2>1, <2>2, <3>2, <4>1 DEF CommandSound, NoRpc
    <3>3. CASE rpc.st \notin {"ok", "unimplemented"}
      <4>1. cmd'.pc = "wait" \/ cmd'.pc = "exited"
        BY <2>2, <3>3
      <4> QED
        BY <1>1, <2>1, <2>2, <3>3, <4>1 DEF CommandSound, CommandWants, NoRpc
    <3> QED
      BY <3>1, <3>2, <3>3
  <2>5. cmd'.pc # "absent"
    BY <2>2
  <2> QED
    BY <1>1, <2>2, <2>3, <2>4, <2>5, CommandMoves
<1> QED
  BY <1>2, <1>3

\* It makes its calls.
LEMMA CallsIInv ==
    ASSUME IInv, MakeCall \/ CallAnswered, UNCHANGED mcp, daemon.pc # "starting"
    PROVE  IInv'
<1>1. /\ UNCHANGED <<daemon, holder, watch>> /\ cmd.pc = "run" /\ cmd \in CommandStates
      /\ rpc # NoRpc => cmd.todo # <<>> /\ rpc.name = Head(cmd.todo)
      /\ holder = "me" => cmd.locks /\ CommandWants
      /\ cmd.fate = "none" => \/ cmd.todo \in Seq(Exempt) \/ daemon.pc # "up"
                              \/ ~daemon.locking \/ holder = "me"
      /\ rpc.st = "refused" => cmd.fate # "none"
      /\ cmd.fate # "lost"
  BY DEF MakeCall, CallAnswered, IInv, FrontTyped, CommandSound
<1>2. CASE MakeCall
  <2>1. /\ cmd.todo \in Seq(CommandCalls) /\ cmd.todo # <<>>
        /\ Send(Head(cmd.todo), "fast") /\ UNCHANGED cmd
    BY <1>1, <1>2 DEF MakeCall, CommandStates
  <2>2. Head(cmd.todo) \in Rpcs
    <3>1. Head(cmd.todo) \in CommandCalls
      BY <2>1
    <3> QED
      BY <3>1 DEF CommandCalls
  <2>3. "fast" \in Waits
    BY DEF Waits
  <2>4. DaemonTyped' /\ Opened' /\ Quiet' /\ Told'
    BY <1>1, <2>1, <2>2, <2>3, DaemonSide
  <2>5. rpc'.name = Head(cmd.todo) /\ rpc'.st = "sent"
    BY <2>1, <2>2, <2>3, Sending
  <2>6. CommandWants' = CommandWants
    BY <2>1 DEF CommandWants
  <2>7. CommandSound'
    BY <1>1, <2>1, <2>5, <2>6 DEF CommandSound
  <2> QED
    BY <1>1, <2>1, <2>4, <2>7, CommandMoves
<1>3. CASE CallAnswered
  <2> DEFINE todo == IF rpc.st = "ok" THEN Tail(cmd.todo) ELSE <<>>
             fate == IF rpc.st = "refused" /\ cmd.fate = "none" THEN "refused" ELSE cmd.fate
  <2>1. /\ rpc' = NoRpc /\ Answered
        /\ cmd' = [cmd EXCEPT !.todo = todo, !.fate = fate]
    BY <1>3 DEF CallAnswered
  <2>2. fate = cmd.fate
    BY <1>1
  <2>3. rpc # NoRpc
    BY <2>1 DEF Answered, NoRpc
  <2>4. cmd.todo \in Seq(CommandCalls) /\ cmd.todo # <<>>
    BY <1>1, <2>3 DEF CommandStates
  <2>5. todo \in Seq(CommandCalls) /\ (cmd.todo \in Seq(Exempt) => todo \in Seq(Exempt))
    BY <2>4
  <2>6. /\ cmd' \in CommandStates /\ cmd'.todo = todo /\ cmd'.fate = cmd.fate
        /\ cmd'.pc = "run" /\ cmd'.locks = cmd.locks /\ cmd'.script = cmd.script
    <3> HIDE DEF todo, fate
    <3> QED
      BY <1>1, <2>1, <2>2, <2>5 DEF CommandStates
  <2>7. DaemonTyped' /\ Opened' /\ Quiet' /\ Told'
    BY <1>1, <2>1, DaemonSide
  <2>8. CommandWants' = CommandWants
    BY <2>6 DEF CommandWants
  <2>9. CommandSound'
    <3> HIDE DEF todo
    <3>1. rpc'.st = "none"
      BY <2>1 DEF NoRpc
    <3> QED
      BY <1>1, <2>1, <2>5, <2>6, <2>8, <3>1 DEF CommandSound
  <2> QED
    BY <1>1, <2>6, <2>7, <2>9, CommandMoves
<1> QED
  BY <1>2, <1>3

\* Its calls are dropped.
LEMMA CallsDropped ==
    ASSUME cmd \in CommandStates, cmd' = [cmd EXCEPT !.todo = <<>>]
    PROVE  /\ cmd' \in CommandStates /\ cmd'.pc = cmd.pc /\ cmd'.script = cmd.script
           /\ cmd'.todo = <<>> /\ cmd'.locks = cmd.locks /\ cmd'.fate = cmd.fate
<1> DEFINE todo == <<>>
<1>1. todo \in Seq(CommandCalls) /\ cmd' = [cmd EXCEPT !.todo = todo]
  OBVIOUS
<1>2. cmd'.todo = todo
  OBVIOUS
<1> HIDE DEF todo
<1>3. /\ cmd' \in CommandStates /\ cmd'.pc = cmd.pc /\ cmd'.script = cmd.script
      /\ cmd'.locks = cmd.locks /\ cmd'.fate = cmd.fate
  BY <1>1 DEF CommandStates
<1> QED
  BY <1>2, <1>3 DEF todo

\* It is interrupted, or its stdout is closed.
LEMMA InterruptIInv ==
    ASSUME IInv, Interrupt \/ BrokenPipe, UNCHANGED mcp, daemon.pc # "starting"
    PROVE  IInv'
<1>1. cmd \in CommandStates
  BY DEF IInv, FrontTyped
<1>2. CASE Interrupt
  <2>1. /\ UNCHANGED <<daemon, holder, watch, rpc>> /\ cmd.pc # "absent"
        /\ cmd' = [cmd EXCEPT !.sig = TRUE]
    BY <1>2 DEF Interrupt, daemonVars
  <2>2. /\ cmd' \in CommandStates /\ cmd'.pc = cmd.pc /\ cmd'.script = cmd.script
        /\ cmd'.todo = cmd.todo /\ cmd'.locks = cmd.locks /\ cmd'.fate = cmd.fate
    BY <1>1, <2>1 DEF CommandStates
  <2>3. DaemonTyped' /\ Opened' /\ Quiet' /\ Told'
    BY <2>1, DaemonSide
  <2>4. CommandWants' = CommandWants
    BY <2>2 DEF CommandWants
  <2>5. CommandSound'
    BY <2>1, <2>2, <2>4 DEF IInv, CommandSound
  <2> QED
    BY <2>1, <2>2, <2>3, <2>5, CommandMoves
<1>3. CASE BrokenPipe
  <2>1. /\ UNCHANGED <<daemon, holder, watch>> /\ cmd.pc = "run" /\ rpc' = NoRpc
        /\ cmd' = IF cmd.script = <<"Tunnel">> THEN [cmd EXCEPT !.todo = <<>>]
                                               ELSE [cmd EXCEPT !.pc = "killed"]
    BY <1>3 DEF BrokenPipe
  <2>2. DaemonTyped' /\ Opened' /\ Quiet' /\ Told'
    BY <2>1, DaemonSide
  <2>3. rpc'.st = "none"
    BY <2>1 DEF NoRpc
  <2>4. CASE cmd.script = <<"Tunnel">>
    <3>1. cmd' = [cmd EXCEPT !.todo = <<>>]
      BY <2>1, <2>4
    <3>2. /\ cmd' \in CommandStates /\ cmd'.pc = "run" /\ cmd'.script = cmd.script
          /\ cmd'.todo = <<>> /\ cmd'.locks = cmd.locks /\ cmd'.fate = cmd.fate
      BY <1>1, <2>1, <3>1, CallsDropped
    <3>3. CommandWants' = CommandWants
      BY <3>2 DEF CommandWants
    <3>4. cmd'.todo \in Seq(Exempt)
      BY <3>2
    <3>5. CommandSound'
      BY <2>1, <2>3, <3>2, <3>3, <3>4 DEF IInv, CommandSound
    <3> QED
      BY <2>1, <2>2, <3>2, <3>5, CommandMoves
  <2>5. CASE cmd.script # <<"Tunnel">>
    <3>1. cmd' = [cmd EXCEPT !.pc = "killed"]
      BY <2>1, <2>5
    <3>2. cmd' \in CommandStates /\ cmd'.pc = "killed" /\ cmd'.script = cmd.script
      BY <1>1, <3>1 DEF CommandStates
    <3>3. CommandWants' = CommandWants
      BY <3>2 DEF CommandWants
    <3>4. CommandSound'
      BY <2>1, <2>5, <3>2, <3>3 DEF IInv, CommandSound
    <3> QED
      BY <2>1, <2>2, <3>2, <3>4, CommandMoves
  <2> QED
    BY <2>4, <2>5
<1> QED
  BY <1>2, <1>3

\* It gives up the call under way.
LEMMA CancelIInv ==
    ASSUME IInv, Cancelled, UNCHANGED mcp, daemon.pc # "starting"
    PROVE  IInv'
<1>1. cmd \in CommandStates /\ UNCHANGED <<daemon, watch>>
  BY DEF Cancelled, IInv, FrontTyped
<1>2. CASE cmd.pc \in {"try", "wait"} /\ GiveUpStart
           /\ cmd' = [cmd EXCEPT !.pc = "exited",
                                 !.fate = IF holder' = "me" THEN "lost" ELSE @]
  <2> DEFINE fate == IF holder' = "me" THEN "lost" ELSE cmd.fate
  <2>1. /\ cmd' \in CommandStates /\ cmd'.pc = "exited" /\ cmd'.fate = fate
        /\ cmd'.script = cmd.script
    <3>1. fate \in {"none", "unlocked", "lost"} /\ cmd' = [cmd EXCEPT !.pc = "exited", !.fate = fate]
      BY <1>1, <1>2 DEF CommandStates
    <3> HIDE DEF fate
    <3> QED
      BY <1>1, <3>1 DEF CommandStates
  <2>2. /\ rpc' = NoRpc
        /\ \/ holder' = holder
           \/ holder' = "me" /\ Handling /\ daemon.locking
    BY <1>2 DEF GiveUpStart
  <2>3. DaemonTyped' /\ Opened' /\ Quiet' /\ Told'
    BY <1>1, <2>2 DEF IInv, DaemonTyped, Opened, Quiet, Told, Handling, NoRpc, Waits, CallStates
  <2>4. CommandWants' /\ CommandWants
    BY <1>2, <2>1 DEF IInv, CommandSound, CommandWants
  <2>5. CommandSound'
    BY <2>1, <2>2, <2>4 DEF CommandSound
  <2> QED
    BY <1>1, <1>2, <2>1, <2>3, <2>5, CommandMoves
<1>3. CASE cmd.pc = "run" /\ cmd' = [cmd EXCEPT !.todo = <<>>] /\ rpc' = NoRpc /\ UNCHANGED holder
  <2>1. /\ cmd' \in CommandStates /\ cmd'.pc = "run" /\ cmd'.script = cmd.script
        /\ cmd'.todo = <<>> /\ cmd'.locks = cmd.locks /\ cmd'.fate = cmd.fate
    BY <1>1, <1>3, CallsDropped
  <2>2. DaemonTyped' /\ Opened' /\ Quiet' /\ Told'
    BY <1>1, <1>3, DaemonSide
  <2>3. CommandWants' = CommandWants
    BY <2>1 DEF CommandWants
  <2>4. cmd'.todo \in Seq(Exempt) /\ rpc'.st = "none"
    BY <1>3, <2>1 DEF NoRpc
  <2>5. CommandSound'
    BY <1>1, <1>3, <2>1, <2>3, <2>4 DEF IInv, CommandSound
  <2> QED
    BY <1>1, <1>3, <2>1, <2>2, <2>5, CommandMoves
<1> QED
  BY <1>2, <1>3 DEF Cancelled

\* It returns the lock and exits.
LEMMA ExitIInv ==
    ASSUME IInv, ReleaseLock \/ Exit, UNCHANGED mcp, daemon.pc # "starting"
    PROVE  IInv'
<1>1. cmd \in CommandStates /\ UNCHANGED <<daemon, holder, watch>>
  BY DEF ReleaseLock, Exit, IInv, FrontTyped
<1>2. \A pc \in {"release", "exited"} : GoOn(pc) =>
        cmd' \in CommandStates /\ cmd'.pc = pc /\ cmd'.script = cmd.script
  BY <1>1 DEF GoOn, CommandStates
<1>3. CASE ReleaseLock /\ cmd.locks
  <2>1. Send("FinishSession", "fast") /\ cmd.pc = "run"
        /\ cmd' \in CommandStates /\ cmd'.pc = "release" /\ cmd'.script = cmd.script
    BY <1>2, <1>3 DEF ReleaseLock
  <2>2. "FinishSession" \in Rpcs /\ "fast" \in Waits
    BY DEF Rpcs, Unary, Waits
  <2>3. DaemonTyped' /\ Opened' /\ Quiet' /\ Told'
    BY <1>1, <2>1, <2>2, DaemonSide
  <2>4. rpc'.name = "FinishSession"
    BY <2>1, <2>2, Sending
  <2>5. CommandWants' = CommandWants
    BY <2>1 DEF CommandWants
  <2>6. CommandSound'
    BY <1>1, <2>1, <2>4, <2>5 DEF IInv, CommandSound
  <2> QED
    BY <1>1, <2>1, <2>3, <2>6, CommandMoves
<1>4. CASE ReleaseLock /\ ~cmd.locks
  <2>1. UNCHANGED rpc /\ rpc = NoRpc /\ cmd.pc = "run"
        /\ cmd' \in CommandStates /\ cmd'.pc = "exited" /\ cmd'.script = cmd.script
    BY <1>2, <1>4 DEF ReleaseLock
  <2>2. DaemonTyped' /\ Opened' /\ Quiet' /\ Told'
    BY <1>1, <2>1, DaemonSide
  <2>3. holder # "me"
    BY <1>4, <2>1 DEF IInv, CommandSound
  <2>4. CommandSound'
    BY <1>1, <2>1, <2>3 DEF CommandSound
  <2> QED
    BY <1>1, <2>1, <2>2, <2>4, CommandMoves
<1>5. CASE Exit
  <2> DEFINE fate == IF rpc.st = "ok" THEN cmd.fate ELSE "lost"
  <2>1. rpc' = NoRpc /\ cmd.pc = "release" /\ cmd' = [cmd EXCEPT !.pc = "exited", !.fate = fate]
    BY <1>5 DEF Exit
  <2>2. fate \in {"none", "unlocked", "lost"}
    BY <1>1 DEF CommandStates
  <2>3. /\ cmd' \in CommandStates /\ cmd'.pc = "exited" /\ cmd'.fate = fate
        /\ cmd'.script = cmd.script
    <3> HIDE DEF fate
    <3> QED
      BY <1>1, <2>1, <2>2 DEF CommandStates
  <2>4. DaemonTyped' /\ Opened' /\ Quiet' /\ Told'
    BY <1>1, <2>1, DaemonSide
  <2>5. holder = "me" => fate = "lost"
    BY <2>1 DEF IInv, CommandSound, Told
  <2>6. CommandWants' = CommandWants
    BY <2>3 DEF CommandWants
  <2>7. CommandSound'
    BY <1>1, <2>1, <2>3, <2>5, <2>6 DEF IInv, CommandSound
  <2> QED
    BY <1>1, <2>1, <2>3, <2>4, <2>7, CommandMoves
<1> QED
  BY <1>3, <1>4, <1>5

\* Every step of a command keeps the invariant.
LEMMA CommandIInv == ASSUME IInv, Commands PROVE IInv'
BY ParseIInv, AcquireIInv, CallsIInv, InterruptIInv, CancelIInv, ExitIInv
   DEF Commands, CommandStep

-----------------------------------------------------------------------------
(* The steps of the bridge.                                                *)

\* What is left to show of a step of the bridge.
LEMMA BridgeMoves ==
    ASSUME IInv, UNCHANGED <<daemon, watch, cmd>>, daemon.pc # "starting",
           mcp.pc # "absent", mcp'.pc # "absent", mcp' \in BridgeStates, BridgeSound', Replied',
           DaemonTyped', Opened', Quiet', Told'
    PROVE  IInv'
<1>1. FrontTyped'
  BY DEF IInv, FrontTyped
<1>2. cmd = NoCommand
  BY DEF IInv, OneFront, NoBridge
<1>3. OneFront' /\ CommandSound'
  BY <1>2 DEF OneFront, CommandSound, NoCommand
<1> QED
  BY <1>1, <1>3 DEF IInv

\* The same for a step that does not touch the lock.
LEMMA BridgeCalls ==
    ASSUME IInv, UNCHANGED <<daemon, holder, watch, cmd>>, daemon.pc # "starting",
           mcp.pc # "absent", mcp'.pc # "absent", mcp' \in BridgeStates, BridgeSound', Replied',
           \/ UNCHANGED rpc \/ rpc' = NoRpc
           \/ \E r \in Rpcs, w \in Waits : Send(r, w)
    PROVE  IInv'
BY DaemonSide, BridgeMoves

\* Only the place in the loop changes.
LEMMA Going ==
    ASSUME mcp \in BridgeStates, NEW pc \in BridgePcs, To(pc)
    PROVE  /\ mcp' \in BridgeStates /\ mcp'.pc = pc
           /\ mcp'.msg = mcp.msg /\ mcp'.id = mcp.id /\ mcp'.replies = mcp.replies
           /\ mcp'.tool = mcp.tool /\ mcp'.todo = mcp.todo
           /\ mcp'.sess = mcp.sess /\ mcp'.fate = mcp.fate /\ mcp'.wants = mcp.wants
BY DEF To, BridgeStates

\* A turn of the loop ends, and another begins.
LEMMA Turning ==
    ASSUME mcp \in BridgeStates, NEW n \in 0 .. 1, mcp.replies = 0,
           mcp' = [mcp EXCEPT !.pc = "loop", !.replies = @ + n, !.tool = NoTool,
                              !.todo = <<>>, !.retried = FALSE]
    PROVE  /\ mcp' \in BridgeStates /\ mcp'.pc = "loop"
           /\ mcp'.msg = mcp.msg /\ mcp'.id = mcp.id /\ mcp'.replies = n
           /\ ~mcp'.tool.guarded
           /\ \A g, w : mcp'.tool.calls \in ToolCalls(g, w) /\ mcp'.todo \in ToolCalls(g, w)
           /\ mcp'.sess = mcp.sess /\ mcp'.fate = mcp.fate /\ mcp'.wants = mcp.wants
<1> DEFINE r == mcp.replies + n
           todo == <<>>
           tool == NoTool
           pc == "loop"
           retried == FALSE
<1>1. /\ r = n /\ r \in 0 .. 1 /\ todo \in Seq(Rpcs) /\ pc \in BridgePcs /\ retried \in BOOLEAN
      /\ tool \in [guarded : BOOLEAN, calls : Seq(Rpcs)]
      /\ ~tool.guarded
      /\ \A g, w : tool.calls \in ToolCalls(g, w) /\ todo \in ToolCalls(g, w)
  BY DEF NoTool, BridgePcs, ToolCalls
<1>2. mcp' = [mcp EXCEPT !.pc = pc, !.replies = r, !.tool = tool, !.todo = todo, !.retried = retried]
  OBVIOUS
<1> HIDE DEF r, todo, tool, pc, retried
<1>3. /\ mcp' \in BridgeStates /\ mcp'.pc = pc /\ mcp'.replies = r
      /\ mcp'.msg = mcp.msg /\ mcp'.id = mcp.id
      /\ mcp'.tool = tool /\ mcp'.todo = todo
      /\ mcp'.sess = mcp.sess /\ mcp'.fate = mcp.fate /\ mcp'.wants = mcp.wants
  BY <1>1, <1>2 DEF BridgeStates
<1> QED
  BY <1>1, <1>3 DEF pc

\* Serve writes its replies and comes back to its loop, or is killed as it does.
LEMMA TurnIInv ==
    ASSUME IInv, UNCHANGED <<daemon, holder, watch, cmd>>, daemon.pc # "starting",
           mcp.pc \in {"handle", "acquiring", "tool"}, rpc' = NoRpc,
           NEW n \in 0 .. 1, Turn(n),
           mcp.id /\ mcp.msg # "initialized" => n = 1,
           holder = "me" => mcp.sess \/ mcp.fate = "lost"
    PROVE  IInv'
<1>1. mcp \in BridgeStates /\ mcp.replies = 0
  BY DEF IInv, FrontTyped, Replied
<1>2. rpc'.name = "none"
  BY DEF NoRpc
<1>3. holder = "me" => mcp.wants
  BY DEF IInv, BridgeSound
<1>4. CASE mcp' = [mcp EXCEPT !.pc = "loop", !.replies = @ + n, !.tool = NoTool,
                              !.todo = <<>>, !.retried = FALSE]
  <2>1. /\ mcp' \in BridgeStates /\ mcp'.pc = "loop"
        /\ mcp'.msg = mcp.msg /\ mcp'.id = mcp.id /\ mcp'.replies = n
        /\ ~mcp'.tool.guarded
        /\ \A g, w : mcp'.tool.calls \in ToolCalls(g, w) /\ mcp'.todo \in ToolCalls(g, w)
        /\ mcp'.sess = mcp.sess /\ mcp'.fate = mcp.fate /\ mcp'.wants = mcp.wants
    BY <1>1, <1>4, Turning
  <2>2. BridgeSound'
    BY <1>2, <1>3, <2>1 DEF BridgeSound
  <2>3. Replied'
    BY <2>1 DEF IInv, Replied
  <2> QED
    BY <2>1, <2>2, <2>3, BridgeCalls
<1>5. CASE To("killed")
  <2>1. /\ mcp' \in BridgeStates /\ mcp'.pc = "killed"
        /\ mcp'.msg = mcp.msg /\ mcp'.id = mcp.id /\ mcp'.replies = mcp.replies
        /\ mcp'.tool = mcp.tool /\ mcp'.todo = mcp.todo
        /\ mcp'.sess = mcp.sess /\ mcp'.fate = mcp.fate /\ mcp'.wants = mcp.wants
    BY <1>1, <1>5, Going DEF BridgePcs
  <2>2. BridgeSound'
    BY <1>2, <1>3, <2>1 DEF IInv, BridgeSound
  <2>3. Replied'
    BY <2>1 DEF IInv, Replied
  <2> QED
    BY <2>1, <2>2, <2>3, BridgeCalls
<1> QED
  BY <1>4, <1>5 DEF Turn

\* The loop comes to a message, or stops.
LEMMA ReadingIInv ==
    ASSUME IInv, UNCHANGED <<daemon, holder, watch, rpc, cmd>>, daemon.pc # "starting",
           mcp \in BridgeStates, mcp.pc \in {"loop", "read"}, rpc = NoRpc,
           NEW pc \in {"stop", "read", "handle"}, NEW msg \in Methods \cup {"blank", "garbage"},
           NEW id \in BOOLEAN,
           mcp' = [mcp EXCEPT !.pc = pc, !.msg = msg, !.id = id, !.replies = 0],
           pc = "read" => ~id, id => msg \in Methods
    PROVE  IInv'
<1>1. /\ mcp' \in BridgeStates /\ mcp'.pc = pc
      /\ mcp'.msg = msg /\ mcp'.id = id /\ mcp'.replies = 0
      /\ mcp'.tool = mcp.tool /\ mcp'.todo = mcp.todo
      /\ mcp'.sess = mcp.sess /\ mcp'.fate = mcp.fate /\ mcp'.wants = mcp.wants
  <2> DEFINE n == 0
  <2>1. pc \in BridgePcs /\ n \in 0 .. 1 /\ mcp' = [mcp EXCEPT !.pc = pc, !.msg = msg, !.id = id, !.replies = n]
    BY DEF BridgePcs
  <2> HIDE DEF n
  <2>2. /\ mcp' \in BridgeStates /\ mcp'.pc = pc
        /\ mcp'.msg = msg /\ mcp'.id = id /\ mcp'.replies = n
        /\ mcp'.tool = mcp.tool /\ mcp'.todo = mcp.todo
        /\ mcp'.sess = mcp.sess /\ mcp'.fate = mcp.fate /\ mcp'.wants = mcp.wants
    BY <2>1 DEF BridgeStates
  <2> QED
    BY <2>2 DEF n
<1>2. BridgeSound'
  BY <1>1 DEF IInv, BridgeSound, NoRpc
<1>3. Replied'
  BY <1>1 DEF IInv, Replied
<1> QED
  BY <1>1, <1>2, <1>3, BridgeCalls

\* The loop reads a line, or does not.
LEMMA LoopIInv ==
    ASSUME IInv, Connect \/ LookAtContext \/ ReadLine \/ ReadEof,
           UNCHANGED cmd, daemon.pc # "starting"
    PROVE  IInv'
<1>1. mcp \in BridgeStates /\ UNCHANGED <<daemon, holder, watch, rpc>> /\ mcp.pc \in {"start", "loop", "read"}
  BY DEF Connect, LookAtContext, ReadLine, ReadEof, daemonVars, IInv, FrontTyped
<1>2. rpc = NoRpc /\ rpc' = NoRpc
  BY <1>1 DEF IInv, BridgeSound
<1>3. CASE Connect \/ ReadEof
  <2>1. PICK pc \in {"loop", "gone", "stop"} : To(pc) /\ (mcp.pc = "start" \/ pc = "stop")
    BY <1>3 DEF Connect, ReadEof
  <2>2. /\ mcp' \in BridgeStates /\ mcp'.pc = pc
        /\ mcp'.msg = mcp.msg /\ mcp'.id = mcp.id /\ mcp'.replies = mcp.replies
        /\ mcp'.tool = mcp.tool /\ mcp'.todo = mcp.todo
        /\ mcp'.sess = mcp.sess /\ mcp'.fate = mcp.fate /\ mcp'.wants = mcp.wants
    BY <1>1, <2>1, Going DEF BridgePcs
  <2>3. BridgeSound'
    BY <1>1, <1>2, <2>1, <2>2 DEF IInv, BridgeSound, NoRpc
  <2>4. Replied'
    BY <1>1, <2>1, <2>2 DEF IInv, Replied
  <2> QED
    BY <1>1, <2>2, <2>3, <2>4, BridgeCalls
<1>4. CASE LookAtContext
  <2> DEFINE pc == IF mcp.sig THEN "stop" ELSE "read"
  <2>1. /\ mcp' = [mcp EXCEPT !.pc = pc, !.msg = "blank", !.id = FALSE, !.replies = 0]
        /\ pc \in {"stop", "read", "handle"} /\ mcp.pc = "loop"
    BY <1>4 DEF LookAtContext
  <2> HIDE DEF pc
  <2> QED
    BY <1>1, <1>2, <2>1, ReadingIInv
<1>5. CASE ReadLine
  <2>1. PICK m \in Messages : mcp' = [mcp EXCEPT !.pc = "handle", !.msg = m[1], !.id = m[2]]
    BY <1>5 DEF ReadLine
  <2>2. mcp.replies = 0 /\ mcp.pc = "read"
    BY <1>5 DEF ReadLine, IInv, Replied
  <2>3. /\ m[1] \in Methods \cup {"blank", "garbage"} /\ m[2] \in BOOLEAN
        /\ m[2] => m[1] \in Methods
    BY DEF Messages
  <2>4. mcp' = [mcp EXCEPT !.pc = "handle", !.msg = m[1], !.id = m[2], !.replies = 0]
    BY <1>1, <2>1, <2>2
  <2> QED
    BY <1>1, <1>2, <2>2, <2>3, <2>4, ReadingIInv
<1> QED
  BY <1>3, <1>4, <1>5

\* A line that is answered at once, and a tool that has its result.
LEMMA AnswerLineIInv ==
    ASSUME IInv, HandleLine \/ RejectTool \/ ToolDone,
           UNCHANGED cmd, daemon.pc # "starting"
    PROVE  IInv'
<1>1. UNCHANGED <<daemon, holder, watch, rpc>> /\ mcp.pc \in {"handle", "tool"}
  BY DEF HandleLine, RejectTool, ToolDone, daemonVars
<1>2. rpc' = NoRpc /\ (holder = "me" => mcp.sess \/ mcp.fate = "lost")
  BY <1>1 DEF IInv, BridgeSound, NoRpc
<1>3. CASE RejectTool \/ ToolDone
  BY <1>1, <1>2, <1>3, TurnIInv DEF RejectTool, ToolDone
<1>4. CASE HandleLine
  <2> DEFINE n == IF \/ mcp.msg \in {"initialize", "ping", "tools/list", "garbage"}
                     \/ mcp.msg = "other" /\ mcp.id
                    THEN 1 ELSE 0
  <2>1. Turn(n) /\ n \in 0 .. 1
    BY <1>4 DEF HandleLine
  <2>2. mcp.id /\ mcp.msg # "initialized" => n = 1
    BY <1>4 DEF HandleLine, IInv, Replied, Methods
  <2> HIDE DEF n
  <2> QED
    BY <1>1, <1>2, <2>1, <2>2, TurnIInv
<1> QED
  BY <1>3, <1>4

\* A tool is called.
LEMMA CallToolIInv ==
    ASSUME IInv, CallTool, UNCHANGED cmd, daemon.pc # "starting"
    PROVE  IInv'
<1>1. mcp \in BridgeStates /\ UNCHANGED <<daemon, holder, watch, rpc>> /\ mcp.pc = "handle"
      /\ mcp.replies = 0 /\ rpc = NoRpc
  BY DEF CallTool, daemonVars, IInv, FrontTyped, Replied, BridgeSound
<1>2. PICK t \in Tools :
        LET calls == IF t[1] = (IF mcp.sess THEN "acquire_lock" ELSE "release_lock")
                       THEN <<>> ELSE t[2]
        IN  mcp' = [mcp EXCEPT !.todo = calls,
              !.tool = [guarded |-> t[1] \notin LockExempt, calls |-> calls],
              !.pc = IF t[1] \in LockExempt THEN "tool" ELSE "ensure",
              !.wants = @ \/ Operational(t[2]) \/ t[2] = <<>> \/ t[1] = "acquire_lock"]
  BY DEF CallTool
<1> DEFINE calls == IF t[1] = (IF mcp.sess THEN "acquire_lock" ELSE "release_lock")
                      THEN <<>> ELSE t[2]
           guarded == t[1] \notin LockExempt
           tool == [guarded |-> guarded, calls |-> calls]
           pc == IF t[1] \in LockExempt THEN "tool" ELSE "ensure"
           wants == mcp.wants \/ Operational(t[2]) \/ t[2] = <<>> \/ t[1] = "acquire_lock"
<1>3. mcp' = [mcp EXCEPT !.todo = calls, !.tool = tool, !.pc = pc, !.wants = wants]
  BY <1>2
<1>4. guarded \in BOOLEAN /\ wants \in BOOLEAN /\ pc \in {"tool", "ensure"}
      /\ (pc = "ensure" <=> guarded)
  BY <1>1 DEF Operational
<1>5. guarded => wants /\ calls \in Seq(Rpcs \ Exempt)
  <2>1. guarded => t[1] \notin LockExempt
    OBVIOUS
  <2>2. t[1] \notin LockExempt => t[2] \in Seq(Rpcs \ Exempt) /\ (Operational(t[2]) \/ t[2] = <<>>)
    BY ToolsSound
  <2>3. t[2] \in Seq(Rpcs \ Exempt) => calls \in Seq(Rpcs \ Exempt)
    OBVIOUS
  <2> QED
    BY <2>1, <2>2, <2>3
<1>6. ~guarded => calls \in Seq(Exempt)
  <2>1. ~guarded => t[2] \in Seq(Exempt)
    BY ToolsSound
  <2>2. t[2] \in Seq(Exempt) => calls \in Seq(Exempt)
    OBVIOUS
  <2> QED
    BY <2>1, <2>2
<1>7. ~guarded /\ ~wants => calls \in Seq(Exempt \ {"StartSession"})
  <2>1. ~guarded /\ ~wants => t[1] \in LockExempt \ {"acquire_lock"}
    OBVIOUS
  <2>2. ~guarded /\ ~wants => t[2] \in Seq(Exempt \ {"StartSession"})
    BY <2>1, ToolsSound
  <2>3. t[2] \in Seq(Exempt \ {"StartSession"}) => calls \in Seq(Exempt \ {"StartSession"})
    OBVIOUS
  <2> QED
    BY <2>2, <2>3
<1>8. calls \in ToolCalls(guarded, wants) /\ calls \in Seq(Rpcs)
  <2> HIDE DEF calls, guarded, wants
  <2>1. Exempt \subseteq Rpcs
    BY DEF Exempt, Rpcs, Unary, Streams
  <2>2. calls \in Seq(Rpcs)
    BY <1>5, <1>6, <2>1
  <2> QED
    BY <1>4, <1>5, <1>6, <1>7, <2>2 DEF ToolCalls
<1>9. /\ mcp' \in BridgeStates /\ mcp'.pc = pc
      /\ mcp'.msg = mcp.msg /\ mcp'.id = mcp.id /\ mcp'.replies = 0
      /\ mcp'.tool.guarded = guarded /\ mcp'.tool.calls = calls /\ mcp'.todo = calls
      /\ mcp'.sess = mcp.sess /\ mcp'.fate = mcp.fate /\ mcp'.wants = wants
  <2>1. tool \in [guarded : BOOLEAN, calls : Seq(Rpcs)] /\ tool.guarded = guarded /\ tool.calls = calls
    <3> HIDE DEF calls, guarded
    <3> QED
      BY <1>4, <1>8
  <2>2. pc \in BridgePcs
    BY DEF BridgePcs
  <2> HIDE DEF calls, guarded, tool, pc, wants
  <2> QED
    BY <1>1, <1>3, <1>4, <1>8, <2>1, <2>2 DEF BridgeStates
<1>10. mcp.wants => wants
  OBVIOUS
<1>11. Attempt(calls, calls)
  BY ToolsSound DEF Attempt
<1> HIDE DEF calls, guarded, tool, pc, wants
<1>12. BridgeSound'
  BY <1>1, <1>4, <1>5, <1>8, <1>9, <1>10, <1>11 DEF IInv, BridgeSound, NoRpc
<1>13. Replied'
  BY <1>1, <1>4, <1>9 DEF IInv, Replied
<1> QED
  BY <1>1, <1>4, <1>9, <1>12, <1>13, BridgeCalls

\* The middleware takes the lock, or has it.
LEMMA EnsureIInv ==
    ASSUME IInv, Ensure, UNCHANGED cmd, daemon.pc # "starting"
    PROVE  IInv'
<1>1. mcp \in BridgeStates /\ UNCHANGED <<daemon, holder, watch>> /\ mcp.pc = "ensure" /\ rpc = NoRpc
  BY DEF Ensure, IInv, FrontTyped
<1>2. CASE To("tool") /\ UNCHANGED rpc
  <2>1. /\ mcp' \in BridgeStates /\ mcp'.pc = "tool"
        /\ mcp'.msg = mcp.msg /\ mcp'.id = mcp.id /\ mcp'.replies = mcp.replies
        /\ mcp'.tool = mcp.tool /\ mcp'.todo = mcp.todo
        /\ mcp'.sess = mcp.sess /\ mcp'.fate = mcp.fate /\ mcp'.wants = mcp.wants
    BY <1>1, <1>2, Going DEF BridgePcs
  <2>2. BridgeSound'
    BY <1>1, <1>2, <2>1 DEF IInv, BridgeSound, NoRpc
  <2>3. Replied'
    BY <1>1, <2>1 DEF IInv, Replied
  <2> QED
    BY <1>1, <1>2, <2>1, <2>2, <2>3, BridgeCalls
<1>3. CASE To("acquiring") /\ \E w \in {"bounded", "forever"} : Send("StartSession", w)
  <2>1. PICK w \in Waits : Send("StartSession", w)
    BY <1>3 DEF Waits
  <2>2. "StartSession" \in Rpcs
    BY DEF Rpcs, Unary
  <2>3. rpc'.name = "StartSession" /\ rpc'.st = "sent"
    BY <2>1, <2>2, Sending
  <2>4. /\ mcp' \in BridgeStates /\ mcp'.pc = "acquiring"
        /\ mcp'.msg = mcp.msg /\ mcp'.id = mcp.id /\ mcp'.replies = mcp.replies
        /\ mcp'.tool = mcp.tool /\ mcp'.todo = mcp.todo
        /\ mcp'.sess = mcp.sess /\ mcp'.fate = mcp.fate /\ mcp'.wants = mcp.wants
    BY <1>1, <1>3, Going DEF BridgePcs
  <2>5. BridgeSound'
    BY <1>1, <2>3, <2>4 DEF IInv, BridgeSound, NoRpc
  <2>6. Replied'
    BY <1>1, <2>4 DEF IInv, Replied
  <2> QED
    BY <1>1, <2>1, <2>2, <2>4, <2>5, <2>6, BridgeCalls
<1> QED
  BY <1>2, <1>3 DEF Ensure

\* ensureSession has its answer: a session, no need of one, or an error reply.
LEMMA EnsuredIInv ==
    ASSUME IInv, Ensured, UNCHANGED cmd, daemon.pc # "starting"
    PROVE  IInv'
<1>1. /\ mcp \in BridgeStates /\ UNCHANGED <<daemon, holder, watch>> /\ mcp.pc = "acquiring"
      /\ rpc.name = "StartSession" /\ rpc' = NoRpc
  BY DEF Ensured, IInv, FrontTyped, BridgeSound
<1>2. CASE rpc.st \in {"ok", "unimplemented"}
  <2> DEFINE sess == rpc.st = "ok"
             pc == "tool"
  <2>1. mcp' = [mcp EXCEPT !.pc = pc, !.sess = sess] /\ sess \in BOOLEAN /\ pc \in BridgePcs
    BY <1>2 DEF Ensured, BridgePcs
  <2>2. holder = "me" => sess
    BY <1>2 DEF IInv, Told
  <2> HIDE DEF sess, pc
  <2>3. /\ mcp' \in BridgeStates /\ mcp'.pc = pc
        /\ mcp'.msg = mcp.msg /\ mcp'.id = mcp.id /\ mcp'.replies = mcp.replies
        /\ mcp'.tool = mcp.tool /\ mcp'.todo = mcp.todo
        /\ mcp'.sess = sess /\ mcp'.fate = mcp.fate /\ mcp'.wants = mcp.wants
    BY <1>1, <2>1 DEF BridgeStates
  <2>4. BridgeSound'
    BY <1>1, <2>2, <2>3 DEF IInv, BridgeSound, NoRpc, pc
  <2>5. Replied'
    BY <1>1, <2>3 DEF IInv, Replied, pc
  <2>6. mcp'.pc # "absent"
    BY <2>3 DEF pc
  <2> QED
    BY <1>1, <2>3, <2>4, <2>5, <2>6, BridgeCalls
<1>3. CASE rpc.st \notin {"ok", "unimplemented"}
  <2>1. Turn(1)
    BY <1>3 DEF Ensured
  <2>2. holder = "me" => mcp.sess \/ mcp.fate = "lost"
    BY <1>1, <1>3 DEF IInv, BridgeSound
  <2> QED
    BY <1>1, <2>1, <2>2, TurnIInv
<1> QED
  BY <1>2, <1>3

\* The first of a tool's calls, and the rest.
LEMMA Calling ==
    ASSUME NEW g \in BOOLEAN, NEW w \in BOOLEAN, NEW s \in ToolCalls(g, w), s # <<>>
    PROVE  /\ Head(s) \in Rpcs /\ Tail(s) \in Seq(Rpcs) /\ Tail(s) \in ToolCalls(g, w)
           /\ g <=> Head(s) \notin Exempt
           /\ Head(s) = "StartSession" => w \/ g
<1>1. Exempt \subseteq Rpcs
  BY DEF Exempt, Rpcs, Unary, Streams
<1>2. CASE g
  BY <1>1, <1>2 DEF ToolCalls
<1>3. CASE ~g /\ w
  BY <1>1, <1>3 DEF ToolCalls
<1>4. CASE ~g /\ ~w
  <2>1. s \in Seq(Exempt \ {"StartSession"})
    BY <1>4 DEF ToolCalls
  <2>2. Head(s) \in Exempt \ {"StartSession"} /\ Tail(s) \in Seq(Exempt \ {"StartSession"})
    BY <2>1
  <2>3. Tail(s) \in Seq(Rpcs)
    BY <1>1, <2>2
  <2> QED
    BY <1>1, <1>4, <2>2, <2>3 DEF ToolCalls
<1> QED
  BY <1>2, <1>3, <1>4

\* The next call of a tool; release_lock forgets the session before it asks.
LEMMA ToolCallIInv ==
    ASSUME IInv, ToolCall, UNCHANGED cmd, daemon.pc # "starting"
    PROVE  IInv'
<1>1. /\ mcp \in BridgeStates /\ UNCHANGED <<daemon, holder, watch>> /\ mcp.pc = "tool" /\ rpc = NoRpc
      /\ mcp.todo \in ToolCalls(mcp.tool.guarded, mcp.wants) /\ mcp.todo # <<>>
  BY DEF ToolCall, IInv, FrontTyped, BridgeSound
<1> DEFINE r == Head(mcp.todo)
           sess == mcp.sess /\ r # "FinishSession"
           pc == "calling"
<1>2. /\ r \in Rpcs
      /\ r = "StartSession" => mcp.wants
  <2>1. mcp.tool.guarded \in BOOLEAN /\ mcp.wants \in BOOLEAN
    BY <1>1 DEF BridgeStates
  <2>2. r \in Rpcs /\ (r = "StartSession" => mcp.wants \/ mcp.tool.guarded)
    BY <1>1, <2>1, Calling
  <2> QED
    BY <1>1, <2>2 DEF IInv, BridgeSound
<1>3. PICK w \in Waits : Send(r, w)
  BY DEF ToolCall, Waits
<1>4. rpc'.name = r /\ rpc'.st = "sent"
  BY <1>2, <1>3, Sending
<1>5. mcp' = [mcp EXCEPT !.pc = pc, !.sess = sess] /\ sess \in BOOLEAN /\ pc \in BridgePcs
  BY <1>1 DEF ToolCall, BridgePcs
<1>6. sess <=> mcp.sess /\ r # "FinishSession"
  OBVIOUS
<1> HIDE DEF sess, pc, r
<1>7. /\ mcp' \in BridgeStates /\ mcp'.pc = pc
      /\ mcp'.msg = mcp.msg /\ mcp'.id = mcp.id /\ mcp'.replies = mcp.replies
      /\ mcp'.tool = mcp.tool /\ mcp'.todo = mcp.todo
      /\ mcp'.sess = sess /\ mcp'.fate = mcp.fate /\ mcp'.wants = mcp.wants
  BY <1>1, <1>5 DEF BridgeStates
<1>8. BridgeSound'
  <2>1. holder = "me" => mcp.sess \/ mcp.fate = "lost"
    BY <1>1 DEF IInv, BridgeSound, NoRpc
  <2> QED
    BY <1>1, <1>2, <1>4, <1>6, <1>7, <2>1 DEF IInv, BridgeSound, pc, r
<1>9. Replied'
  BY <1>1, <1>7 DEF IInv, Replied, pc
<1>10. mcp'.pc # "absent"
  BY <1>7 DEF pc
<1> QED
  BY <1>1, <1>2, <1>3, <1>7, <1>8, <1>9, <1>10, BridgeCalls

\* A call of a guarded tool is done.
LEMMA Attempted ==
    ASSUME NEW calls \in Seq(Rpcs), NEW todo, todo # <<>>, Attempt(calls, todo)
    PROVE  Attempt(calls, Tail(todo))
<1>1. Len(SmokeCalls) = 2 /\ Tail(SmokeCalls) = <<"Netboot">> /\ Tail(<<"Netboot">>) = <<>>
  BY DEF SmokeCalls
<1>2. CASE todo = calls /\ Len(calls) <= 1
  <2>1. Tail(todo) = <<>>
    BY <1>2
  <2> QED
    BY <2>1 DEF Attempt
<1>3. CASE todo = calls /\ calls = SmokeCalls
  BY <1>3 DEF Attempt
<1>4. CASE calls = SmokeCalls /\ todo = Tail(SmokeCalls)
  BY <1>1, <1>4 DEF Attempt
<1> QED
  BY <1>2, <1>3, <1>4 DEF Attempt

\* The answer to it: on to the next, once more from the start, or the tool fails.
LEMMA ToolAnsweredIInv ==
    ASSUME IInv, ToolAnswered, UNCHANGED cmd, daemon.pc # "starting"
    PROVE  IInv'
<1>1. /\ mcp \in BridgeStates /\ UNCHANGED <<daemon, holder, watch>> /\ mcp.pc = "calling" /\ rpc' = NoRpc
      /\ mcp.todo \in ToolCalls(mcp.tool.guarded, mcp.wants) /\ mcp.todo # <<>>
      /\ mcp.tool.calls \in ToolCalls(mcp.tool.guarded, mcp.wants)
      /\ mcp.tool.guarded \in BOOLEAN /\ mcp.wants \in BOOLEAN
      /\ rpc.name = Head(mcp.todo) /\ mcp.replies = 0
      /\ mcp.tool.guarded \/ rpc.name = "StartSession" \/ holder = "me" => mcp.wants
      /\ mcp.tool.guarded => Attempt(mcp.tool.calls, mcp.todo)
  BY DEF ToolAnswered, IInv, FrontTyped, BridgeStates, BridgeSound, Replied
<1>2. /\ Tail(mcp.todo) \in Seq(Rpcs) /\ Tail(mcp.todo) \in ToolCalls(mcp.tool.guarded, mcp.wants)
      /\ mcp.tool.guarded <=> rpc.name \notin Exempt
  BY <1>1, Calling
<1>3. ASSUME NEW pc \in {"tool", "ensure"}, NEW todo \in Seq(Rpcs), NEW retried \in BOOLEAN,
             NEW sess \in BOOLEAN, NEW fate \in {"none", "lost"},
             mcp' = [mcp EXCEPT !.pc = pc, !.todo = todo, !.retried = retried,
                                !.sess = sess, !.fate = fate],
             todo \in ToolCalls(mcp.tool.guarded, mcp.wants),
             mcp.tool.guarded => Attempt(mcp.tool.calls, todo),
             pc = "ensure" => mcp.wants,
             holder = "me" => sess \/ fate = "lost"
      PROVE  IInv'
  <2>1. pc \in BridgePcs
    BY DEF BridgePcs
  <2>2. /\ mcp' \in BridgeStates /\ mcp'.pc = pc
        /\ mcp'.msg = mcp.msg /\ mcp'.id = mcp.id /\ mcp'.replies = 0
        /\ mcp'.tool = mcp.tool /\ mcp'.todo = todo
        /\ mcp'.sess = sess /\ mcp'.fate = fate /\ mcp'.wants = mcp.wants
    BY <1>1, <1>3, <2>1 DEF BridgeStates
  <2>3. BridgeSound'
    BY <1>1, <1>3, <2>2 DEF BridgeSound, NoRpc
  <2>4. Replied'
    BY <1>1, <2>2 DEF IInv, Replied
  <2> QED
    BY <1>1, <2>2, <2>3, <2>4, BridgeCalls
<1>4. CASE rpc.st = "ok" /\ mcp' = [mcp EXCEPT !.pc = "tool", !.todo = Tail(@),
                                               !.sess = @ \/ rpc.name = "StartSession"]
  <2> DEFINE sess == mcp.sess \/ rpc.name = "StartSession"
             todo == Tail(mcp.todo)
             pc == "tool"
  <2>1. mcp' = [mcp EXCEPT !.pc = pc, !.todo = todo, !.sess = sess]
    BY <1>4
  <2>2. sess \in BOOLEAN /\ pc \in {"tool", "ensure"}
    BY <1>1
  <2>3. holder = "me" => sess \/ mcp.fate = "lost"
    BY <1>1, <1>4 DEF IInv, BridgeSound, Told
  <2>4. mcp' = [mcp EXCEPT !.pc = pc, !.todo = todo, !.retried = mcp.retried,
                           !.sess = sess, !.fate = mcp.fate]
    <3> HIDE DEF sess, todo, pc
    <3> QED
      BY <1>1, <2>1
  <2>5. mcp.retried \in BOOLEAN /\ mcp.fate \in {"none", "lost"}
    BY <1>1 DEF BridgeStates
  <2>6. pc # "ensure"
    OBVIOUS
  <2> HIDE DEF sess, todo, pc
  <2>7. /\ todo \in Seq(Rpcs) /\ todo \in ToolCalls(mcp.tool.guarded, mcp.wants)
        /\ mcp.tool.guarded => Attempt(mcp.tool.calls, todo)
    <3>1. mcp.tool.calls \in Seq(Rpcs)
      BY <1>1 DEF BridgeStates
    <3>2. mcp.tool.guarded => Attempt(mcp.tool.calls, Tail(mcp.todo))
      BY <1>1, <3>1, Attempted
    <3> QED
      BY <1>2, <3>2 DEF todo
  <2> QED
    BY <1>3, <2>2, <2>3, <2>4, <2>5, <2>6, <2>7
<1>5. CASE SessionLost /\ mcp' = [mcp EXCEPT !.pc = "ensure", !.todo = mcp.tool.calls,
                                             !.retried = TRUE, !.sess = FALSE]
  <2> DEFINE sess == FALSE
             retried == TRUE
             pc == "ensure"
             todo == mcp.tool.calls
  <2>1. mcp' = [mcp EXCEPT !.pc = pc, !.todo = todo, !.retried = retried, !.sess = sess]
    BY <1>5
  <2>2. sess \in BOOLEAN /\ pc \in {"tool", "ensure"} /\ retried \in BOOLEAN
    OBVIOUS
  <2>3. holder # "me" /\ mcp.wants
    <3>1. rpc.name # "StartSession"
      BY <1>2, <1>5 DEF SessionLost, Exempt
    <3> QED
      BY <1>1, <1>5, <3>1 DEF SessionLost, IInv, Told
  <2>4. mcp' = [mcp EXCEPT !.pc = pc, !.todo = todo, !.retried = retried,
                           !.sess = sess, !.fate = mcp.fate]
    <3> HIDE DEF sess, todo, pc, retried
    <3> QED
      BY <1>1, <2>1
  <2>5. mcp.fate \in {"none", "lost"}
    BY <1>1 DEF BridgeStates
  <2> HIDE DEF sess, todo, pc, retried
  <2>6. /\ todo \in Seq(Rpcs) /\ todo \in ToolCalls(mcp.tool.guarded, mcp.wants)
        /\ mcp.tool.guarded => Attempt(mcp.tool.calls, todo)
    BY <1>1 DEF todo, BridgeStates, Attempt
  <2> QED
    BY <1>3, <2>2, <2>3, <2>4, <2>5, <2>6
<1>6. CASE /\ rpc.st # "ok"
           /\ mcp' = [mcp EXCEPT !.todo = <<>>, !.pc = "tool",
                !.fate = CASE rpc.name = "FinishSession" -> "lost"
                           [] rpc.st = "refused" /\ rpc.name # "StartSession"
                                /\ ~mcp.tool.guarded -> "refused"
                           [] OTHER -> @]
  <2> DEFINE fate == CASE rpc.name = "FinishSession" -> "lost"
                       [] rpc.st = "refused" /\ rpc.name # "StartSession"
                            /\ ~mcp.tool.guarded -> "refused"
                       [] OTHER -> mcp.fate
             todo == <<>>
             pc == "tool"
  <2>1. mcp' = [mcp EXCEPT !.todo = todo, !.pc = pc, !.fate = fate]
    BY <1>6
  <2>2. fate = IF rpc.name = "FinishSession" THEN "lost" ELSE mcp.fate
    <3>1. rpc.st = "refused" /\ rpc.name # "StartSession" => rpc.name \notin Exempt
      BY DEF IInv, Told
    <3>2. ~(rpc.st = "refused" /\ rpc.name # "StartSession" /\ ~mcp.tool.guarded)
      BY <1>2, <3>1
    <3>3. CASE rpc.name = "FinishSession"
      BY <3>2, <3>3
    <3>4. CASE rpc.name # "FinishSession"
      BY <3>2, <3>4
    <3> QED
      BY <3>3, <3>4
  <2>3. pc \in {"tool", "ensure"} /\ pc # "ensure"
    OBVIOUS
  <2>4. /\ todo \in Seq(Rpcs) /\ todo \in ToolCalls(mcp.tool.guarded, mcp.wants)
        /\ mcp.tool.guarded => Attempt(mcp.tool.calls, todo)
    BY <1>1 DEF ToolCalls, Attempt
  <2> HIDE DEF todo, pc, fate
  <2>5. mcp' = [mcp EXCEPT !.pc = pc, !.todo = todo, !.retried = mcp.retried,
                           !.sess = mcp.sess, !.fate = fate]
    BY <1>1, <2>1
  <2>6. mcp.retried \in BOOLEAN /\ mcp.sess \in BOOLEAN /\ fate \in {"none", "lost"}
    BY <1>1, <2>2 DEF BridgeStates
  <2>7. holder = "me" => mcp.sess \/ fate = "lost"
    BY <1>1, <1>6, <2>2 DEF IInv, BridgeSound
  <2> QED
    BY <1>3, <2>3, <2>4, <2>5, <2>6, <2>7
<1> QED
  BY <1>4, <1>5, <1>6 DEF ToolAnswered

\* It is told to end.
LEMMA NotifyIInv ==
    ASSUME IInv, Notify, UNCHANGED cmd, daemon.pc # "starting"
    PROVE  IInv'
<1>1. /\ mcp \in BridgeStates /\ UNCHANGED <<daemon, holder, watch, rpc>> /\ mcp.pc # "absent"
      /\ mcp' = [mcp EXCEPT !.sig = TRUE] \/ mcp' = [mcp EXCEPT !.eof = TRUE]
  BY DEF Notify, daemonVars, IInv, FrontTyped
<1>2. /\ mcp' \in BridgeStates /\ mcp'.pc = mcp.pc
      /\ mcp'.msg = mcp.msg /\ mcp'.id = mcp.id /\ mcp'.replies = mcp.replies
      /\ mcp'.tool = mcp.tool /\ mcp'.todo = mcp.todo
      /\ mcp'.sess = mcp.sess /\ mcp'.fate = mcp.fate /\ mcp'.wants = mcp.wants
  BY <1>1 DEF BridgeStates
<1>3. BridgeSound'
  BY <1>1, <1>2 DEF IInv, BridgeSound
<1>4. Replied'
  BY <1>2 DEF IInv, Replied
<1> QED
  BY <1>1, <1>2, <1>3, <1>4, BridgeCalls

\* It gives up a call.
LEMMA AbandonIInv ==
    ASSUME IInv, Abandon, UNCHANGED cmd, daemon.pc # "starting"
    PROVE  IInv'
<1> DEFINE todo == <<>>
           pc == "tool"
           fate == IF rpc.name \in {"StartSession", "FinishSession"} THEN "lost" ELSE mcp.fate
<1>1. /\ mcp \in BridgeStates /\ UNCHANGED <<daemon, watch>> /\ mcp.pc \in {"acquiring", "calling"}
      /\ mcp.replies = 0
      /\ mcp' = [mcp EXCEPT !.pc = pc, !.todo = todo, !.fate = fate]
  BY DEF Abandon, IInv, FrontTyped, Replied
<1>2. /\ rpc' = NoRpc
      /\ \/ UNCHANGED holder
         \/ rpc.name = "StartSession" /\ holder' = "me" /\ Handling /\ daemon.locking
  BY DEF Abandon, GiveUpStart
<1>3. /\ pc \in BridgePcs /\ fate \in {"none", "lost"}
      /\ todo \in Seq(Rpcs) /\ todo \in ToolCalls(mcp.tool.guarded, mcp.wants)
      /\ mcp.tool.guarded => Attempt(mcp.tool.calls, todo)
  <2>1. mcp.tool.guarded => Attempt(mcp.tool.calls, mcp.todo)
    BY <1>1 DEF IInv, BridgeSound
  <2>2. mcp.tool.guarded => Attempt(mcp.tool.calls, todo)
    BY <2>1 DEF Attempt
  <2> QED
    BY <1>1, <2>2 DEF BridgePcs, ToolCalls, BridgeStates
<1>4. holder' = "me" => mcp.wants /\ (mcp.sess \/ fate = "lost")
  <2>1. holder' = "me" => holder = "me" \/ rpc.name = "StartSession"
    BY <1>2
  <2> QED
    BY <1>1, <2>1 DEF IInv, BridgeSound
<1> HIDE DEF todo, pc, fate
<1>5. /\ mcp' \in BridgeStates /\ mcp'.pc = pc
      /\ mcp'.msg = mcp.msg /\ mcp'.id = mcp.id /\ mcp'.replies = 0
      /\ mcp'.tool = mcp.tool /\ mcp'.todo = todo
      /\ mcp'.sess = mcp.sess /\ mcp'.fate = fate /\ mcp'.wants = mcp.wants
  BY <1>1, <1>3 DEF BridgeStates
<1>6. BridgeSound'
  BY <1>1, <1>2, <1>3, <1>4, <1>5 DEF IInv, BridgeSound, NoRpc, pc
<1>7. Replied'
  BY <1>1, <1>5 DEF IInv, Replied, pc
<1>8. DaemonTyped' /\ Opened' /\ Quiet' /\ Told'
  BY <1>1, <1>2 DEF IInv, DaemonTyped, Opened, Quiet, Told, Handling, NoRpc, Waits, CallStates
<1>9. mcp.pc # "absent" /\ mcp'.pc # "absent"
  BY <1>1, <1>5 DEF pc
<1> QED
  BY <1>1, <1>5, <1>6, <1>7, <1>8, <1>9, BridgeMoves

\* It returns the lock and is gone.
LEMMA StopIInv ==
    ASSUME IInv, Stop \/ Stopped, UNCHANGED cmd, daemon.pc # "starting"
    PROVE  IInv'
<1>1. mcp \in BridgeStates /\ UNCHANGED <<daemon, holder, watch>> /\ mcp.pc \in {"stop", "releasing"}
  BY DEF Stop, Stopped, IInv, FrontTyped
<1>2. ASSUME NEW pc \in {"releasing", "gone"}, To(pc)
      PROVE  /\ mcp' \in BridgeStates /\ mcp'.pc = pc
             /\ mcp'.msg = mcp.msg /\ mcp'.id = mcp.id /\ mcp'.replies = mcp.replies
             /\ mcp'.tool = mcp.tool /\ mcp'.todo = mcp.todo
             /\ mcp'.sess = mcp.sess /\ mcp'.fate = mcp.fate /\ mcp'.wants = mcp.wants
  BY <1>1, <1>2, Going DEF BridgePcs
<1>3. CASE Stop /\ mcp.sess
  <2>1. mcp.pc = "stop" /\ rpc = NoRpc /\ To("releasing") /\ Send("FinishSession", "fast")
    BY <1>3 DEF Stop
  <2>2. "FinishSession" \in Rpcs /\ "fast" \in Waits
    BY DEF Rpcs, Unary, Waits
  <2>3. rpc'.name = "FinishSession" /\ rpc'.st = "sent"
    BY <2>1, <2>2, Sending
  <2>4. BridgeSound'
    BY <1>1, <1>2, <2>1, <2>3 DEF IInv, BridgeSound, NoRpc
  <2>5. Replied'
    BY <1>2, <2>1 DEF IInv, Replied
  <2> QED
    BY <1>1, <1>2, <2>1, <2>2, <2>4, <2>5, BridgeCalls
<1>4. CASE Stop /\ ~mcp.sess
  <2>1. mcp.pc = "stop" /\ rpc = NoRpc /\ To("gone") /\ UNCHANGED rpc
    BY <1>4 DEF Stop
  <2>2. BridgeSound'
    BY <1>1, <1>2, <1>4, <2>1 DEF IInv, BridgeSound, NoRpc
  <2>3. Replied'
    BY <1>2, <2>1 DEF IInv, Replied
  <2> QED
    BY <1>1, <1>2, <2>1, <2>2, <2>3, BridgeCalls
<1>5. CASE Stopped
  <2> DEFINE pc == "gone"
             sess == FALSE
             fate == IF rpc.st = "ok" THEN mcp.fate ELSE "lost"
  <2>1. mcp.pc = "releasing" /\ rpc' = NoRpc /\ mcp' = [mcp EXCEPT !.pc = pc, !.sess = sess, !.fate = fate]
    BY <1>5 DEF Stopped
  <2>2. pc \in BridgePcs /\ sess \in BOOLEAN /\ fate \in {"none", "lost"}
    BY <1>1 DEF BridgePcs, BridgeStates
  <2>3. holder = "me" => fate = "lost"
    BY <2>1 DEF IInv, BridgeSound, Told
  <2>4. ~sess
    OBVIOUS
  <2> HIDE DEF pc, sess, fate
  <2>5. /\ mcp' \in BridgeStates /\ mcp'.pc = pc
        /\ mcp'.msg = mcp.msg /\ mcp'.id = mcp.id /\ mcp'.replies = mcp.replies
        /\ mcp'.tool = mcp.tool /\ mcp'.todo = mcp.todo
        /\ mcp'.sess = sess /\ mcp'.fate = fate /\ mcp'.wants = mcp.wants
    BY <1>1, <2>1, <2>2 DEF BridgeStates
  <2>6. BridgeSound'
    BY <1>1, <2>1, <2>3, <2>4, <2>5 DEF IInv, BridgeSound, NoRpc, pc
  <2>7. Replied'
    BY <1>1, <2>5 DEF IInv, Replied, pc
  <2>8. mcp'.pc # "absent"
    BY <2>5 DEF pc
  <2> QED
    BY <1>1, <2>1, <2>5, <2>6, <2>7, <2>8, BridgeCalls
<1> QED
  BY <1>3, <1>4, <1>5

\* Every step of the bridge keeps the invariant.
LEMMA BridgeIInv == ASSUME IInv, Bridges PROVE IInv'
BY LoopIInv, AnswerLineIInv, CallToolIInv, EnsureIInv, EnsuredIInv, ToolCallIInv,
   ToolAnsweredIInv, NotifyIInv, AbandonIInv, StopIInv
   DEF Bridges, BridgeStep

-----------------------------------------------------------------------------
\* A front end that has not begun.
LEMMA EmptyTyped ==
    ASSUME NEW pc \in {"absent", "start"}
    PROVE  [NoCommand EXCEPT !.pc = pc] \in CommandStates /\ NoCommand \in CommandStates
           /\ [NoBridge EXCEPT !.pc = pc] \in BridgeStates /\ NoBridge \in BridgeStates
<1> DEFINE none == <<>>
           no == [guarded |-> FALSE, calls |-> none]
           zero == 0
<1>1. none \in Seq(CommandCalls) /\ none \in Seq(Rpcs) /\ zero \in 0 .. 1
  OBVIOUS
<1>2. no \in [guarded : BOOLEAN, calls : Seq(Rpcs)]
  <2> HIDE DEF none
  <2> QED
    BY <1>1
<1>3. NoCommand = [pc |-> "absent", script |-> none, todo |-> none,
                   locks |-> FALSE, sig |-> FALSE, fate |-> "none"]
  BY DEF NoCommand
<1>4. NoBridge = [pc |-> "absent", msg |-> "blank", id |-> FALSE, replies |-> zero, tool |-> no,
                  todo |-> none, retried |-> FALSE, sess |-> FALSE, eof |-> FALSE, sig |-> FALSE,
                  fate |-> "none", wants |-> FALSE]
  BY DEF NoBridge, NoTool
<1> HIDE DEF none, no, zero
<1>5. NoCommand \in CommandStates /\ [NoCommand EXCEPT !.pc = pc] \in CommandStates
  BY <1>1, <1>3 DEF CommandStates
<1>6. NoBridge \in BridgeStates
  BY <1>1, <1>2, <1>4 DEF BridgeStates, BridgePcs
<1>7. [NoBridge EXCEPT !.pc = pc] \in BridgeStates
  BY <1>6 DEF BridgeStates, BridgePcs
<1> QED
  BY <1>5, <1>6, <1>7

\* Nothing has begun.
LEMMA InitIInv == Init => IInv
<1> SUFFICES ASSUME Init PROVE IInv
  OBVIOUS
<1> USE DEF Init, DaemonInit, NoRpc
<1>1. DaemonTyped
  <2>1. 1 \in 1 .. Len(Startup) /\ <<>> \in Seq(Closers)
    BY DEF Startup
  <2> QED
    BY <2>1 DEF DaemonTyped, Waits, DaemonStates, CallStates
<1>2. FrontTyped
  BY EmptyTyped DEF FrontTyped
<1>3. Opened
  BY DEF Opened, ToSet
<1>4. Quiet
  BY DEF Quiet, Handling, NoCommand, NoBridge
<1>5. Told
  BY DEF Told
<1>6. OneFront
  BY DEF OneFront, NoCommand, NoBridge
<1>7. CommandSound
  BY DEF CommandSound, NoCommand
<1>8. BridgeSound
  <2>1. /\ mcp.pc \in {"absent", "start"} /\ mcp.todo = <<>> /\ mcp.tool.calls = <<>>
        /\ ~mcp.tool.guarded /\ ~mcp.sess
    BY DEF NoBridge, NoTool
  <2>2. \A g, w : <<>> \in ToolCalls(g, w)
    BY DEF ToolCalls
  <2> QED
    BY <2>1, <2>2 DEF BridgeSound
<1>9. Replied
  BY DEF Replied, NoBridge
<1> QED
  BY <1>1, <1>2, <1>3, <1>4, <1>5, <1>6, <1>7, <1>8, <1>9 DEF IInv

\* Every step keeps the invariant.
LEMMA NextIInv == IInv /\ [Next]_vars => IInv'
<1> SUFFICES ASSUME IInv, [Next]_vars PROVE IInv'
  OBVIOUS
<1>1. CASE UNCHANGED vars
  BY <1>1 DEF vars, daemonVars, IInv, DaemonTyped, FrontTyped, Opened, Quiet, Told, OneFront,
              CommandSound, CommandWants, BridgeSound, Replied, Handling
<1> QED
  BY <1>1, DaemonIInv, CommandIInv, BridgeIInv DEF Next

\* The invariant of the front ends.
LEMMA IInvHolds == Spec => []IInv
BY InitIInv, NextIInv, PTL DEF Spec

\* For every legal sequence of commands, tools, signals and expiries, the three
\* tables of what needs the lock agree (sessionExemptMethods, lockFreeCommands,
\* lockExempt): no refusal for want of a session, and no lock for an observer.
THEOREM LockTablesAgreeHolds == Spec => []LockTablesAgree
<1>1. IInv => LockTablesAgree
  <2> SUFFICES ASSUME IInv PROVE LockTablesAgree
    OBVIOUS
  <2>1. TypeOK
    BY DEF IInv, DaemonTyped, FrontTyped, TypeOK, Answers, DaemonStates, CallStates,
       CommandStates, BridgeStates, BridgePcs
  <2>2. NotRefused
    BY DEF IInv, FrontTyped, NotRefused, CommandStates, BridgeStates
  <2>3. ObserversNeverTakeTheLock
    BY DEF IInv, OneFront, CommandSound, CommandWants, BridgeSound, ObserversNeverTakeTheLock
  <2> QED
    BY <2>1, <2>2, <2>3 DEF LockTablesAgree
<1> QED
  BY <1>1, IInvHolds, PTL

-----------------------------------------------------------------------------
(* Whoever leaves the lock behind.                                         *)

\* The last disjunct of each line is what a front end that is gone can be left
\* with: a signal, or the end of the daemon, cut its release or its grant off.
CutOff ==
  /\ holder = "me" /\ cmd.pc = "exited" => cmd.sig \/ daemon.pc # "up"
  /\ holder = "me" /\ mcp.pc # "absent" =>
       \/ mcp.sess
       \/ rpc.name = "StartSession" /\ rpc.st = "ok"
       \/ rpc.name = "FinishSession"
       \/ mcp.sig \/ daemon.pc # "up"
  /\ holder = "me" /\ rpc.name = "FinishSession" /\ Answered => daemon.pc # "up"

\* The daemon keeps this: only while it is up is a release handled, and then well.
LEMMA DaemonCutOff == ASSUME IInv, CutOff, Daemons PROVE CutOff'
<1>1. UNCHANGED <<cmd, mcp>> /\ DaemonStep
  BY DEF Daemons
<1>2. CASE HandleStart /\ holder # "me" /\ holder' = "me"
  <2>1. /\ rpc.name = "StartSession" /\ rpc.st = "running" /\ Answer("ok")
        /\ UNCHANGED daemon
    BY <1>2 DEF HandleStart, Handling
  <2>2. rpc # NoRpc
    BY <2>1 DEF NoRpc
  <2>3. rpc'.name = "StartSession" /\ rpc'.st = "ok"
    BY <2>1, <2>2, Answering DEF IInv, Answers
  <2>4. cmd.pc # "exited"
    BY <2>2 DEF IInv, CommandSound
  <2> QED
    BY <1>1, <2>3, <2>4 DEF CutOff
<1>3. CASE ~(HandleStart /\ holder # "me" /\ holder' = "me")
  <2> SUFFICES ASSUME holder' = "me" PROVE CutOff'
    BY DEF CutOff
  <2>1. holder = "me"
    BY <1>1, <1>3 DEF DaemonStep, Arrive, HandleFinish, HandleOther, HandleClosed, Completes,
       OtherAcquires, OtherReleases, OtherLeaves, OtherExpires, MineExpires, Expire,
       StartStep, StartFails, Signal, Drained, ServeFails, Close
  <2>2. daemon.pc # "starting" /\ daemon \in DaemonStates
    BY <2>1 DEF IInv, Quiet, DaemonTyped
  <2>3. Close => UNCHANGED rpc /\ daemon.pc # "up" /\ daemon'.pc # "up"
    BY <2>2 DEF Close, DaemonStates
  <2>4. daemon.pc # "up" => daemon'.pc # "up"
    BY <1>1, <2>2, <2>3 DEF DaemonStep, Arrive, HandleStart, HandleFinish, HandleOther,
       HandleClosed, Completes, OtherAcquires, OtherReleases, OtherLeaves, OtherExpires,
       MineExpires, Expire, StartStep, StartFails, Signal, Drained, ServeFails, DaemonStates
  <2>5. \/ UNCHANGED rpc
        \/ /\ rpc' = [rpc EXCEPT !.st = rpc'.st] /\ rpc.st \in {"sent", "running"}
           /\ rpc.name = "FinishSession" => daemon.pc # "up" \/ rpc'.st = "running"
    <3>1. CASE Arrive
      <4>1. rpc.name = "FinishSession" => Allowed
        BY DEF Allowed, Exempt
      <4>2. PICK st : /\ Answer(st)
                      /\ st = (IF daemon.pc # "up" THEN "failed"
                               ELSE IF Allowed THEN "running" ELSE "refused")
        BY <3>1 DEF Arrive
      <4>3. rpc' = [rpc EXCEPT !.st = st] /\ rpc.st = "sent" /\ rpc \in CallStates
        BY <3>1, <4>2 DEF Arrive, Answer, IInv, DaemonTyped
      <4>4. rpc'.st = st
        BY <4>3 DEF CallStates
      <4> QED
        BY <4>1, <4>2, <4>3, <4>4
    <3>2. CASE HandleStart
      <4>1. PICK st : Answer(st)
        BY <3>2 DEF HandleStart
      <4>2. rpc' = [rpc EXCEPT !.st = st] /\ rpc \in CallStates
        BY <4>1 DEF Answer, IInv, DaemonTyped
      <4> QED
        BY <3>2, <4>2 DEF HandleStart, Handling, CallStates
    <3>3. CASE HandleFinish
      BY <2>1, <3>3 DEF HandleFinish
    <3>4. CASE HandleOther \/ HandleClosed
      <4>1. /\ rpc.name # "FinishSession" /\ rpc.st = "running"
            /\ \E st \in {"ok", "failed"} : Answer(st)
        BY <3>4 DEF HandleOther, HandleClosed, Completes, Handling, Endless, Streams
      <4>2. PICK st \in {"ok", "failed"} : rpc' = [rpc EXCEPT !.st = st]
        BY <4>1 DEF Answer
      <4>3. rpc \in CallStates
        BY DEF IInv, DaemonTyped
      <4> QED
        BY <4>1, <4>2, <4>3 DEF CallStates
    <3>5. CASE ~(Arrive \/ HandleStart \/ HandleFinish \/ HandleOther \/ HandleClosed)
      BY <1>1, <2>3, <3>5 DEF DaemonStep, OtherAcquires, OtherReleases, OtherLeaves,
         OtherExpires, MineExpires, Expire, StartStep, StartFails, Signal, Drained, ServeFails
    <3> QED
      BY <3>1, <3>2, <3>3, <3>4, <3>5
  <2>6. rpc \in CallStates
    BY DEF IInv, DaemonTyped
  <2>7. CASE UNCHANGED rpc
    BY <1>1, <2>1, <2>4, <2>7 DEF CutOff, Answered
  <2>8. CASE /\ rpc' = [rpc EXCEPT !.st = rpc'.st] /\ rpc.st \in {"sent", "running"}
             /\ rpc.name = "FinishSession" => daemon.pc # "up" \/ rpc'.st = "running"
    <3>1. rpc'.name = rpc.name
      BY <2>6, <2>8 DEF CallStates
    <3> QED
      BY <1>1, <2>1, <2>4, <2>8, <3>1 DEF CutOff, Answered
  <2> QED
    BY <2>5, <2>7, <2>8
<1> QED
  BY <1>2, <1>3

\* A command keeps it: it exits without the lock, or after its release, or for a
\* signal.
LEMMA CommandCutOff == ASSUME IInv, CutOff, Commands PROVE CutOff'
<1>1. /\ UNCHANGED <<mcp, daemon>> /\ cmd \in CommandStates /\ rpc \in CallStates
      /\ CommandStep \/ Interrupt \/ BrokenPipe
  BY DEF Commands, CommandStep, Parse, Acquire, Acquired, MakeCall, CallAnswered, Cancelled,
     ReleaseLock, Exit, Interrupt, BrokenPipe, daemonVars, IInv, FrontTyped, DaemonTyped
<1>2. cmd.pc # "absent"
  BY <1>1 DEF CommandStep, Parse, Acquire, Acquired, MakeCall, CallAnswered, Cancelled,
     ReleaseLock, Exit, Interrupt, BrokenPipe
<1>3. mcp.pc = "absent"
  BY <1>2 DEF IInv, OneFront, NoCommand, NoBridge
<1>4. CASE Cancelled
  <2>1. cmd'.sig /\ rpc' = NoRpc
    BY <1>1, <1>4 DEF Cancelled, GiveUpStart, CommandStates
  <2> QED
    BY <1>1, <1>3, <2>1 DEF CutOff, NoRpc
<1>5. CASE ~Cancelled
  <2>1. UNCHANGED holder
    BY <1>1, <1>5 DEF CommandStep, Parse, Acquire, Acquired, MakeCall, CallAnswered,
       ReleaseLock, Exit, Interrupt, BrokenPipe, daemonVars
  <2>2. UNCHANGED rpc \/ rpc'.st \in {"none", "sent"}
    <3>1. CASE Parse \/ Interrupt
      BY <3>1 DEF Parse, Interrupt, daemonVars
    <3>2. CASE Acquire \/ MakeCall
      BY <3>2 DEF Acquire, MakeCall, Send
    <3>3. CASE Acquired \/ CallAnswered \/ BrokenPipe \/ Exit
      BY <3>3 DEF Acquired, CallAnswered, BrokenPipe, Exit, NoRpc
    <3>4. CASE ReleaseLock
      BY <3>4 DEF ReleaseLock, Send
    <3> QED
      BY <1>1, <1>5, <3>1, <3>2, <3>3, <3>4 DEF CommandStep
  <2>3. holder = "me" /\ cmd'.pc = "exited" => daemon.pc # "up"
    <3> SUFFICES ASSUME holder = "me", cmd'.pc = "exited" PROVE daemon.pc # "up"
      OBVIOUS
    <3>1. ~Parse /\ ~Acquire /\ ~MakeCall
      BY <1>1 DEF Parse, Acquire, MakeCall, IInv, CommandSound
    <3>2. ~Acquired
      <4> SUFFICES ASSUME Acquired PROVE FALSE
        OBVIOUS
      <4>1. rpc.st = "ok" /\ cmd.pc \in {"try", "wait"}
        BY DEF Acquired, IInv, CommandSound
      <4>2. cmd'.pc = "run"
        BY <1>1, <4>1 DEF Acquired, CommandStates
      <4> QED
        BY <4>2
    <3>3. ~CallAnswered /\ ~BrokenPipe /\ ~Interrupt
      BY <1>1 DEF CallAnswered, BrokenPipe, Interrupt, CommandStates
    <3>4. ~ReleaseLock
      BY <1>1 DEF ReleaseLock, GoOn, IInv, CommandSound, CommandStates
    <3>5. Exit
      BY <1>1, <1>5, <3>1, <3>2, <3>3, <3>4 DEF CommandStep
    <3> QED
      BY <3>5 DEF Exit, IInv, CommandSound, CutOff
  <2> QED
    BY <1>1, <1>3, <2>1, <2>2, <2>3 DEF CutOff, Answered
<1> QED
  BY <1>4, <1>5

\* The bridge keeps it: it forgets a session only as it returns it, or as the
\* daemon says that there is none.
LEMMA BridgeCutOff == ASSUME IInv, CutOff, Bridges PROVE CutOff'
<1>1. UNCHANGED cmd /\ mcp \in BridgeStates /\ rpc \in CallStates /\ (BridgeStep \/ ReadLine \/ Notify)
  BY DEF Bridges, IInv, FrontTyped, DaemonTyped
<1>2. /\ UNCHANGED daemon /\ mcp.pc # "absent"
  BY <1>1 DEF BridgeStep, Connect, LookAtContext, ReadEof, HandleLine, RejectTool, CallTool,
     Ensure, Ensured, ToolCall, ToolAnswered, ToolDone, Abandon, Stop, Stopped, ReadLine,
     Notify, daemonVars
<1>3. cmd.pc = "absent"
  BY <1>2 DEF IInv, OneFront, NoCommand, NoBridge
<1>4. CASE Abandon
  <2>1. mcp'.sig /\ rpc' = NoRpc
    BY <1>1, <1>4 DEF Abandon, GiveUpStart, BridgeStates
  <2> QED
    BY <1>1, <1>3, <2>1 DEF CutOff, NoRpc
<1>5. ASSUME UNCHANGED holder, mcp.sess => mcp'.sess, mcp'.sig = mcp.sig, UNCHANGED rpc
      PROVE  CutOff'
  BY <1>1, <1>2, <1>3, <1>5 DEF CutOff, Answered
<1>6. ASSUME UNCHANGED holder, mcp'.sig = mcp.sig, rpc'.st \in {"none", "sent"},
             holder = "me" =>
               mcp'.sess \/ rpc'.name = "FinishSession" \/ mcp.sig \/ daemon.pc # "up"
      PROVE  CutOff'
  BY <1>1, <1>2, <1>3, <1>6 DEF CutOff, Answered
<1>7. CASE Connect \/ LookAtContext \/ ReadLine \/ ReadEof \/ Notify
  <2>1. /\ UNCHANGED <<holder, rpc>> /\ mcp'.sess = mcp.sess
        /\ mcp'.sig = mcp.sig \/ mcp'.sig
    BY <1>1, <1>7 DEF Connect, LookAtContext, ReadLine, ReadEof, Notify, To, daemonVars, BridgeStates
  <2> QED
    BY <1>1, <1>2, <1>3, <2>1 DEF CutOff, Answered
<1>8. ASSUME NEW n, Turn(n) PROVE mcp'.sess = mcp.sess /\ mcp'.sig = mcp.sig
  BY <1>1, <1>8 DEF Turn, To, BridgeStates
<1>9. CASE HandleLine \/ RejectTool \/ ToolDone
  <2>1. UNCHANGED <<holder, rpc>> /\ \E n : Turn(n)
    BY <1>9 DEF HandleLine, RejectTool, ToolDone, daemonVars
  <2> QED
    BY <1>5, <1>8, <2>1
<1>10. CASE CallTool
  <2>1. UNCHANGED <<holder, rpc>> /\ mcp'.sess = mcp.sess /\ mcp'.sig = mcp.sig
    BY <1>1, <1>10 DEF CallTool, daemonVars, BridgeStates
  <2> QED
    BY <1>5, <2>1
<1>11. CASE Ensure
  <2>1. UNCHANGED holder /\ mcp'.sess = mcp.sess /\ mcp'.sig = mcp.sig /\ rpc = NoRpc
        /\ (UNCHANGED rpc \/ rpc'.st = "sent")
    BY <1>1, <1>11 DEF Ensure, To, Send, BridgeStates
  <2>2. holder = "me" => mcp.sess \/ mcp.sig \/ daemon.pc # "up"
    BY <1>2, <2>1 DEF CutOff, NoRpc
  <2> QED
    BY <1>5, <1>6, <2>1, <2>2
<1>12. CASE Ensured
  <2>1. UNCHANGED holder /\ rpc' = NoRpc /\ mcp.pc = "acquiring" /\ rpc.name = "StartSession"
    BY <1>12 DEF Ensured, IInv, BridgeSound
  <2>2. mcp'.sig = mcp.sig /\ (mcp'.sess = mcp.sess \/ mcp'.sess = (rpc.st = "ok"))
    BY <1>1, <1>8, <1>12 DEF Ensured, BridgeStates
  <2>3. rpc.st \in {"ok", "unimplemented"} => mcp'.sess = (rpc.st = "ok")
    BY <1>1, <1>12 DEF Ensured, BridgeStates
  <2>4. rpc.st = "unimplemented" => holder # "me"
    BY DEF IInv, Told
  <2>5. rpc.st \notin {"ok", "unimplemented"} => mcp'.sess = mcp.sess
    BY <1>8, <1>12 DEF Ensured
  <2>6. holder = "me" => mcp'.sess \/ mcp.sig \/ daemon.pc # "up"
    BY <1>2, <2>1, <2>3, <2>4, <2>5 DEF CutOff
  <2> QED
    BY <1>6, <2>1, <2>2, <2>6 DEF NoRpc
<1>13. CASE ToolCall
  <2>1. /\ UNCHANGED holder /\ rpc = NoRpc /\ rpc'.name = Head(mcp.todo) /\ rpc'.st = "sent"
        /\ mcp'.sig = mcp.sig /\ mcp'.sess = (mcp.sess /\ Head(mcp.todo) # "FinishSession")
    BY <1>1, <1>13 DEF ToolCall, Send, BridgeStates, IInv, BridgeSound
  <2>2. holder = "me" => mcp.sess \/ mcp.sig \/ daemon.pc # "up"
    BY <1>2, <2>1 DEF CutOff, NoRpc
  <2> QED
    BY <1>6, <2>1, <2>2
<1>14. CASE ToolAnswered
  <2>1. UNCHANGED holder /\ rpc' = NoRpc /\ mcp.pc = "calling" /\ Answered
        /\ mcp'.sig = mcp.sig
    BY <1>1, <1>14 DEF ToolAnswered, BridgeStates
  <2>2. rpc.name = "FinishSession" /\ holder = "me" => daemon.pc # "up"
    BY <2>1 DEF CutOff
  <2>3. CASE rpc.st = "ok"
    <3>1. mcp'.sess = (mcp.sess \/ rpc.name = "StartSession")
      BY <1>1, <1>14, <2>3 DEF ToolAnswered, SessionLost, BridgeStates
    <3> QED
      BY <1>2, <1>6, <2>1, <2>2, <3>1 DEF CutOff, NoRpc
  <2>4. CASE rpc.st # "ok" /\ mcp'.sess = mcp.sess
    BY <1>2, <1>6, <2>1, <2>2, <2>4 DEF CutOff, NoRpc
  <2>5. CASE rpc.st # "ok" /\ mcp'.sess # mcp.sess
    <3>1. SessionLost
      BY <1>1, <1>14, <2>5 DEF ToolAnswered, BridgeStates
    <3>2. rpc.st = "refused" /\ mcp.tool.guarded
      BY <3>1 DEF SessionLost
    <3>3. /\ mcp.todo \in ToolCalls(mcp.tool.guarded, mcp.wants) /\ mcp.todo # <<>>
          /\ rpc.name = Head(mcp.todo)
      BY <2>1 DEF IInv, BridgeSound
    <3>4. rpc.name \notin Exempt
      <4>1. mcp.tool.guarded \in BOOLEAN /\ mcp.wants \in BOOLEAN
        BY <1>1 DEF BridgeStates
      <4> QED
        BY <3>2, <3>3, <4>1, Calling
    <3>5. holder # "me"
      BY <3>2, <3>4 DEF IInv, Told, Exempt
    <3> QED
      BY <1>6, <2>1, <3>5 DEF NoRpc
  <2> QED
    BY <2>3, <2>4, <2>5
<1>15. CASE Stop
  <2>1. /\ UNCHANGED holder /\ rpc = NoRpc
        /\ mcp'.sess = mcp.sess /\ mcp'.sig = mcp.sig
        /\ UNCHANGED rpc \/ rpc'.st = "sent"
    BY <1>1, <1>15 DEF Stop, To, Send, BridgeStates
  <2>2. holder = "me" => mcp.sess \/ mcp.sig \/ daemon.pc # "up"
    BY <1>2, <2>1 DEF CutOff, NoRpc
  <2> QED
    BY <1>5, <1>6, <2>1, <2>2
<1>16. CASE Stopped
  <2>1. UNCHANGED holder /\ rpc' = NoRpc /\ mcp.pc = "releasing" /\ Answered
        /\ mcp'.sig = mcp.sig
    BY <1>1, <1>16 DEF Stopped, BridgeStates
  <2>2. rpc.name = "FinishSession"
    BY <2>1 DEF IInv, BridgeSound
  <2> QED
    BY <1>6, <2>1, <2>2 DEF CutOff, NoRpc
<1> QED
  BY <1>1, <1>4, <1>7, <1>9, <1>10, <1>11, <1>12, <1>13, <1>14, <1>15, <1>16 DEF BridgeStep

\* Whoever is cut off keeps the lock; nobody else who is gone has it.
LEMMA CutOffHolds == Spec => []CutOff
<1>1. Init => CutOff
  BY DEF Init, DaemonInit, CutOff
<1>2. IInv /\ CutOff /\ [Next]_vars => CutOff'
  <2>1. CASE UNCHANGED vars
    BY <2>1 DEF vars, daemonVars, CutOff, Answered
  <2> QED
    BY <2>1, DaemonCutOff, CommandCutOff, BridgeCutOff DEF Next
<1> QED
  BY <1>1, <1>2, IInvHolds, PTL DEF Spec

\* A front end that is gone left the lock to others, however it ended (the deferred
\* release of either front end, the proxy that ignores SIGPIPE).  Left to the idle
\* expiry is the lock of one whose release or grant was cut off by a signal or by
\* the end of the daemon, and of a command, other than a proxy, or a bridge that
\* SIGPIPE killed.
THEOREM LockReturnedHolds == Spec => []LockReturned
<1>1. IInv /\ CutOff => LockReturned
  BY DEF IInv, OneFront, CommandSound, BridgeSound, CutOff, LockReturned, NoCommand, NoBridge,
     NoRpc
<1> QED
  BY <1>1, IInvHolds, CutOffHolds, PTL

\* A request has had one reply before the next line is read (Serve, handleLine,
\* handleToolCall).
THEOREM OneReplyHolds == Spec => []OneReply
<1>1. IInv => OneReply
  BY DEF IInv, FrontTyped, Replied, OneReply, BridgeStates
<1> QED
  BY <1>1, IInvHolds, PTL

\* Only an answer makes a tool be tried again.
LEMMA RetryIsAnswered ==
    ASSUME FrontTyped, [Next]_vars, ~mcp.retried, mcp'.retried
    PROVE  ToolAnswered /\ SessionLost
<1>1. mcp \in BridgeStates /\ mcp' # mcp
  BY DEF FrontTyped
<1>2. Bridges
  BY <1>1 DEF Next, Daemons, Commands, vars
<1>3. ~(Connect \/ LookAtContext \/ ReadEof \/ ReadLine \/ Notify)
  BY <1>1 DEF Connect, LookAtContext, ReadEof, ReadLine, Notify, To, BridgeStates
<1>4. ~(HandleLine \/ RejectTool \/ CallTool \/ ToolDone)
  BY <1>1 DEF HandleLine, RejectTool, CallTool, ToolDone, Turn, To, BridgeStates
<1>5. ~(Ensure \/ Ensured \/ ToolCall \/ Abandon \/ Stop \/ Stopped)
  BY <1>1 DEF Ensure, Ensured, ToolCall, Abandon, Stop, Stopped, To, Turn, BridgeStates
<1>6. ToolAnswered
  BY <1>2, <1>3, <1>4, <1>5 DEF Bridges, BridgeStep
<1>7. SessionLost
  BY <1>1, <1>6 DEF ToolAnswered, BridgeStates
<1> QED
  BY <1>6, <1>7

\* What is done again was not done before: the retry of a tool starts where the
\* first attempt did (callWithSession, the smoke test's verdict on a netboot).
THEOREM RetryRepeatsNothingHolds == Spec => RetryRepeatsNothing
<1>1. IInv /\ [Next]_vars => [~mcp.retried /\ mcp'.retried => mcp.todo = mcp.tool.calls]_mcp
  <2> SUFFICES ASSUME IInv, [Next]_vars, ~mcp.retried, mcp'.retried
               PROVE  mcp.todo = mcp.tool.calls
    OBVIOUS
  <2>1. ToolAnswered /\ SessionLost
    BY RetryIsAnswered DEF IInv
  <2>2. /\ mcp.todo # <<>> /\ rpc.name = Head(mcp.todo) /\ mcp.tool.guarded
        /\ Attempt(mcp.tool.calls, mcp.todo)
    BY <2>1 DEF ToolAnswered, SessionLost, IInv, BridgeSound
  <2>3. Head(Tail(SmokeCalls)) = "Netboot"
    BY DEF SmokeCalls
  <2> QED
    BY <2>1, <2>2, <2>3 DEF Attempt, SessionLost
<1> QED
  BY <1>1, IInvHolds, PTL DEF RetryRepeatsNothing, Spec

\* The daemon closes neither the console nor the sessions under a running handler
\* (run's order of deferred closers behind GracefulStop), unless its listener failed.
THEOREM ServedFromOpenHolds == Spec => []ServedFromOpen
<1>1. IInv => ServedFromOpen
  BY DEF IInv, DaemonTyped, Opened, Quiet, ServedFromOpen
<1> QED
  BY <1>1, IInvHolds, PTL

-----------------------------------------------------------------------------
(* The smoke test, run by either front end.                                *)

\* The places and the verdicts of a run, and the markers a board prints.
RunPcs == {"upload", "netboot", "boot", "marker", "ssh", "finish", "report", "done"}
Results == {"none", "pass", "fail", "error"}
Reasons == {"none", "pass", "netboot failed", "cancelled", "boot failure",
            "timed out", "ssh mismatch", "ssh failed"}
Images == {"none", "old", "new", "flash"}
Marks == [image : Images, mark : {"good", "bad"}]

\* The variables of the smoke test have their types.
SmokeTyped ==
    /\ front \in {"cli", "mcp"} /\ mode \in Modes \cup {"none"}
    /\ run \in [pc : RunPcs, reason : Reasons, result : Results]
    /\ ctx \in {"live", "done"}
    /\ board \in [image : Images, up : BOOLEAN, hung : BOOLEAN]
    /\ out \in Seq(Marks)
    /\ cap \in [stream : {"none", "open", "ended"}, from : Nat, to : Nat]
    /\ lock \in [silence : Nat, waited : Nat]

\* The capture is a part of the output; the verdict is reported once.
Ordered ==
    /\ cap.from <= cap.to /\ cap.to <= Len(out)
    /\ run.result # "none" <=> run.pc = "done"
    /\ cap.stream = "none" => cap.from = cap.to

\* Before the verdict, in the SSH check, and after it, the capture has begun and
\* its first marker was good.
Earned ==
    run.pc = "ssh" \/ run.reason = "pass" =>
      /\ cap.from < cap.to
      /\ out[cap.from + 1].mark = "good"

\* A run has no reason before it has a verdict.
Reasoned == run.pc \in {"upload", "netboot", "boot", "marker", "ssh"} => run.reason = "none"

\* The image i has said that it is up.
Printed(i) == \E k \in 1 .. Len(out) : out[k] = [image |-> i, mark |-> "good"]

\* What is up has said so, and what an expecting run passed has answered.
Shown ==
    /\ board.up => Printed(board.image)
    /\ mode = "expect" /\ run.reason = "pass" => "new" \in ssh /\ Printed("new")
    /\ run.result = "pass" => run.reason = "pass"

\* The command line is never silent; the bridge is only while it waits.
Heard ==
    /\ front = "cli" => lock.silence = 0
    /\ front = "mcp" =>
         /\ mode = "none" /\ run.pc # "ssh"
         /\ lock.silence <= lock.waited
         /\ lock.waited <= BootWait["mcp"]

\* The inductive invariant of a run.
SmokeIInv == SmokeTyped /\ Ordered /\ Earned /\ Reasoned /\ Shown /\ Heard

\* The run has not begun.
LEMMA SmokeInitIInv == SmokeInit => SmokeIInv
<1> SUFFICES ASSUME SmokeInit PROVE SmokeIInv
  OBVIOUS
<1> USE DEF SmokeInit, Image
<1>1. SmokeTyped
  BY ModesAssumption DEF SmokeTyped, RunPcs, Results, Reasons, Images, Marks
<1>2. Ordered /\ Earned /\ Reasoned
  BY DEF Ordered, Earned, Reasoned
<1>3. Shown
  BY DEF Shown
<1>4. Heard
  BY TimesAssumption DEF Heard
<1> QED
  BY <1>1, <1>2, <1>3, <1>4 DEF SmokeIInv

\* More output changes nothing about the markers that are there.
LEMMA OutputStays ==
  ASSUME SmokeTyped, NEW e \in Marks, out' = Append(out, e)
  PROVE  /\ out' \in Seq(Marks) /\ Len(out') = Len(out) + 1 /\ Len(out) \in Nat
         /\ out'[Len(out) + 1] = e
         /\ \A k \in 1 .. Len(out) : out'[k] = out[k]
BY DEF SmokeTyped

\* A marker is printed.
LEMMA MarkIInv ==
  ASSUME SmokeIInv, NEW m \in {"good", "bad"}, Mark(m),
         board' \in [image : Images, up : BOOLEAN, hung : BOOLEAN],
         board'.image = board.image,
         board'.up => m = "good"
  PROVE  SmokeIInv'
<1> DEFINE e == [image |-> board.image, mark |-> m]
<1>1. e \in Marks /\ out' = Append(out, e)
  BY DEF SmokeIInv, SmokeTyped, Mark, Marks
<1>2. /\ out' \in Seq(Marks) /\ Len(out') = Len(out) + 1 /\ Len(out) \in Nat
      /\ out'[Len(out) + 1] = e
      /\ \A k \in 1 .. Len(out) : out'[k] = out[k]
  BY <1>1, OutputStays DEF SmokeIInv
<1>3. UNCHANGED <<front, mode, lock, run, ctx, cap, ssh>>
  BY DEF Mark, conf
<1>4. SmokeTyped'
  BY <1>2, <1>3 DEF SmokeIInv, SmokeTyped
<1>5. Ordered' /\ Reasoned' /\ Heard'
  BY <1>2, <1>3 DEF SmokeIInv, SmokeTyped, Ordered, Reasoned, Heard
<1>6. Earned'
  BY <1>2, <1>3 DEF SmokeIInv, SmokeTyped, Ordered, Earned
<1>7. Shown'
  <2>1. ASSUME NEW i, Printed(i) PROVE Printed(i)'
    <3>1. PICK k \in 1 .. Len(out) : out[k] = [image |-> i, mark |-> "good"]
      BY <2>1 DEF Printed
    <3>2. k \in 1 .. Len(out') /\ out'[k] = [image |-> i, mark |-> "good"]
      BY <1>2, <3>1
    <3> QED
      BY <3>2 DEF Printed
  <2>2. (board.up => Printed(board.image))'
    <3>1. SUFFICES ASSUME board'.up PROVE Printed(board.image)'
      OBVIOUS
    <3>2. Len(out) + 1 \in 1 .. Len(out')
      BY <1>2
    <3>3. out'[Len(out) + 1] = [image |-> board'.image, mark |-> "good"]
      BY <1>2, <3>1
    <3> QED
      BY <3>2, <3>3 DEF Printed
  <2>3. (mode = "expect" /\ run.reason = "pass" => "new" \in ssh /\ Printed("new"))'
    BY <1>3, <2>1 DEF SmokeIInv, Shown
  <2>4. (run.result = "pass" => run.reason = "pass")'
    BY <1>3 DEF SmokeIInv, Shown
  <2> QED
    BY <2>2, <2>3, <2>4 DEF Shown
<1> QED
  BY <1>4, <1>5, <1>6, <1>7 DEF SmokeIInv

\* A capture with a good marker and no bad one begins with a good one.
LEMMA GoodFirst ==
  ASSUME SmokeTyped, Ordered, Captured("good"), ~Captured("bad")
  PROVE  cap.from < cap.to /\ out[cap.from + 1].mark = "good"
<1>1. cap.from < cap.to
  BY DEF Captured, SmokeTyped
<1>2. cap.from + 1 \in cap.from + 1 .. cap.to /\ cap.from + 1 \in 1 .. Len(out)
  BY <1>1 DEF SmokeTyped, Ordered
<1>3. out[cap.from + 1].mark \in {"good", "bad"}
  <2>1. out[cap.from + 1] \in Marks
    BY <1>2 DEF SmokeTyped
  <2> QED
    BY <2>1 DEF Marks
<1>4. out[cap.from + 1].mark # "bad"
  BY <1>2 DEF Captured
<1> QED
  BY <1>1, <1>3, <1>4

\* A step of the run, of the board that leaves it down, or of the end of the
\* capture: what is left to show for it.
LEMMA RunStepIInv ==
  ASSUME SmokeIInv,
         UNCHANGED <<front, mode, lock, out>>,
         ctx' \in {"live", "done"}, ssh \subseteq ssh',
         board' \in [image : Images, up : BOOLEAN, hung : BOOLEAN],
         board'.up => board.up /\ board'.image = board.image,
         cap' \in [stream : {"none", "open", "ended"}, from : Nat, to : Nat],
         cap'.from = cap.from, cap'.to = cap.to,
         cap'.stream = "none" => cap.stream = "none",
         run' \in [pc : RunPcs, reason : Reasons, result : Results],
         run'.result # "none" <=> run'.pc = "done",
         run'.pc = "ssh" \/ run'.reason = "pass" =>
           cap.from < cap.to /\ out[cap.from + 1].mark = "good",
         run'.pc \in {"upload", "netboot", "boot", "marker", "ssh"} => run'.reason = "none",
         mode = "expect" /\ run'.reason = "pass" => "new" \in ssh' /\ Printed("new"),
         run'.result = "pass" => run'.reason = "pass",
         front = "mcp" => run'.pc # "ssh"
  PROVE  SmokeIInv'
<1>1. SmokeTyped'
  BY DEF SmokeIInv, SmokeTyped
<1>2. Ordered' /\ Earned' /\ Reasoned'
  BY DEF SmokeIInv, Ordered, Earned, Reasoned
<1>3. \A i : Printed(i) => Printed(i)'
  BY DEF Printed
<1>4. Shown'
  BY <1>3 DEF SmokeIInv, Shown
<1>5. Heard'
  BY DEF SmokeIInv, Heard
<1> QED
  BY <1>1, <1>2, <1>4, <1>5 DEF SmokeIInv

\* The run as it is meets what RunStepIInv asks of the next one.
LEMMA RunStands ==
  ASSUME SmokeIInv
  PROVE  /\ run \in [pc : RunPcs, reason : Reasons, result : Results]
         /\ run.result # "none" <=> run.pc = "done"
         /\ run.pc = "ssh" \/ run.reason = "pass" =>
              cap.from < cap.to /\ out[cap.from + 1].mark = "good"
         /\ run.pc \in {"upload", "netboot", "boot", "marker", "ssh"} => run.reason = "none"
         /\ mode = "expect" /\ run.reason = "pass" => "new" \in ssh /\ Printed("new")
         /\ run.result = "pass" => run.reason = "pass"
         /\ front = "mcp" => run.pc # "ssh"
BY DEF SmokeIInv, SmokeTyped, Ordered, Earned, Reasoned, Shown, Heard

\* The run goes on without a verdict, to a step that is not the SSH check.
LEMMA GotoIInv ==
  ASSUME SmokeIInv, NEW p \in {"netboot", "boot", "marker"}, Goto(p), run.pc # "done",
         run.reason = "none",
         UNCHANGED <<front, mode, lock, out, ctx, ssh, cap>>,
         board' \in [image : Images, up : BOOLEAN, hung : BOOLEAN],
         board'.up => board.up /\ board'.image = board.image
  PROVE  SmokeIInv'
<1>1. /\ run' \in [pc : RunPcs, reason : Reasons, result : Results]
      /\ run'.pc = p /\ run'.reason = "none" /\ run'.result = "none"
  BY DEF SmokeIInv, SmokeTyped, Ordered, Goto, RunPcs, Results, Reasons
<1> QED
  BY <1>1, RunStepIInv DEF SmokeIInv, SmokeTyped

\* A verdict other than a pass.
LEMMA VerdictIInv ==
  ASSUME SmokeIInv, NEW r \in Reasons \ {"none", "pass"}, Verdict(r), run.pc # "done",
         UNCHANGED <<front, mode, lock, out, board, cap, ctx>>, ssh \subseteq ssh'
  PROVE  SmokeIInv'
<1>1. /\ run' \in [pc : RunPcs, reason : Reasons, result : Results]
      /\ run'.pc = "finish" /\ run'.reason = r /\ run'.result = "none"
  BY DEF SmokeIInv, SmokeTyped, Ordered, Verdict, RunPcs, Results, Reasons
<1> QED
  BY <1>1, RunStepIInv DEF SmokeIInv, SmokeTyped

\* Every step keeps the invariant.
LEMMA SmokeNextIInv == SmokeIInv /\ [SmokeNext]_smokeVars => SmokeIInv'
<1> SUFFICES ASSUME SmokeIInv, [SmokeNext]_smokeVars PROVE SmokeIInv'
  OBVIOUS
<1> USE DEF conf
<1>1. CASE Boots
  <2>1. board' \in [image : Images, up : BOOLEAN, hung : BOOLEAN] /\ board'.image = board.image
    BY <1>1 DEF SmokeIInv, SmokeTyped, Boots
  <2> QED
    BY <1>1, <2>1, MarkIInv DEF Boots
<1>2. CASE Panics
  <2>1. /\ board' \in [image : Images, up : BOOLEAN, hung : BOOLEAN]
        /\ board'.image = board.image /\ ~board'.up
    BY <1>2 DEF SmokeIInv, SmokeTyped, Panics
  <2> QED
    BY <1>2, <2>1, MarkIInv DEF Panics
<1>3. CASE Resets
  <2>1. board' \in [image : Images, up : BOOLEAN, hung : BOOLEAN] /\ ~board'.up
    BY <1>3 DEF Resets, Image, Images
  <2> QED
    BY <1>3, <2>1, RunStands, RunStepIInv DEF Resets, SmokeIInv, SmokeTyped
<1>4. CASE Upload
  <2>1. CASE Goto("netboot")
    BY <1>4, <2>1, GotoIInv DEF Upload, SmokeIInv, SmokeTyped, Reasoned
  <2>2. CASE run' = [run EXCEPT !.pc = "done", !.result = "error"]
    <3>1. /\ run' \in [pc : RunPcs, reason : Reasons, result : Results]
          /\ run'.pc = "done" /\ run'.reason = "none" /\ run'.result = "error"
      BY <1>4, <2>2 DEF Upload, SmokeIInv, SmokeTyped, Reasoned, RunPcs, Results
    <3> QED
      BY <1>4, <3>1, RunStepIInv DEF Upload, SmokeIInv, SmokeTyped
  <2> QED
    BY <1>4, <2>1, <2>2 DEF Upload
<1>5. CASE CaptureStarts
  <2>1. SmokeTyped' /\ Ordered' /\ Reasoned' /\ Heard'
    BY <1>5 DEF CaptureStarts, SmokeIInv, SmokeTyped, Ordered, Reasoned, Heard
  <2>2. Earned'
    <3>1. run.pc # "ssh" /\ run.reason # "pass"
      BY <1>5, RunStands DEF CaptureStarts, SmokeIInv, SmokeTyped, Ordered
    <3> QED
      BY <1>5, <3>1 DEF CaptureStarts, Earned
  <2>3. Shown'
    BY <1>5 DEF CaptureStarts, SmokeIInv, Shown, Printed
  <2> QED
    BY <2>1, <2>2, <2>3 DEF SmokeIInv
<1>6. CASE CaptureReceives
  <2>1. SmokeTyped' /\ Ordered' /\ Reasoned' /\ Heard'
    BY <1>6 DEF CaptureReceives, SmokeIInv, SmokeTyped, Ordered, Reasoned, Heard
  <2>2. Earned'
    BY <1>6 DEF CaptureReceives, SmokeIInv, SmokeTyped, Ordered, Earned
  <2>3. Shown'
    BY <1>6 DEF CaptureReceives, SmokeIInv, Shown, Printed
  <2> QED
    BY <2>1, <2>2, <2>3 DEF SmokeIInv
<1>7. CASE CaptureEnds
  <2>1. /\ cap' \in [stream : {"none", "open", "ended"}, from : Nat, to : Nat]
        /\ cap'.from = cap.from /\ cap'.to = cap.to /\ cap'.stream = "ended"
    BY <1>7 DEF CaptureEnds, SmokeIInv, SmokeTyped
  <2> QED
    BY <1>7, <2>1, RunStands, RunStepIInv DEF CaptureEnds, SmokeIInv, SmokeTyped
<1>8. CASE PowerCycle
  <2>1. board' \in [image : Images, up : BOOLEAN, hung : BOOLEAN] /\ ~board'.up
    BY <1>8 DEF PowerCycle, Image, Images
  <2> QED
    BY <1>8, <2>1, GotoIInv DEF PowerCycle, SmokeIInv, Reasoned
<1>9. CASE Starts
  <2>1. board' \in [image : Images, up : BOOLEAN, hung : BOOLEAN] /\ ~board'.up
    BY <1>9 DEF Starts, Image, Images
  <2> QED
    BY <1>9, <2>1, RunStands, RunStepIInv DEF Starts, SmokeIInv, SmokeTyped
<1>10. CASE NetbootEnds
  <2>1. CASE run.pc = "boot" /\ Goto("marker")
    BY <1>10, <2>1, GotoIInv DEF NetbootEnds, SmokeIInv, SmokeTyped, Reasoned
  <2>2. CASE run.pc \in {"netboot", "boot"} /\ Verdict("netboot failed")
    BY <1>10, <2>2, VerdictIInv DEF NetbootEnds, Reasons
  <2> QED
    BY <1>10, <2>1, <2>2 DEF NetbootEnds
<1>11. CASE WaitForMarker
  <2>1. /\ run.pc = "marker"
        /\ UNCHANGED <<front, mode, lock, ctx, board, out, cap, ssh>>
    BY <1>11 DEF WaitForMarker
  <2>2. CASE Healthy /\ ~Captured("bad") /\ Captured("good")
    <3>1. cap.from < cap.to /\ out[cap.from + 1].mark = "good"
      BY <2>2, GoodFirst DEF SmokeIInv
    <3>2. CASE mode = "none"
      <4>1. /\ run' \in [pc : RunPcs, reason : Reasons, result : Results]
            /\ run'.pc = "finish" /\ run'.reason = "pass" /\ run'.result = "none"
        BY <2>1, <2>2, <3>2 DEF Healthy, Verdict, SmokeIInv, SmokeTyped, Ordered, RunPcs, Reasons
      <4> QED
        BY <2>1, <3>1, <3>2, <4>1, RunStepIInv DEF SmokeIInv, SmokeTyped
    <3>3. CASE mode # "none"
      <4>1. /\ run' \in [pc : RunPcs, reason : Reasons, result : Results]
            /\ run'.pc = "ssh" /\ run'.reason = "none" /\ run'.result = "none"
        BY <2>1, <2>2, <3>3 DEF Healthy, Goto, SmokeIInv, SmokeTyped, Ordered, Reasoned, RunPcs
      <4>2. front # "mcp"
        BY <3>3 DEF SmokeIInv, Heard
      <4> QED
        BY <2>1, <3>1, <4>1, <4>2, RunStepIInv DEF SmokeIInv, SmokeTyped
    <3> QED
      BY <3>2, <3>3
  <2>3. CASE \E r \in {"boot failure", "timed out", "cancelled"} : Verdict(r)
    BY <2>1, <2>3, VerdictIInv DEF Reasons
  <2>4. CASE Captured("bad")
    <3>1. Verdict("boot failure")
      BY <1>11, <2>4 DEF WaitForMarker
    <3> QED
      BY <2>3, <3>1
  <2>5. CASE ~Captured("bad") /\ Captured("good")
    BY <1>11, <2>2, <2>5 DEF WaitForMarker
  <2>6. CASE ~Captured("bad") /\ ~Captured("good")
    <3>1. Verdict("timed out") \/ Verdict("cancelled")
      BY <1>11, <2>6 DEF WaitForMarker, RunCancelled
    <3> QED
      BY <2>3, <3>1
  <2> QED
    BY <2>4, <2>5, <2>6
<1>12. CASE SshAnswers
  <2>1. /\ run.pc = "ssh" /\ board.up
        /\ ssh' = ssh \cup {board.image}
        /\ UNCHANGED <<front, mode, lock, ctx, board, out, cap>>
    BY <1>12 DEF SshAnswers
  <2>2. CASE Expect(board.image)
    <3>1. /\ run' \in [pc : RunPcs, reason : Reasons, result : Results]
          /\ run'.pc = "finish" /\ run'.reason = "pass" /\ run'.result = "none"
      BY <1>12, <2>2 DEF SshAnswers, Verdict, SmokeIInv, SmokeTyped, Ordered, RunPcs, Reasons
    <3>2. mode = "expect" => "new" \in ssh' /\ Printed("new")
      BY <2>1, <2>2 DEF Expect, SmokeIInv, Shown
    <3> QED
      BY <2>1, <3>1, <3>2, RunStands, RunStepIInv DEF SmokeIInv, SmokeTyped
  <2>3. CASE ~Expect(board.image)
    <3>1. Verdict("ssh mismatch")
      BY <1>12, <2>3 DEF SshAnswers
    <3> QED
      BY <2>1, <3>1, VerdictIInv DEF Reasons
  <2> QED
    BY <2>2, <2>3
<1>13. CASE SshFails
  BY <1>13, VerdictIInv DEF SshFails, Reasons
<1>14. CASE EndRun
  <2>1. /\ run' \in [pc : RunPcs, reason : Reasons, result : Results]
        /\ run'.pc = "report" /\ run'.reason = run.reason /\ run'.result = "none"
    BY <1>14 DEF EndRun, Goto, SmokeIInv, SmokeTyped, Ordered, RunPcs
  <2>2. /\ cap' \in [stream : {"none", "open", "ended"}, from : Nat, to : Nat]
        /\ cap'.from = cap.from /\ cap'.to = cap.to /\ cap'.stream = "ended"
    BY <1>14 DEF EndRun, SmokeIInv, SmokeTyped
  <2> QED
    BY <1>14, <2>1, <2>2, RunStands, RunStepIInv DEF EndRun, SmokeIInv, SmokeTyped
<1>15. CASE Report
  <2>1. /\ run' \in [pc : RunPcs, reason : Reasons, result : Results]
        /\ run'.pc = "done" /\ run'.reason = run.reason
        /\ run'.result \in {"error", IF run.reason = "pass" THEN "pass" ELSE "fail"}
    BY <1>15 DEF Report, SmokeIInv, SmokeTyped, RunPcs, Results
  <2> QED
    BY <1>15, <2>1, RunStands, RunStepIInv DEF Report, SmokeIInv, SmokeTyped
<1>16. CASE Tick
  <2>1. SmokeTyped'
    <3>1. lock' \in [silence : Nat, waited : Nat]
      <4> DEFINE s == IF Keepalive THEN 0 ELSE lock.silence + 1
      <4> DEFINE w == lock.waited + 1
      <4>1. lock' = [lock EXCEPT !.waited = w, !.silence = s]
        BY <1>16 DEF Tick
      <4>2. lock \in [silence : Nat, waited : Nat]
        BY DEF SmokeIInv, SmokeTyped
      <4>3. s \in Nat /\ w \in Nat
        BY <4>2
      <4> HIDE DEF s, w
      <4> QED
        BY <4>1, <4>2, <4>3
    <3> QED
      BY <1>16, <3>1 DEF Tick, SmokeIInv, SmokeTyped
  <2>2. Ordered' /\ Earned' /\ Reasoned' /\ Shown'
    BY <1>16 DEF Tick, SmokeIInv, Ordered, Earned, Reasoned, Shown, Printed
  <2>3. Heard'
    <3>1. CASE front = "cli"
      BY <1>16, <3>1 DEF Tick, Keepalive, SmokeIInv, SmokeTyped, Heard
    <3>2. CASE front = "mcp"
      <4>1. ~MarkerLate
        BY <1>16, <3>2 DEF Tick, SmokeIInv, Heard
      <4>2. lock.waited < BootWait["mcp"]
        BY <3>2, <4>1, TimesAssumption DEF MarkerLate, SmokeIInv, SmokeTyped
      <4> QED
        BY <1>16, <3>2, <4>2, TimesAssumption DEF Tick, Keepalive, SmokeIInv, SmokeTyped, Heard
    <3> QED
      BY <3>1, <3>2 DEF SmokeIInv, SmokeTyped
  <2> QED
    BY <2>1, <2>2, <2>3 DEF SmokeIInv
<1>17. CASE Cancel
  BY <1>17, RunStands, RunStepIInv DEF Cancel, SmokeIInv, SmokeTyped
<1>18. CASE UNCHANGED smokeVars
  BY <1>18, RunStands, RunStepIInv DEF smokeVars, SmokeIInv, SmokeTyped
<1> QED
  BY <1>1, <1>2, <1>3, <1>4, <1>5, <1>6, <1>7, <1>8, <1>9, <1>10, <1>11, <1>12,
     <1>13, <1>14, <1>15, <1>16, <1>17, <1>18
     DEF SmokeNext, Board, Capture, Runner

\* The invariant of a run.
LEMMA SmokeIInvHolds == SmokeSpec => []SmokeIInv
BY SmokeInitIInv, SmokeNextIInv, PTL DEF SmokeSpec

\* PASS means that the first marker since the capture began is a good one
\* (waitForMarker's order, and the reason it returns).
THEOREM PassIsEarnedHolds == SmokeSpec => []PassIsEarned
<1>1. SmokeIInv => PassIsEarned
  <2> SUFFICES ASSUME SmokeIInv PROVE PassIsEarned
    OBVIOUS
  <2>1. SmokeTypeOK
    BY DEF SmokeIInv, SmokeTyped, Ordered, SmokeTypeOK, RunPcs, Results, Images
  <2> QED
    BY <2>1 DEF SmokeIInv, SmokeTyped, Ordered, Earned, PassIsEarned
<1> QED
  BY <1>1, SmokeIInvHolds, PTL

\* With SSHExpect, PASS means that the uploaded image came up and answered
\* (checkSSH).
THEOREM ExpectedImageRanHolds == SmokeSpec => []ExpectedImageRan
<1>1. SmokeIInv => ExpectedImageRan
  BY DEF SmokeIInv, Shown, Printed, ExpectedImageRan
<1> QED
  BY <1>1, SmokeIInvHolds, PTL

\* The run's session never expires, if the wait for a marker is no longer than
\* the TTL (maybeAcquire's keepalive, waitForMarker's deadline).
THEOREM RunIsExclusiveHolds == SmokeSpec => []RunIsExclusive
<1>1. SmokeIInv => RunIsExclusive
  BY TimesAssumption, DefaultsAssumption DEF SmokeIInv, SmokeTyped, Heard, RunIsExclusive
<1> QED
  BY <1>1, SmokeIInvHolds, PTL
=============================================================================
