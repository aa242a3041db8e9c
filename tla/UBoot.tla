------------------------------- MODULE UBoot -------------------------------
(***************************************************************************)
(* Netboot, InterruptBoot and RunUbootCommand through the serial line:     *)
(* uboot.Orchestrator (internal/uboot) talks to a boot loader it can only  *)
(* type at and listen to.                                                  *)
(*                                                                         *)
(* The two run at their own pace.  What the host types waits in `typed';   *)
(* what the target prints waits in `line' until the console's reader       *)
(* delivers it in chunks cut anywhere.  A command is over for the host     *)
(* when what it heard since it subscribed ends in a prompt (`=> ?$'), for  *)
(* the target when it prints one: nothing else ties an answer to its       *)
(* command.  The boot loader is external, modelled from what the           *)
(* orchestrator expects of it and from the emulator of uboot_test.go; what *)
(* is typed while it runs a command may be kept or lost.                   *)
(*                                                                         *)
(* One assumption is about time: while the outlet is off (5 s by default)  *)
(* the console reads all that the target printed before (PowerOn).         *)
(*                                                                         *)
(* A definition called a variant is a later one with a plausible bug:      *)
(* nothing uses it; put in its place, it breaks the properties.            *)
(***************************************************************************)
EXTENDS Naturals, Sequences, FiniteSets

CONSTANTS MaxAttempts,  \* interrupt keys InterruptBoot sends (8 in the code)
          MaxCalls      \* bound on the RPCs of a behaviour

ASSUME BoundsAssumption ==
    /\ MaxAttempts \in Nat \ {0}
    /\ MaxCalls \in Nat

VARIABLES
  pc,        \* what the RPC is doing
  step,      \* index in Script of the command it is at
  req,       \* its request: [rpc, verify, cycle]
  attempts,  \* interrupt keys sent
  heard,     \* what its subscription has delivered
  scroll,    \* the newest token in the scrollback, as a sequence
  calls,     \* history: RPCs so far
  synced,    \* history: no wait has failed since a power-cycled interrupt
  mode,      \* external: what the target is doing
  cur,       \* external: the command it executes
  typed,     \* external: input it has not read
  line,      \* external: output the console has not read
  loaded,    \* external: the image in its memory
  ran        \* history: the boot command it executed, and the image it ran

host == <<pc, step, req, attempts, heard, calls, synced>>
target == <<mode, cur, typed, loaded, ran>>
vars == <<host, scroll, target, line>>

\* The commands of Netboot, in order: setenv of ethact and, with no error markers,
\* of serverip and loadaddr; crc only with verify_crc32.
Script == <<"ethact", "dhcp", "env", "env", "tftp", "crc", "boot">>

\* The command an RPC is at: RunUbootCommand has one, the caller's.
Doing == IF req.rpc = "command" THEN "any" ELSE Script[step]

Key == [what |-> "key", verify |-> FALSE, synced |-> FALSE]
Command == [what |-> Doing, verify |-> req.verify, synced |-> synced]
NoCommand == [what |-> "none", verify |-> FALSE, synced |-> FALSE]

\* What the target prints.
Token(kind, of) == [kind |-> kind, of |-> of]
Invite == Token("invite", "none")
Prompt == Token("prompt", "none")
Banner == Token("banner", "none")
Complaint(c) == Token("bad", c)
Answer(c) == Token("ok", c)

Heard(tok) == \E i \in DOMAIN heard : heard[i] = tok
EndsInPrompt == heard # <<>> /\ heard[Len(heard)] = Prompt

Init ==
    /\ pc = "idle"
    /\ step = 1
    /\ req = [rpc |-> "netboot", verify |-> FALSE, cycle |-> FALSE]
    /\ attempts = 0
    /\ heard = <<>>
    /\ scroll = <<>>
    /\ calls = 0
    /\ synced = FALSE
    /\ mode = "flash"
    /\ cur = NoCommand
    /\ typed = <<>>
    /\ line = <<>>
    /\ loaded = "none"
    /\ ran = [cmd |-> NoCommand, image |-> "none"]

-----------------------------------------------------------------------------
(* The orchestrator.                                                       *)

Listening == pc \in {"awaitInvite", "awaitPrompt", "write", "expect"}

Requests ==
    [rpc : {"netboot"}, verify : BOOLEAN, cycle : BOOLEAN]
      \cup [rpc : {"interrupt"}, verify : {FALSE}, cycle : BOOLEAN]
      \cup [rpc : {"command"}, verify : {FALSE}, cycle : {FALSE}]

\* An RPC begins: Netboot may, InterruptBoot always does interrupt the boot.
CallStarts ==
    /\ pc = "idle"
    /\ calls < MaxCalls
    /\ req' \in Requests
    /\ pc' = IF req'.cycle THEN "cycle"
             ELSE IF req'.rpc = "interrupt" THEN "subscribeInvite" ELSE "subscribe"
    /\ calls' = calls + 1
    /\ step' = 1
    /\ attempts' = 0
    /\ heard' = <<>>
    /\ UNCHANGED <<synced, scroll, target, line>>

\* power.Cycle: the hook clears the scrollback, then the outlet goes off and the
\* target forgets everything.  What it printed before may still be on its way.
PowerOff ==
    /\ pc = "cycle"
    /\ pc' = "off"
    /\ scroll' = <<>>
    /\ mode' = "off"
    /\ cur' = NoCommand
    /\ typed' = <<>>
    /\ loaded' = "none"
    /\ synced' = FALSE
    /\ UNCHANGED <<step, req, attempts, heard, calls, line, ran>>

\* The outlet goes on after the off time, which outlasts the serial line.
PowerOn ==
    /\ pc = "off"
    /\ line = <<>>
    /\ pc' = "subscribeInvite"
    /\ mode' = "starting"
    /\ UNCHANGED <<step, req, attempts, heard, calls, synced, scroll, cur, typed, loaded, ran, line>>

\* WaitForPattern(interruptRE, 0) subscribes after the cycle.
AwaitInvite ==
    /\ pc = "subscribeInvite"
    /\ pc' = "awaitInvite"
    /\ heard' = <<>>
    /\ UNCHANGED <<step, req, attempts, calls, synced, scroll, target, line>>

\* Each attempt sends the key and looks for the prompt, in the scrollback too.
SendKey ==
    /\ \/ pc = "awaitInvite" /\ Heard(Invite)
       \/ pc = "awaitPrompt"                     \* 750ms passed
    /\ attempts < MaxAttempts
    /\ attempts' = attempts + 1
    /\ typed' = Append(typed, Key)
    /\ heard' = scroll
    /\ pc' = "awaitPrompt"
    /\ UNCHANGED <<step, req, calls, synced, scroll, mode, cur, loaded, ran, line>>

AfterInterrupt == IF req.rpc = "interrupt" THEN "done" ELSE "subscribe"

\* Variant: the boot is taken for interrupted once the keys are sent.
InterruptedBlind ==
    /\ pc = "awaitPrompt"
    /\ pc' = AfterInterrupt
    /\ heard' = <<>>
    /\ synced' = (synced \/ req.cycle)
    /\ UNCHANGED <<step, req, attempts, calls, scroll, target, line>>

Interrupted ==
    /\ pc = "awaitPrompt"
    /\ EndsInPrompt
    /\ pc' = AfterInterrupt
    /\ heard' = <<>>
    /\ synced' = (synced \/ req.cycle)
    /\ UNCHANGED <<step, req, attempts, calls, scroll, target, line>>

\* sendAndExpect subscribes, then writes.
SendSubscribe ==
    /\ pc = "subscribe"
    /\ pc' = "write"
    /\ heard' = <<>>
    /\ UNCHANGED <<step, req, attempts, calls, synced, scroll, target, line>>

SendWrite ==
    /\ pc = "write"
    /\ pc' = "expect"
    /\ typed' = Append(typed, Command)
    /\ UNCHANGED <<step, req, attempts, heard, calls, synced, scroll, mode, cur, loaded, ran, line>>

\* Variant: crc32 is run without error markers.
ComplainsNotOfCrc(c) == c # "crc" /\ Heard(Complaint(c))

\* runChecked: the complaints that the error markers of command c match.
Complains(c) ==
    \/ c # "env" /\ Heard(Complaint(c))
    \/ c = "crc" /\ Heard(Complaint("tftp"))   \* "TFTP error" has "error" in it

NextStep == IF Script[step] = "tftp" /\ ~req.verify THEN step + 2 ELSE step + 1

CommandDone ==
    /\ pc = "expect"
    /\ Doing # "boot"
    /\ EndsInPrompt
    /\ CASE Doing = "any" -> pc' = "done" /\ UNCHANGED step
         [] Doing # "any" /\ Complains(Doing) -> pc' = "failed" /\ UNCHANGED step
         [] OTHER -> pc' = "subscribe" /\ step' = NextStep
    /\ UNCHANGED <<req, attempts, heard, calls, synced, scroll, target, line>>

\* Variant: the boot command is over when the prompt is back, like any other.
BootDoneAtPrompt ==
    /\ pc = "expect"
    /\ Doing = "boot"
    /\ Heard(Banner) \/ EndsInPrompt
    /\ pc' = "done"
    /\ UNCHANGED <<step, req, attempts, heard, calls, synced, scroll, target, line>>

\* The kernel banner, anywhere in what was heard.
BootDone ==
    /\ pc = "expect"
    /\ Doing = "boot"
    /\ Heard(Banner)
    /\ pc' = "done"
    /\ UNCHANGED <<step, req, attempts, heard, calls, synced, scroll, target, line>>

\* A timeout, a cancelled call, a failed cycle, a full subscriber queue.
HostFails ==
    /\ pc \in {"cycle", "off", "subscribeInvite", "awaitInvite", "awaitPrompt",
               "subscribe", "write", "expect"}
    /\ pc' = "failed"
    /\ synced' = FALSE
    /\ UNCHANGED <<step, req, attempts, heard, calls, scroll, target, line>>

Booted == pc = "done" /\ req.rpc = "netboot"

CallReturns ==
    /\ pc \in {"done", "failed"}
    /\ pc' = "idle"
    /\ heard' = <<>>
    /\ synced' = (synced /\ ~Booted)
    /\ UNCHANGED <<step, req, attempts, calls, scroll, target, line>>

-----------------------------------------------------------------------------
\* What the host waits for is in what it heard; it listens no further.
Matched ==
    \/ pc = "awaitInvite" /\ Heard(Invite)
    \/ pc = "awaitPrompt" /\ EndsInPrompt
    \/ pc \in {"write", "expect"} /\ Doing # "boot" /\ EndsInPrompt
    \/ pc \in {"write", "expect"} /\ Doing = "boot" /\ Heard(Banner)

\* The console delivers a chunk: some of what the target printed.
Deliver ==
    /\ \E n \in 1 .. Len(line) :
         /\ line' = SubSeq(line, n + 1, Len(line))
         /\ scroll' = <<line[n]>>
         /\ heard' = IF Listening /\ ~Matched THEN heard \o SubSeq(line, 1, n) ELSE heard
    /\ UNCHANGED <<pc, step, req, attempts, calls, synced, target>>

-----------------------------------------------------------------------------
(* The target.                                                             *)

Prints(toks) == line' = line \o toks

TargetInvites ==
    /\ mode = "starting"
    /\ mode' = "autoboot"
    /\ Prints(<<Invite>>)
    /\ UNCHANGED <<host, scroll, cur, typed, loaded, ran>>

\* Nobody pressed the key in time: the image in flash starts.
TargetAutoboots ==
    /\ mode = "autoboot"
    /\ mode' = "flash"
    /\ Prints(<<Banner>>)
    /\ UNCHANGED <<host, scroll, cur, typed, loaded, ran>>

\* It reads the key: an extra one at the prompt is harmless.
TargetReadsKey ==
    /\ typed # <<>>
    /\ Head(typed) = Key
    /\ typed' = Tail(typed)
    /\ IF mode = "autoboot"
         THEN mode' = "prompt" /\ Prints(<<Prompt>>)
         ELSE UNCHANGED <<mode, line>>
    /\ UNCHANGED <<host, scroll, cur, loaded, ran>>

TargetReadsCommand ==
    /\ mode = "prompt"
    /\ typed # <<>>
    /\ Head(typed) # Key
    /\ mode' = "busy"
    /\ cur' = Head(typed)
    /\ typed' = Tail(typed)
    /\ UNCHANGED <<host, scroll, line, loaded, ran>>

\* Input nobody reads, or that a running command swallows.
TargetLosesInput ==
    /\ typed # <<>>
    /\ mode \notin {"prompt"}
    /\ Head(typed) # Key
    /\ typed' = Tail(typed)
    /\ UNCHANGED <<host, scroll, line, mode, cur, loaded, ran>>

\* A command ends in an answer or a complaint, and a prompt.
TargetAnswers(good) ==
    /\ mode = "busy"
    /\ mode' = "prompt"
    /\ Prints(<<IF good THEN Answer(cur.what) ELSE Complaint(cur.what), Prompt>>)
    /\ cur' = NoCommand
    /\ UNCHANGED <<host, scroll, typed, ran>>

\* setenv and dhcp
TargetSets ==
    /\ cur.what \in {"ethact", "dhcp", "env"}
    /\ \E good \in BOOLEAN : TargetAnswers(good)
    /\ UNCHANGED loaded

\* A transfer may fail, or load what is not the image that was listed.
TargetTftp ==
    /\ cur.what = "tftp"
    /\ \/ TargetAnswers(FALSE) /\ UNCHANGED loaded
       \/ TargetAnswers(TRUE) /\ loaded' \in {"intact", "corrupt"}

\* The caller's command may load or boot what it likes, or restart the target.
TargetObeys ==
    /\ cur.what = "any"
    /\ \/ \E good \in BOOLEAN :
            TargetAnswers(good) /\ loaded' \in {loaded, "intact", "corrupt"}
       \/ /\ mode = "busy" /\ mode' = "starting"
          /\ cur' = NoCommand /\ loaded' = "none"
          /\ UNCHANGED <<host, scroll, typed, ran, line>>

TargetCrc == cur.what = "crc" /\ TargetAnswers(loaded = "intact") /\ UNCHANGED loaded

\* An image that is not the one uploaded may be refused, or run all the same.
TargetBoots ==
    /\ cur.what = "boot"
    /\ \/ loaded # "intact" /\ TargetAnswers(FALSE) /\ UNCHANGED loaded
       \/ /\ loaded # "none" /\ mode = "busy"
          /\ mode' = "kernel"
          /\ Prints(<<Banner>>)
          /\ ran' = [cmd |-> cur, image |-> loaded]
          /\ cur' = NoCommand
          /\ UNCHANGED <<host, scroll, typed, loaded>>

-----------------------------------------------------------------------------
Next ==
    \/ CallStarts \/ PowerOff \/ PowerOn \/ AwaitInvite \/ SendKey \/ Interrupted
    \/ SendSubscribe \/ SendWrite \/ CommandDone \/ BootDone
    \/ HostFails \/ CallReturns
    \/ Deliver
    \/ TargetInvites \/ TargetAutoboots \/ TargetReadsKey \/ TargetReadsCommand
    \/ TargetLosesInput \/ TargetObeys \/ TargetSets \/ TargetTftp \/ TargetCrc \/ TargetBoots

Spec == Init /\ [][Next]_vars

-----------------------------------------------------------------------------
(* Properties.                                                             *)

\* Every variable has its type.
TypeOK ==
    /\ pc \in {"idle", "cycle", "off", "subscribeInvite", "awaitInvite", "awaitPrompt",
               "subscribe", "write", "expect", "done", "failed"}
    /\ step \in 1 .. Len(Script)
    /\ req \in Requests
    /\ attempts \in 0 .. MaxAttempts
    /\ Len(scroll) <= 1
    /\ mode \in {"off", "starting", "autoboot", "prompt", "busy", "kernel", "flash"}
    /\ loaded \in {"none", "intact", "corrupt"}

\* From a power-cycled interrupt on, through any calls of which none gave up
\* waiting, the host and the boot loader are in step: between two commands the
\* target is at the prompt, has nothing left to execute and nothing left to
\* say (a late prompt would pass for the answer).  (The types are checked with it.)
InStep ==
    /\ TypeOK
    /\ (synced /\ pc \in {"idle", "subscribe", "write", "failed"}) =>
         /\ mode = "prompt"
         /\ \A i \in DOMAIN typed : typed[i] = Key
         /\ line = <<>>

\* While they are in step, verify_crc32 means that no image runs whose CRC the
\* boot loader found wrong, whatever earlier calls left behind.
SyncedBootIsVerified ==
    (ran.cmd.verify /\ ran.cmd.synced) => ran.image = "intact"

\* A netboot in step that is reported as booted is the netbooted kernel, not
\* the one in flash, though both print the same banner.
BootedIsNetbooted ==
    (Booted /\ synced) => mode = "kernel" /\ ran.cmd.synced

\* "Verify the CRC32 of the loaded image in U-Boot before booting": an image
\* with a wrong CRC is not run by a netboot with verify_crc32.  Violated when a
\* netboot without a power cycle follows one that timed out in a command: each
\* prompt is taken for the answer to the next command.
VerifyMeansVerified == ran.cmd.verify => ran.image = "intact"
=============================================================================
