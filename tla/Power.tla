------------------------------- MODULE Power -------------------------------
(***************************************************************************)
(* Power control (internal/power apc.go, power.go, hook.go), as the        *)
(* PowerControl RPC drives it: concurrent calls, each a few SNMP exchanges *)
(* with the PDU, and the hook that clears the scrollback (ConsoleRing)     *)
(* before the outlet is switched off.                                      *)
(*                                                                         *)
(* The target prints while it has power; what it printed is on the line    *)
(* (the wire, the kernel's buffer, the read loop's) until it is published, *)
(* so the hook may clear the ring before the last of it has arrived.  An   *)
(* SNMP request is carried out, if at all, before the Set that sent it     *)
(* returns; its answer may be lost, so that the caller does not know.      *)
(***************************************************************************)
EXTENDS ConsoleRing

CONSTANT Calls     \* PowerControl requests, each made once at most

Actions == {"on", "off", "cycle", "status"}

VARIABLES
  line,    \* bytes printed and not yet published; the first is byte `next'
  outlet,  \* what the PDU's relay does: "on" or "off"
  boots,   \* history: how often the outlet went from off to on
  call     \* [c -> its action, the next step, the reply, and what it began at]

powerVars == <<outlet, boots>>
vars == <<ringVars, line, powerVars, call>>

Init ==
    /\ RingInit
    /\ line = 0
    /\ outlet = "on"
    /\ boots = 0
    /\ call = [c \in Calls |-> [action |-> "status", pc |-> "idle", reply |-> "none",
                                boots |-> 0, next |-> 1]]

Goto(c, pc) == call' = [call EXCEPT ![c].pc = pc]
Reply(c, r) == call' = [call EXCEPT ![c].pc = "done", ![c].reply = r]

\* The target has power and prints n bytes.
TargetPrints ==
    \E n \in 1 .. Cap + 1 :
      /\ outlet = "on" /\ next + line + n <= MaxBytes + 1
      /\ line' = line + n
      /\ UNCHANGED <<ringVars, powerVars, call>>

\* readLoop: some of what is on the line is read and published.
ReadLoop ==
    \E n \in 1 .. line :
      /\ Write([i \in 1 .. n |-> next + i - 1])
      /\ line' = line - n
      /\ UNCHANGED <<powerVars, call>>

\* PowerControl is called.
PowerControl(c, a) ==
    /\ call[c].pc = "idle"
    /\ call' = [call EXCEPT ![c] =
         [action |-> a, reply |-> "none", boots |-> boots, next |-> next,
          pc |-> CASE a \in {"off", "cycle"} -> "hook"
                   [] a = "on" -> "on"
                   [] a = "status" -> "query"]]
    /\ UNCHANGED <<ringVars, line, powerVars>>

\* Variant: Off alone is wrapped; the Off within a Cycle is the controller's.
HookOffOnly(c) ==
    /\ call[c].pc = "hook"
    /\ IF call[c].action = "off" THEN Reset ELSE UNCHANGED ringVars
    /\ Goto(c, "off")
    /\ UNCHANGED <<line, powerVars>>

\* hooked.Off, hooked.Cycle: console.Reset, then the controller's own.
Hook(c) ==
    /\ call[c].pc = "hook"
    /\ Reset
    /\ Goto(c, "off")
    /\ UNCHANGED <<line, powerVars>>

\* setCommand: done and answered, done but the answer lost or an error, or not
\* done.  Ok is what follows an answer.
Set(c, o, Ok) ==
    /\ \/ /\ outlet' = o
          /\ boots' = boots + IF outlet = "off" /\ o = "on" THEN 1 ELSE 0
          /\ Ok \/ Reply(c, "failed")
       \/ /\ UNCHANGED powerVars
          /\ Reply(c, "failed")
    /\ UNCHANGED <<ringVars, line>>

\* Variant: cycle goes on when switching off has failed.
OffUnchecked(c) ==
    /\ call[c].pc = "off"
    /\ \/ Set(c, "off", Goto(c, IF call[c].action = "off" THEN "query" ELSE "wait"))
       \/ /\ call[c].action = "cycle"
          /\ Goto(c, "wait")
          /\ UNCHANGED <<ringVars, line, powerVars>>

\* APC.Off
Off(c) ==
    /\ call[c].pc = "off"
    /\ Set(c, "off", Goto(c, IF call[c].action = "off" THEN "query" ELSE "wait"))

\* Variant: a done context ends the wait as if the time were up, and the call.
CycleWaitSilent(c) ==
    /\ call[c].pc = "wait"
    /\ Goto(c, "on") \/ Goto(c, "query")
    /\ UNCHANGED <<ringVars, line, powerVars>>

\* cycle waits for offFor, or until its context is done.
CycleWait(c) ==
    /\ call[c].pc = "wait"
    /\ Goto(c, "on") \/ Reply(c, "failed")
    /\ UNCHANGED <<ringVars, line, powerVars>>

\* APC.On
On(c) ==
    /\ call[c].pc = "on"
    /\ Set(c, "on", Goto(c, "query"))

\* APC.Status: a failed query is reported as an unknown state.
Status(c) ==
    /\ call[c].pc = "query"
    /\ Reply(c, outlet) \/ Reply(c, "unknown")
    /\ UNCHANGED <<ringVars, line, powerVars>>

Step(c) ==
    \/ \E a \in Actions : PowerControl(c, a)
    \/ Hook(c) \/ Off(c) \/ CycleWait(c) \/ On(c) \/ Status(c)

Next == TargetPrints \/ ReadLoop \/ \E c \in Calls : Step(c)

Spec == Init /\ [][Next]_vars

-----------------------------------------------------------------------------
Succeeded(c) == call[c].reply \in {"on", "off", "unknown"}
Quiet == \A c \in Calls : call[c].pc \in {"idle", "done"}

\* The variables have their types.
TypeOK ==
    /\ RingTypeOK
    /\ line \in 0 .. MaxBytes
    /\ outlet \in {"on", "off"}
    /\ boots \in Nat
    /\ call \in [Calls -> [action : Actions,
                           pc : {"idle", "hook", "off", "wait", "on", "query", "done"},
                           reply : {"none", "failed", "on", "off", "unknown"},
                           boots : Nat, next : Nat]]

\* A cycle that is reported done has rebooted the target, whatever the other
\* calls did meanwhile: the outlet went from off to on after the call began
\* (cycle, and PowerControl's error).
ReportedCycleRebooted ==
    \A c \in Calls : call[c].action = "cycle" /\ Succeeded(c)
                       => boots > call[c].boots

\* If the outlet is off and no call is at work, then someone asked for that, or
\* was told that his call failed.
DarkIsTold ==
    outlet = "off" /\ Quiet =>
      \E c \in Calls : call[c].action = "off" \/ call[c].reply = "failed"

\* A call that switched the outlet and reads back the opposite state was undone
\* by another call, one that switches it that way (Status follows the command).
OnlyAnotherCallUndoes ==
    \A c \in Calls :
      /\ call[c].action = "off" /\ call[c].reply = "on" =>
           \E d \in Calls \ {c} : call[d].action \in {"on", "cycle"}
      /\ call[c].action \in {"on", "cycle"} /\ call[c].reply = "off" =>
           \E d \in Calls \ {c} : call[d].action \in {"off", "cycle"}

\* Once a cycle or a power-off is reported done, nothing is left in the log of
\* what was in it when the call was made (hook.go:13: the hook must wrap Cycle
\* and not only the Off within it).  What was then still on the line, or is
\* printed up to the Off, may open the new log, though hook.go:9 has it start at
\* the last power event.
FreshLog ==
    \A c \in Calls :
      call[c].action \in {"off", "cycle"} /\ Succeeded(c) =>
        \A i \in 1 .. Len(written) : written[i] >= call[c].next
=============================================================================
