------------------------------ MODULE Transfer ------------------------------
(***************************************************************************)
(* One file moved, or one command run, through the daemon: the client's    *)
(* loop over its file (internal/client), the handler and its goroutines    *)
(* (internal/server), the image store or the scp session behind it         *)
(* (internal/sshexec), and scp or the command on the target.               *)
(*                                                                         *)
(*   upload:    client --up--> feeder --pipe--> drain (Save, or scp -t)    *)
(*   download:  client <--down-- drain (scp -f)                            *)
(*                                                                         *)
(* A file is a number of chunks.  The program on the target may hang, its  *)
(* SSH server may stop answering without closing its connection, or the    *)
(* connection may be lost.                                                 *)
(***************************************************************************)
EXTENDS Naturals, Sequences

CONSTANTS Kinds,     \* the kinds of call tried: "image", "put", "get", "exec"
          MaxSize,   \* bound on the chunks of a file
          Window     \* messages a stream holds before its sender blocks

ASSUME KindsAssumption == Kinds \subseteq {"image", "put", "get", "exec"}
ASSUME WindowAssumption == Window \in Nat \ {0}
ASSUME SizeAssumption == MaxSize \in Nat

VARIABLES
  job,    \* the call: its kind, the announced size and what the file yields
  cli,    \* the client: where it is, chunks read or written, what it reports
  net,    \* the stream: messages up and down, and whether its context is done
  pipe,   \* the feeder goroutine and the two ends of its io.Pipe
  drain,  \* the consumer of the pipe: where it is, chunks moved, failed
  srv,    \* the handler: its status, deadline passed, close of the session sent
  rem     \* scp or the command on the target, its stdin and stdout, and whether
          \* it and its SSH server go on

vars == <<job, cli, net, pipe, drain, srv, rem>>

Uploads == {"image", "put"}

\* The turns of the scp protocol as the daemon takes them: an ack or a record
\* it tells or awaits, and the body.
SCPUpload == <<"await", "tell", "await", "body", "tell", "await">>
SCPDownload == <<"tell", "record", "tell", "body", "await", "tell">>

Script == CASE job.kind = "put" -> SCPUpload
            [] job.kind = "get" -> SCPDownload
            [] OTHER -> <<>>

\* The same turns as the target takes them.
Mirror == CASE job.kind = "put" ->
                 <<"tell", "await", "tell", "body", "await", "tell">>
            [] job.kind = "get" ->
                 <<"await", "record", "await", "body", "tell", "await">>
            [] OTHER -> <<>>

Init ==
    /\ \E k \in Kinds, n \in 0 .. MaxSize :
         \E f \in IF k \in Uploads THEN {n - 1, n, n + 1} \cap Nat ELSE {n} :
           job = [kind |-> k, size |-> n, file |-> f]
    /\ cli = [pc |-> IF job.kind \in Uploads THEN "send" ELSE "recv",
              n |-> 0, res |-> "none"]
    /\ net = [up |-> <<>>, down |-> <<>>, gone |-> FALSE]
    /\ pipe = [fd |-> IF job.kind \in Uploads THEN "recv" ELSE "end",
               w |-> "open", r |-> "open"]
    /\ drain = [pc |-> IF job.kind = "image" THEN "save" ELSE "dial",
                turn |-> 1, n |-> 0, bad |-> FALSE]
    /\ srv = [status |-> "none", late |-> FALSE, closed |-> FALSE]
    /\ rem = [turn |-> 1, n |-> 0, exit |-> "none", link |-> "answers",
              timed |-> FALSE, in |-> <<>>, out |-> <<>>]

Returned == srv.status # "none"
CtxDone == net.gone \/ srv.late

-----------------------------------------------------------------------------
(* The client.                                                             *)

Finish(r) == cli' = [cli EXCEPT !.pc = "done", !.res = r]

Send(m) ==
    /\ cli.pc = "send" /\ ~Returned /\ ~net.gone /\ Len(net.up) < Window
    /\ net' = [net EXCEPT !.up = Append(@, m)]
    /\ UNCHANGED <<job, pipe, drain, srv, rem>>

\* A chunk of the file is sent.
ClientSends ==
    /\ cli.n < job.file
    /\ cli' = [cli EXCEPT !.n = @ + 1]
    /\ Send("chunk")

\* At the end of the file the stream is closed, and the answer awaited.
ClientCloses ==
    /\ cli.n = job.file
    /\ cli' = [cli EXCEPT !.pc = "recv"]
    /\ Send("eof")

\* Send returns io.EOF once the handler has returned.
SendFails ==
    /\ cli.pc = "send" /\ Returned
    /\ Finish("failed")
    /\ UNCHANGED <<job, net, pipe, drain, srv, rem>>

\* The local file cannot be read, or written: the stream stays open.
FileFails ==
    /\ \/ cli.pc = "send"
       \/ job.kind = "get" /\ cli.pc = "recv" /\ net.down # <<>>
    /\ Finish("failed")
    /\ UNCHANGED <<job, net, pipe, drain, srv, rem>>

\* SCPDownloadFile writes what it receives; the status comes after the data.
ClientReceives ==
    /\ cli.pc = "recv"
    /\ IF net.down # <<>>
         THEN /\ cli' = [cli EXCEPT !.n = IF Head(net.down) = "chunk"
                                            THEN @ + 1 ELSE @]
              /\ net' = [net EXCEPT !.down = Tail(@)]
         ELSE /\ Returned
              /\ Finish(IF srv.status = "ok" THEN "ok" ELSE "failed")
              /\ UNCHANGED net
    /\ UNCHANGED <<job, pipe, drain, srv, rem>>

\* The caller gives up, the process exits, or the connection is lost.
ClientLeaves ==
    /\ ~net.gone
    /\ net' = [net EXCEPT !.gone = TRUE]
    /\ IF cli.pc = "done" THEN UNCHANGED cli ELSE Finish("failed")
    /\ UNCHANGED <<job, pipe, drain, srv, rem>>

-----------------------------------------------------------------------------
(* The feeder: UploadImage's own loop, SCPUpload's receiver goroutine.     *)

\* How the pipe is closed when Recv fails.
BrokenStream == "err"

FeederReceives ==
    /\ pipe.fd = "recv" /\ ~Returned /\ net.up # <<>>
    /\ pipe' = IF Head(net.up) = "chunk" THEN [pipe EXCEPT !.fd = "offer"]
               ELSE [pipe EXCEPT !.fd = "end", !.w = "eof"]
    /\ net' = [net EXCEPT !.up = Tail(@)]
    /\ UNCHANGED <<job, cli, drain, srv, rem>>

\* Recv fails when the stream's context ends, at the latest with the handler.
FeederBreaks ==
    /\ pipe.fd = "recv" /\ (net.gone \/ Returned)
    /\ pipe' = [pipe EXCEPT !.fd = "end", !.w = BrokenStream]
    /\ UNCHANGED <<job, cli, net, drain, srv, rem>>

\* pw.Write fails because the read end is closed.
FeederStops ==
    /\ pipe.fd = "offer" /\ pipe.r = "closed"
    /\ pipe' = [pipe EXCEPT !.fd = "end"]
    /\ UNCHANGED <<job, cli, net, drain, srv, rem>>

-----------------------------------------------------------------------------
(* UploadImage: Store.Save reads the pipe.                                 *)

\* Variant: a failed Save leaves the read end open.
SaveFailsOpen ==
    /\ drain.pc = "save"
    /\ drain' = [drain EXCEPT !.pc = "end", !.bad = TRUE]
    /\ UNCHANGED <<job, cli, net, pipe, srv, rem>>

\* Save fails: the name is taken or the disk is full.
SaveFails ==
    /\ drain.pc = "save"
    /\ drain' = [drain EXCEPT !.pc = "end", !.bad = TRUE]
    /\ pipe' = [pipe EXCEPT !.r = "closed"]
    /\ UNCHANGED <<job, cli, net, srv, rem>>

SaveReads ==
    /\ drain.pc = "save"
    /\ \/ /\ pipe.fd = "offer"
          /\ drain' = [drain EXCEPT !.n = @ + 1]
          /\ pipe' = [pipe EXCEPT !.fd = "recv"]
       \/ /\ pipe.w = "eof"
          /\ drain' = [drain EXCEPT !.pc = "end"]
          /\ UNCHANGED pipe
       \/ /\ pipe.w = "err"
          /\ drain' = [drain EXCEPT !.pc = "end", !.bad = TRUE]
          /\ pipe' = [pipe EXCEPT !.r = "closed"]
    /\ UNCHANGED <<job, cli, net, srv, rem>>

\* The handler has waited for Save and reports how it went.
UploadImage ==
    /\ job.kind = "image" /\ pipe.fd = "end" /\ drain.pc = "end" /\ ~Returned
    /\ srv' = [srv EXCEPT !.status =
                 IF pipe.w = "eof" /\ ~drain.bad THEN "ok" ELSE "failed"]
    /\ UNCHANGED <<job, cli, net, pipe, drain, rem>>

-----------------------------------------------------------------------------
(* SSHExec, SCPUpload and SCPDownload: a connection to the target.         *)

\* pr.CloseWithError: the receiver goroutine stops writing.
CloseReadEnd == [pipe EXCEPT !.r = "closed"]

Return(s) ==
    /\ srv' = [srv EXCEPT !.status = s]
    /\ drain' = [drain EXCEPT !.pc = "end"]
    /\ pipe' = IF job.kind = "put" THEN CloseReadEnd ELSE pipe
    /\ UNCHANGED <<job, cli, net, rem>>

\* The timeout of the call passes.
Late ==
    /\ job.kind # "image" /\ ~srv.late /\ ~Returned
    /\ srv' = [srv EXCEPT !.late = TRUE]
    /\ UNCHANGED <<job, cli, net, pipe, drain, rem>>

\* DialContext: bounded by the context and by its own timeout.
Dial ==
    /\ drain.pc = "dial"
    /\ \/ Return("failed")
       \/ /\ ~CtxDone
          /\ drain' = [drain EXCEPT !.pc = "shake"]
          /\ UNCHANGED <<job, cli, net, pipe, srv, rem>>

\* NewClientConn and NewSession know no context: the target answers, refuses,
\* or is lost.
Handshake ==
    /\ drain.pc = "shake"
    /\ \/ rem.exit = "lost" /\ Return("failed")
       \/ /\ rem.exit # "lost" /\ rem.link # "silent"
          /\ \/ Return("failed")
             \/ /\ drain' = [drain EXCEPT !.pc = "run"]
                /\ UNCHANGED <<job, cli, net, pipe, srv, rem>>

\* Variant: only the timeout closes the session, not the end of the stream.
WatchDeadline ==
    /\ drain.pc \in {"run", "wait"} /\ srv.late /\ ~srv.closed
    /\ srv' = [srv EXCEPT !.closed = TRUE]
    /\ UNCHANGED <<job, cli, net, pipe, drain, rem>>

\* The goroutine that watches the context closes the SSH session: it tells the
\* target so, and waits for nothing.
WatchContext ==
    /\ drain.pc \in {"run", "wait"} /\ CtxDone /\ ~srv.closed
    /\ srv' = [srv EXCEPT !.closed = TRUE]
    /\ UNCHANGED <<job, cli, net, pipe, drain, rem>>

\* Nothing more comes from the target: its SSH server has closed the session, or
\* the connection is lost.  Writes fail from this side's close on already.
Broken == rem.exit # "none"
Unwritable == srv.closed \/ Broken

Turn(t) == /\ drain.pc = "run" /\ drain.turn <= Len(Script)
           /\ Script[drain.turn] = t

Wait(b) == drain' = [drain EXCEPT !.pc = "wait", !.bad = b]
Advance == drain' = [drain EXCEPT !.turn = @ + 1]

\* A write on the remote stdin.
Tell ==
    /\ Turn("tell")
    /\ IF Unwritable THEN Wait(TRUE) /\ UNCHANGED rem
       ELSE Advance /\ rem' = [rem EXCEPT !.in = Append(@, "ok")]
    /\ UNCHANGED <<job, cli, net, pipe, srv>>

\* A read of the remote stdout: an "ok" leads on, anything else is an error, and
\* so is its end.
Read ==
    IF rem.out # <<>>
      THEN /\ IF Head(rem.out) = "ok" THEN Advance ELSE Wait(TRUE)
           /\ rem' = [rem EXCEPT !.out = Tail(@)]
      ELSE /\ Broken
           /\ Wait(TRUE)
           /\ UNCHANGED rem

\* Variant: the status after a body is not looked at.
AwaitUnread ==
    /\ Turn("await")
    /\ Advance
    /\ UNCHANGED <<job, cli, net, pipe, srv, rem>>

\* scpReadAck
Await ==
    /\ Turn("await")
    /\ Read
    /\ UNCHANGED <<job, cli, net, pipe, srv>>

\* SCPDownload's control lines: a time record is acked and skipped, the file
\* record is acked and passed on, anything else is an error.
Record ==
    /\ Turn("record")
    /\ IF rem.out # <<>> /\ Head(rem.out) = "time"
         THEN /\ rem' = [rem EXCEPT !.out = Tail(@), !.in = Append(@, "ok")]
              /\ UNCHANGED drain
         ELSE Read
    /\ UNCHANGED <<job, cli, net, pipe, srv>>

\* io.CopyN of the announced size from the pipe to the remote stdin.
BodyPut ==
    /\ job.kind = "put" /\ Turn("body")
    /\ \/ drain.n = job.size /\ Advance /\ UNCHANGED <<pipe, rem>>
       \/ /\ drain.n < job.size /\ pipe.fd = "offer"
          /\ pipe' = [pipe EXCEPT !.fd = "recv"]
          /\ IF Unwritable THEN Wait(TRUE) /\ UNCHANGED rem
             ELSE /\ drain' = [drain EXCEPT !.n = @ + 1]
                  /\ rem' = [rem EXCEPT !.in = Append(@, "chunk")]
       \/ /\ drain.n < job.size /\ pipe.w # "open"
          /\ Wait(TRUE)
          /\ UNCHANGED <<pipe, rem>>
    /\ UNCHANGED <<job, cli, net, srv>>

\* The sink of SCPDownload: the metadata, then chunks until the announced size
\* or the end of the output, which it takes for the end of the body.
BodyGet ==
    /\ job.kind = "get" /\ Turn("body")
    /\ \/ /\ drain.n = job.size \/ (rem.out = <<>> /\ Broken)
          /\ Advance
          /\ UNCHANGED <<net, rem>>
       \/ /\ drain.n < job.size /\ rem.out # <<>>
          /\ \/ /\ Len(net.down) < Window /\ ~net.gone
                /\ drain' = [drain EXCEPT !.n = @ + 1]
                /\ net' = [net EXCEPT !.down = Append(@, "chunk")]
             \/ net.gone /\ Wait(TRUE) /\ UNCHANGED net
          /\ rem' = [rem EXCEPT !.out = Tail(@)]
    /\ UNCHANGED <<job, cli, pipe, srv>>

\* The protocol is done (Run, for exec); its end of the session is awaited.
ScriptDone ==
    /\ drain.pc = "run" /\ drain.turn = Len(Script) + 1
    /\ Wait(FALSE)
    /\ UNCHANGED <<job, cli, net, pipe, srv, rem>>

\* Exec: the exit status, zero or not, is a result; a status that is missing
\* because the context is done is a timeout.
Exec == CASE srv.late -> "timedout"
          [] ~srv.late /\ rem.exit \in {"zero", "nonzero"} -> "ok"
          [] OTHER -> IF CtxDone THEN "timedout" ELSE "failed"

\* scpSession: after a copy that went well a missing exit status is no error,
\* and a lost connection has none.
ScpSession == IF CtxDone \/ drain.bad \/ rem.exit = "nonzero"
                THEN "failed" ELSE "ok"

\* session.Run or session.Wait returns, when the target has ended the session.
SessionEnds ==
    /\ drain.pc = "wait" /\ Broken
    /\ Return(IF job.kind = "exec" THEN Exec ELSE ScpSession)

-----------------------------------------------------------------------------
(* The target.                                                             *)

Running == /\ drain.pc \in {"run", "wait"}
           /\ rem.exit = "none" /\ rem.link = "answers"

MirrorTurn(t) == /\ Running /\ rem.turn <= Len(Mirror)
                 /\ Mirror[rem.turn] = t

\* scp says that all is well, or names an error and exits; a time record, at
\* most one, comes before the file record.
RemoteTells ==
    /\ MirrorTurn("tell") \/ MirrorTurn("record")
    /\ \/ rem' = [rem EXCEPT !.turn = @ + 1, !.out = Append(@, "ok")]
       \/ rem' = [rem EXCEPT !.out = Append(@, "bad"), !.exit = "nonzero"]
       \/ /\ MirrorTurn("record") /\ ~rem.timed
          /\ rem' = [rem EXCEPT !.turn = @ - 1, !.out = Append(@, "time"),
                               !.timed = TRUE]
    /\ UNCHANGED <<job, cli, net, pipe, drain, srv>>

\* scp reads an ack, or the end of its stdin.
RemoteAwaits ==
    /\ MirrorTurn("await")
    /\ \/ /\ rem.in # <<>>
          /\ rem' = [rem EXCEPT !.turn = @ + 1, !.in = Tail(@)]
       \/ /\ rem.in = <<>> /\ drain.pc = "wait"
          /\ rem' = [rem EXCEPT !.exit = "nonzero"]
    /\ UNCHANGED <<job, cli, net, pipe, drain, srv>>

\* The body comes in, or goes out.
RemoteBody ==
    /\ MirrorTurn("body")
    /\ \/ /\ rem.n = job.size
          /\ rem' = [rem EXCEPT !.turn = @ + 1]
       \/ /\ job.kind = "put" /\ rem.n < job.size /\ rem.in # <<>>
          /\ rem' = [rem EXCEPT !.n = @ + 1, !.in = Tail(@)]
       \/ /\ job.kind = "put" /\ rem.in = <<>> /\ drain.pc = "wait"
          /\ rem' = [rem EXCEPT !.exit = "nonzero"]
       \/ /\ job.kind = "get" /\ rem.n < job.size /\ Len(rem.out) < Window
          /\ rem' = [rem EXCEPT !.n = @ + 1, !.out = Append(@, "chunk")]
    /\ UNCHANGED <<job, cli, net, pipe, drain, srv>>

\* scp is done, or the command is; the exit status may be missing.
RemoteExits ==
    /\ Running /\ rem.turn = Len(Mirror) + 1
    /\ \E e \in {"zero", "missing"}
            \cup IF job.kind = "exec" THEN {"nonzero"} ELSE {} :
         rem' = [rem EXCEPT !.exit = e]
    /\ UNCHANGED <<job, cli, net, pipe, drain, srv>>

\* The SSH server answers the daemon's close with its own, whatever the program
\* does.
ServerCloses ==
    /\ drain.pc \in {"run", "wait"} /\ srv.closed
    /\ rem.exit = "none" /\ rem.link # "silent"
    /\ rem' = [rem EXCEPT !.exit = "missing"]
    /\ UNCHANGED <<job, cli, net, pipe, drain, srv>>

\* The program hangs, the SSH server stops answering, or its connection breaks.
RemoteFails ==
    /\ drain.pc # "save" /\ drain.pc # "end" /\ rem.exit = "none"
    /\ \/ rem.link = "answers" /\ rem' = [rem EXCEPT !.link = "stuck"]
       \/ rem.link # "silent" /\ rem' = [rem EXCEPT !.link = "silent"]
       \/ rem' = [rem EXCEPT !.exit = "lost"]
    /\ UNCHANGED <<job, cli, net, pipe, drain, srv>>

-----------------------------------------------------------------------------
Client == ClientSends \/ ClientCloses \/ SendFails \/ ClientReceives
Feeder == FeederReceives \/ FeederBreaks \/ FeederStops
Save == SaveReads \/ UploadImage
Session == Dial \/ Handshake \/ Tell \/ Await \/ Record
             \/ BodyPut \/ BodyGet \/ ScriptDone \/ SessionEnds
Remote == RemoteTells \/ RemoteAwaits \/ RemoteBody \/ RemoteExits \/ ServerCloses
Fault == FileFails \/ ClientLeaves \/ SaveFails \/ Late \/ RemoteFails

Next == Client \/ Feeder \/ Save \/ Session \/ WatchContext \/ Remote \/ Fault

Spec == Init /\ [][Next]_vars

\* Every goroutine is scheduled, the client's included while it has not
\* failed, and a target that answers goes on.  No timeout need ever pass.
FairSpec ==
    /\ Spec
    /\ WF_vars(Client) /\ WF_vars(Feeder) /\ WF_vars(Save)
    /\ WF_vars(Session) /\ WF_vars(WatchContext) /\ WF_vars(Remote)

-----------------------------------------------------------------------------
\* The variables have their types.
TypeOK ==
    /\ job \in [kind : Kinds, size : 0 .. MaxSize, file : 0 .. MaxSize + 1]
    /\ cli \in [pc : {"send", "recv", "done"}, n : 0 .. MaxSize + 1,
                res : {"none", "ok", "failed"}]
    /\ net.gone \in BOOLEAN
    /\ Len(net.up) <= Window /\ Len(net.down) <= Window
    /\ pipe \in [fd : {"recv", "offer", "end"}, w : {"open", "eof", "err"},
                 r : {"open", "closed"}]
    /\ drain \in [pc : {"save", "dial", "shake", "run", "wait", "end"},
                  turn : 1 .. 7, n : 0 .. MaxSize + 1, bad : BOOLEAN]
    /\ drain.n <= IF job.kind = "image" THEN job.file ELSE job.size
    /\ srv \in [status : {"none", "ok", "failed", "timedout"},
                late : BOOLEAN, closed : BOOLEAN]
    /\ rem.turn \in 1 .. 7 /\ rem.n \in 0 .. MaxSize
    /\ rem.exit \in {"none", "zero", "nonzero", "missing", "lost"}
    /\ rem.link \in {"answers", "stuck", "silent"}

\* An image that Save has made visible is the client's whole file: an upload
\* cut short anywhere between the file and the pipe leaves nothing (UploadImage
\* passes a Recv error on to Save).
StoredIsWhole ==
    job.kind = "image" /\ drain.pc = "end" /\ ~drain.bad => drain.n = job.file

\* A copy reported to the client is complete at its destination: every byte
\* announced was written there, and scp on the target said so (the final ack).
CopiedIsWhole ==
    cli.res = "ok" =>
      CASE job.kind = "image" -> drain.n = job.file
        [] job.kind = "put"   -> rem.n = job.size /\ rem.turn = 7
        [] job.kind = "get"   -> cli.n = job.size /\ rem.turn >= 6
        [] OTHER              -> rem.exit \in {"zero", "nonzero"}

\* Nothing partial is stored or reported.  (The types are checked with it.)
ArrivesWhole == TypeOK /\ StoredIsWhole /\ CopiedIsWhole

\* Of a call that was given up on nothing stays behind in the daemon, whatever the
\* program on the target does: its SSH server, as long as it answers, ends the
\* session when told to.
GivenUpEnds == net.gone ~> (Returned /\ pipe.fd = "end") \/ rem.link = "silent"

\* A call whose timeout passed ends likewise, but for one that waits, not for the
\* target, but for a client that failed and left its stream open: the timeout
\* ends neither the read of the pipe nor the Send.
LateEnds ==
    srv.late ~> \/ Returned
                \/ rem.link = "silent"
                \/ cli.pc = "done" /\ ~net.gone

\* The goroutine that receives an upload ends once its handler has returned.
ReceiverEnds == Returned ~> pipe.fd = "end"

\* The daemon is left with neither a handler nor a goroutine.
NothingStays == GivenUpEnds /\ LateEnds /\ ReceiverEnds

\* Client, handler, goroutines and target never all wait for one another: the
\* client gets an answer, without any timeout, unless the target stops.
CallEnds == <>(cli.pc = "done" \/ rem.link # "answers")
=============================================================================
