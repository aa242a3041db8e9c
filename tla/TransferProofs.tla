--------------------------- MODULE TransferProofs ---------------------------
(***************************************************************************)
(* Nothing partial is stored or reported: for every kind of call, every    *)
(* size of file and every window of a stream, ArrivesWhole holds.          *)
(*                                                                         *)
(* ArrivesWhole speaks of finished calls.  What makes it inductive is what *)
(* a call under way has established: each chunk of an image is on the      *)
(* stream, in the pipe or with Save (Stored), what was fetched is with the *)
(* client or on its way (Fetched), and the daemon has taken no more        *)
(* answers from the target than the target has given (Dialogue), so that   *)
(* the last one tells it that the target is done.                          *)
(***************************************************************************)
EXTENDS Transfer, SequenceTheorems, TLAPS

Results == {"none", "ok", "failed"}
Statuses == {"none", "ok", "failed", "timedout"}
Exits == {"none", "zero", "nonzero", "missing", "lost"}
UpMessages == {"chunk", "eof"}
DownMessages == {"chunk"}
Inputs == {"ok", "chunk"}
Outputs == {"ok", "bad", "time", "chunk"}

Jobs == [kind : Kinds, size : 0 .. MaxSize, file : 0 .. MaxSize + 1]
Clients == [pc : {"send", "recv", "done"}, n : Nat, res : Results]
Streams == [up : Seq(UpMessages), down : Seq(DownMessages), gone : BOOLEAN]
Pipes == [fd : {"recv", "offer", "end"}, w : {"open", "eof", "err"},
          r : {"open", "closed"}]
Drains == [pc : {"save", "dial", "shake", "run", "wait", "end"},
           turn : 1 .. 7, n : Nat, bad : BOOLEAN]
Handlers == [status : Statuses, late : BOOLEAN, closed : BOOLEAN]
Targets == [turn : 1 .. 7, n : Nat, exit : Exits, link : {"answers", "stuck", "silent"},
            timed : BOOLEAN, in : Seq(Inputs), out : Seq(Outputs)]

Typed ==
    /\ job \in Jobs /\ cli \in Clients /\ net \in Streams /\ pipe \in Pipes
    /\ drain \in Drains /\ srv \in Handlers /\ rem \in Targets
    /\ Len(net.up) <= Window /\ Len(net.down) <= Window

\* Which goroutine a kind of call has, and when it has returned.
Flow ==
    /\ job.kind = "image" => drain.pc \in {"save", "end"}
    /\ job.kind # "image" => drain.pc # "save"
    /\ job.kind \notin Uploads => (cli.pc # "send" /\ pipe.fd = "end")
    /\ drain.bad => drain.pc \in {"wait", "end"}
    /\ (drain.pc = "wait" /\ ~drain.bad) => drain.turn = Len(Script) + 1
    /\ Returned => drain.pc = "end"
    /\ cli.res # "none" => cli.pc = "done"

\* The end of the stream is the last message, and follows the whole file.
Stream ==
    /\ \A i \in 1 .. Len(net.up) :
         net.up[i] = "eof" =>
           (i = Len(net.up) /\ cli.pc # "send" /\ cli.n = job.file)
    /\ job.kind \in Uploads => cli.n <= job.file
    /\ job.kind \notin Uploads => net.up = <<>>

Bit(b) == IF b THEN 1 ELSE 0

Eof == Len(net.up) > 0 /\ net.up[Len(net.up)] = "eof"

\* Every chunk of an image is on the stream, in the pipe or in the store.
Stored ==
    job.kind = "image" =>
      /\ pipe.fd # "end" =>
           cli.n = drain.n + Bit(pipe.fd = "offer") + Len(net.up) - Bit(Eof)
      /\ drain.n <= job.file
      /\ pipe.w = "eof" => (pipe.fd = "end" /\ drain.n = job.file)
      /\ (drain.pc = "end" /\ ~drain.bad) => pipe.w = "eof"

\* What was downloaded is with the client or on its way.
Fetched ==
    /\ job.kind = "get" => cli.n + Len(net.down) = drain.n
    /\ job.kind # "get" => net.down = <<>>
    /\ job.kind = "exec" => cli.n = 0

\* The answers that a side has given, or taken, when it comes to a turn.
Answers(t) == IF job.kind = "put" THEN Bit(t >= 2) + Bit(t >= 4) + Bit(t >= 7)
              ELSE IF job.kind = "get" THEN Bit(t >= 3) + Bit(t >= 6)
              ELSE 0

\* The chunks of a download are answers too.
Chunks(n) == IF job.kind = "get" THEN n ELSE 0

\* A time record is about to be read.
Timing == Len(rem.out) > 0 /\ rem.out[1] = "time"

Sent == Answers(rem.turn) + Chunks(rem.n) + Bit(Timing) + Bit(rem.exit = "nonzero")
Taken == Answers(drain.turn) + Chunks(drain.n)

\* What the daemon has taken, and may still take, the target has sent.
Dialogue ==
    /\ Taken + Len(rem.out) <= Sent
    /\ \A i \in 1 .. Len(rem.out) : rem.out[i] = "time" => i = 1
    /\ Timing => (rem.timed /\ drain.turn <= 2 /\ job.kind = "get")
    /\ job.kind = "exec" => drain.n = 0
    /\ job.kind \notin {"put", "get"} =>
         (drain.turn = 1 /\ rem.turn = 1 /\ rem.out = <<>>)

\* How far each side has come with the body.
Bodies ==
    /\ rem.n <= job.size
    /\ job.kind # "image" => drain.n <= job.size
    /\ (job.kind = "put" /\ rem.turn >= 5) => rem.n = job.size
    /\ (job.kind = "get" /\ rem.turn <= 3) => rem.n = 0
    /\ (job.kind = "get" /\ drain.turn = 5 /\ drain.n # job.size) =>
         (rem.out = <<>> /\ Broken)
    /\ (job.kind = "get" /\ drain.turn >= 6) => drain.n = job.size

\* What a call that went well has moved.
Success ==
    srv.status = "ok" =>
      /\ job.kind = "image" => drain.n = job.file
      /\ job.kind = "put" => (rem.n = job.size /\ rem.turn = 7)
      /\ job.kind = "get" => (drain.n = job.size /\ rem.turn >= 6)
      /\ job.kind = "exec" => rem.exit \in {"zero", "nonzero"}

\* The client is told no more.
Reported ==
    cli.res = "ok" => (srv.status = "ok" /\ (job.kind = "get" => cli.n = job.size))

IInv ==
    /\ Typed /\ Flow /\ Stream /\ Stored /\ Fetched
    /\ Dialogue /\ Bodies /\ Success /\ Reported

-----------------------------------------------------------------------------
(* Queues, and the turns of the protocol.                                  *)

\* A message more.
LEMMA Pushed ==
  ASSUME NEW S, NEW s \in Seq(S), NEW m \in S
  PROVE  /\ Append(s, m) \in Seq(S) /\ Len(Append(s, m)) = Len(s) + 1
         /\ \A i \in 1 .. Len(s) : Append(s, m)[i] = s[i]
         /\ Append(s, m)[Len(s) + 1] = m
         /\ Len(s) \in Nat
BY AppendProperties, LenProperties

\* A message less.
LEMMA Popped ==
  ASSUME NEW S, NEW s \in Seq(S), s # <<>>
  PROVE  /\ Head(s) = s[1] /\ Head(s) \in S
         /\ Tail(s) \in Seq(S) /\ Len(Tail(s)) = Len(s) - 1
         /\ \A i \in 1 .. Len(s) - 1 : Tail(s)[i] = s[i + 1]
         /\ Len(s) \in Nat /\ Len(s) >= 1
<1>1. Len(s) \in Nat /\ Len(s) # 0
  BY EmptySeq, LenProperties
<1>2. Head(s) = s[1] /\ Head(s) \in S /\ Tail(s) \in Seq(S)
      /\ Len(Tail(s)) = Len(s) - 1
      /\ \A i \in 1 .. Len(Tail(s)) : Tail(s)[i] = s[i + 1]
  BY HeadTailProperties
<1> QED
  BY <1>1, <1>2

\* An empty queue has no message.
LEMMA Emptied ==
  ASSUME NEW S, NEW s \in Seq(S)
  PROVE  Len(s) \in Nat /\ (s = <<>> <=> Len(s) = 0)
BY EmptySeq, LenProperties

\* The turns at which the daemon writes, reads and moves the body.
LEMMA Turns ==
  ASSUME Typed
  PROVE  /\ Turn("tell") => \/ job.kind = "put" /\ drain.turn \in {2, 5}
                            \/ job.kind = "get" /\ drain.turn \in {1, 3, 6}
         /\ Turn("await") => \/ job.kind = "put" /\ drain.turn \in {1, 3, 6}
                             \/ job.kind = "get" /\ drain.turn = 5
         /\ Turn("record") => job.kind = "get" /\ drain.turn = 2
         /\ Turn("body") => job.kind \in {"put", "get"} /\ drain.turn = 4
         /\ Len(Script) = IF job.kind \in {"put", "get"} THEN 6 ELSE 0
         /\ \A t : Turn(t) => drain.pc = "run"
<1>1. drain.turn \in 1 .. 7
  BY DEF Typed, Drains
<1>2. CASE job.kind = "put"
  <2>1. Script = <<"await", "tell", "await", "body", "tell", "await">>
    BY <1>2 DEF Script, SCPUpload
  <2> QED
    BY <1>1, <1>2, <2>1 DEF Turn
<1>3. CASE job.kind = "get"
  <2>1. Script = <<"tell", "record", "tell", "body", "await", "tell">>
    BY <1>3 DEF Script, SCPDownload
  <2> QED
    BY <1>1, <1>3, <2>1 DEF Turn
<1>4. CASE job.kind \notin {"put", "get"}
  <2>1. Script = <<>>
    BY <1>4 DEF Script
  <2> QED
    BY <1>1, <1>4, <2>1 DEF Turn
<1> QED
  BY <1>2, <1>3, <1>4

\* The same for the target.
LEMMA MirrorTurns ==
  ASSUME Typed
  PROVE  /\ MirrorTurn("tell") => \/ job.kind = "put" /\ rem.turn \in {1, 3, 6}
                                  \/ job.kind = "get" /\ rem.turn = 5
         /\ MirrorTurn("await") => \/ job.kind = "put" /\ rem.turn \in {2, 5}
                                   \/ job.kind = "get" /\ rem.turn \in {1, 3, 6}
         /\ MirrorTurn("record") => job.kind = "get" /\ rem.turn = 2
         /\ MirrorTurn("body") => job.kind \in {"put", "get"} /\ rem.turn = 4
         /\ Len(Mirror) = IF job.kind \in {"put", "get"} THEN 6 ELSE 0
         /\ \A t : MirrorTurn(t) => Running
<1>1. rem.turn \in 1 .. 7
  BY DEF Typed, Targets
<1>2. CASE job.kind = "put"
  <2>1. Mirror = <<"tell", "await", "tell", "body", "await", "tell">>
    BY <1>2 DEF Mirror
  <2> QED
    BY <1>1, <1>2, <2>1 DEF MirrorTurn
<1>3. CASE job.kind = "get"
  <2>1. Mirror = <<"await", "record", "await", "body", "tell", "await">>
    BY <1>3 DEF Mirror
  <2> QED
    BY <1>1, <1>3, <2>1 DEF MirrorTurn
<1>4. CASE job.kind \notin {"put", "get"}
  <2>1. Mirror = <<>>
    BY <1>4 DEF Mirror
  <2> QED
    BY <1>1, <1>4, <2>1 DEF MirrorTurn
<1> QED
  BY <1>2, <1>3, <1>4

\* The kinds there are, and how long a file is.
LEMMA JobFacts ==
  ASSUME Typed
  PROVE  /\ job.kind \in {"image", "put", "get", "exec"}
         /\ job.size \in Nat /\ job.size <= MaxSize
         /\ job.file \in Nat /\ job.file <= MaxSize + 1
         /\ cli.n \in Nat /\ drain.n \in Nat /\ rem.n \in Nat
         /\ drain.turn \in 1 .. 7 /\ rem.turn \in 1 .. 7
<1>1. job.kind \in Kinds /\ job.size \in 0 .. MaxSize /\ job.file \in 0 .. MaxSize + 1
      /\ cli.n \in Nat /\ drain.n \in Nat /\ rem.n \in Nat
      /\ drain.turn \in 1 .. 7 /\ rem.turn \in 1 .. 7
  BY DEF Typed, Jobs, Clients, Drains, Targets
<1>2. job.kind \in {"image", "put", "get", "exec"}
  BY <1>1, KindsAssumption
<1>3. job.size \in Nat /\ job.size <= MaxSize /\ job.file \in Nat /\ job.file <= MaxSize + 1
  BY <1>1, SizeAssumption
<1> QED
  BY <1>1, <1>2, <1>3

\* A part of the invariant stays true while what it speaks of stays the same.
LEMMA Kept ==
  ASSUME IInv, UNCHANGED job
  PROVE  /\ (UNCHANGED <<cli, pipe, drain>> /\ srv'.status = srv.status) => Flow'
         /\ (UNCHANGED cli /\ net'.up = net.up) => Stream'
         /\ (UNCHANGED <<cli, pipe, drain>> /\ net'.up = net.up) => Stored'
         /\ (cli'.n = cli.n /\ drain'.n = drain.n /\ net'.down = net.down) => Fetched'
         /\ (drain'.turn = drain.turn /\ drain'.n = drain.n /\ rem'.turn = rem.turn
             /\ rem'.n = rem.n /\ rem'.out = rem.out /\ rem'.timed = rem.timed
             /\ (rem.exit = "nonzero" => rem'.exit = "nonzero")) => Dialogue'
         /\ (drain'.turn = drain.turn /\ drain'.n = drain.n /\ rem'.turn = rem.turn
             /\ rem'.n = rem.n /\ rem'.out = rem.out
             /\ (Broken => Broken')) => Bodies'
         /\ (srv'.status = srv.status /\ drain'.n = drain.n /\ UNCHANGED rem) => Success'
         /\ (srv'.status = srv.status /\ ~Returned) => Success'
         /\ (cli'.res = cli.res /\ cli'.n = cli.n /\ srv'.status = srv.status) => Reported'
<1>1. (UNCHANGED <<cli, pipe, drain>> /\ srv'.status = srv.status) => Flow'
  BY DEF IInv, Flow, Script, Returned
<1>2. (UNCHANGED cli /\ net'.up = net.up) => Stream'
  BY DEF IInv, Stream
<1>3. (UNCHANGED <<cli, pipe, drain>> /\ net'.up = net.up) => Stored'
  BY DEF IInv, Stored, Eof, Bit
<1>4. (cli'.n = cli.n /\ drain'.n = drain.n /\ net'.down = net.down) => Fetched'
  BY DEF IInv, Fetched
<1>5. ASSUME drain'.turn = drain.turn, drain'.n = drain.n, rem'.turn = rem.turn,
             rem'.n = rem.n, rem'.out = rem.out, rem'.timed = rem.timed,
             rem.exit = "nonzero" => rem'.exit = "nonzero"
      PROVE  Dialogue'
  <2>1. Taken' = Taken /\ Timing' = Timing
    BY <1>5 DEF Taken, Timing, Answers, Chunks, Bit
  <2>2. Answers(rem.turn)' = Answers(rem.turn) /\ Chunks(rem.n)' = Chunks(rem.n)
    BY <1>5 DEF Answers, Chunks, Bit
  <2>3. Bit(rem.exit = "nonzero") \in 0 .. 1 /\ Bit(rem.exit = "nonzero")' \in 0 .. 1
        /\ Bit(rem.exit = "nonzero") <= Bit(rem.exit = "nonzero")'
    BY <1>5 DEF Bit
  <2>4. Answers(rem.turn) \in Nat /\ Chunks(rem.n) \in Nat /\ Bit(Timing) \in Nat
        /\ Bit(Timing)' = Bit(Timing)
    BY <2>1, JobFacts DEF IInv, Answers, Chunks, Bit
  <2>5. Taken \in Nat /\ Len(rem.out) \in Nat
    BY JobFacts, Emptied DEF IInv, Typed, Targets, Taken, Answers, Chunks, Bit
  <2>6. Sent <= Sent' /\ Sent \in Nat /\ Sent' \in Nat
    BY <2>2, <2>3, <2>4 DEF Sent
  <2>7. Taken' + Len(rem'.out) <= Sent'
    BY <1>5, <2>1, <2>5, <2>6 DEF IInv, Dialogue
  <2> QED
    BY <1>5, <2>1, <2>7 DEF IInv, Dialogue
<1>6. (drain'.turn = drain.turn /\ drain'.n = drain.n /\ rem'.turn = rem.turn
       /\ rem'.n = rem.n /\ rem'.out = rem.out /\ (Broken => Broken')) => Bodies'
  BY DEF IInv, Bodies
<1>7. (srv'.status = srv.status /\ drain'.n = drain.n /\ UNCHANGED rem) => Success'
  BY DEF IInv, Success
<1>8. (srv'.status = srv.status /\ ~Returned) => Success'
  BY DEF Success, Returned
<1>9. (cli'.res = cli.res /\ cli'.n = cli.n /\ srv'.status = srv.status) => Reported'
  BY DEF IInv, Reported
<1> QED
  BY <1>1, <1>2, <1>3, <1>4, <1>5, <1>6, <1>7, <1>8, <1>9

\* What the queues hold, and where everyone may be.
LEMMA Fields ==
  ASSUME Typed
  PROVE  /\ net.up \in Seq(UpMessages) /\ Len(net.up) \in Nat
         /\ net.down \in Seq(DownMessages) /\ Len(net.down) \in Nat
         /\ rem.out \in Seq(Outputs) /\ Len(rem.out) \in Nat
         /\ rem.in \in Seq(Inputs)
         /\ pipe.fd \in {"recv", "offer", "end"} /\ pipe.w \in {"open", "eof", "err"}
         /\ drain.bad \in BOOLEAN /\ rem.timed \in BOOLEAN
         /\ cli.res \in Results /\ srv.status \in Statuses
<1>1. /\ net.up \in Seq(UpMessages) /\ net.down \in Seq(DownMessages)
      /\ rem.out \in Seq(Outputs) /\ rem.in \in Seq(Inputs)
      /\ pipe.fd \in {"recv", "offer", "end"} /\ pipe.w \in {"open", "eof", "err"}
      /\ drain.bad \in BOOLEAN /\ rem.timed \in BOOLEAN
      /\ cli.res \in Results /\ srv.status \in Statuses
  BY DEF Typed, Streams, Targets, Pipes, Drains, Clients, Handlers
<1> QED
  BY <1>1, LenProperties

-----------------------------------------------------------------------------
(* The client.                                                             *)

\* A chunk more on the stream, a chunk less in the file.
LEMMA ClientSendsKeeps ==
  ASSUME IInv, ClientSends
  PROVE  IInv'
<1>1. /\ cli.pc = "send" /\ ~Returned /\ Len(net.up) < Window /\ cli.n < job.file
      /\ cli'.pc = "send" /\ cli'.n = cli.n + 1 /\ cli'.res = cli.res
      /\ net'.up = Append(net.up, "chunk") /\ net'.down = net.down
      /\ UNCHANGED <<job, pipe, drain, srv, rem>>
  BY DEF IInv, Typed, Clients, Streams, ClientSends, Send
<1>2. /\ net'.up \in Seq(UpMessages) /\ Len(net'.up) = Len(net.up) + 1
      /\ \A i \in 1 .. Len(net.up) : net'.up[i] = net.up[i]
      /\ net'.up[Len(net.up) + 1] = "chunk"
      /\ Len(net.up) \in Nat
  <2>1. "chunk" \in UpMessages /\ net.up \in Seq(UpMessages)
    BY Fields DEF IInv, UpMessages
  <2> QED
    BY <1>1, <2>1, Pushed
<1>3. \A i \in 1 .. Len(net.up) : net.up[i] # "eof"
  BY <1>1 DEF IInv, Stream
<1>4. ~Eof /\ ~Eof'
  <2>1. ~Eof
    BY <1>2, <1>3 DEF Eof
  <2> QED
    BY <1>2, <2>1 DEF Eof
<1>5. Typed'
  <2>1. cli' \in Clients
    BY JobFacts DEF IInv, Typed, Clients, ClientSends, Send
  <2>2. net' \in Streams
    BY <1>1, <1>2 DEF IInv, Typed, Streams, ClientSends, Send
  <2>3. Len(net'.up) <= Window
    BY <1>1, <1>2, WindowAssumption
  <2> QED
    BY <1>1, <2>1, <2>2, <2>3 DEF IInv, Typed
<1>6. Flow'
  BY <1>1 DEF IInv, Flow, Script, Returned
<1>7. Stream'
  <2>1. \A i \in 1 .. Len(net'.up) : net'.up[i] # "eof"
    BY <1>2, <1>3
  <2>2. cli.n + 1 <= job.file
    BY <1>1, JobFacts DEF IInv
  <2>3. job.kind \in Uploads
    BY <1>1 DEF IInv, Flow
  <2> QED
    BY <1>1, <2>1, <2>2, <2>3 DEF Stream
<1>8. Stored'
  <2>1. ASSUME job.kind = "image", pipe.fd # "end"
        PROVE  cli'.n = drain.n + Bit(pipe.fd = "offer") + Len(net'.up) - Bit(Eof')
    <3>1. cli.n = drain.n + Bit(pipe.fd = "offer") + Len(net.up)
      BY <1>4, <2>1, JobFacts, Fields DEF IInv, Stored, Bit
    <3>2. Bit(pipe.fd = "offer") \in Nat /\ Bit(Eof') = 0
      BY <1>4 DEF Bit
    <3> QED
      BY <1>1, <1>2, <3>1, <3>2, JobFacts DEF IInv
  <2> QED
    BY <1>1, <2>1 DEF IInv, Stored, Bit
<1>9. Fetched'
  <2>1. job.kind \in Uploads
    BY <1>1 DEF IInv, Flow
  <2> QED
    BY <1>1, <2>1 DEF IInv, Fetched, Uploads
<1>10. Dialogue' /\ Bodies' /\ Success'
  BY <1>1, Kept DEF Broken
<1>11. Reported'
  BY <1>1 DEF IInv, Flow, Reported
<1> QED
  BY <1>5, <1>6, <1>7, <1>8, <1>9, <1>10, <1>11 DEF IInv

\* The end of the stream follows the last chunk.
LEMMA ClientClosesKeeps ==
  ASSUME IInv, ClientCloses
  PROVE  IInv'
<1>1. /\ cli.pc = "send" /\ ~Returned /\ Len(net.up) < Window /\ cli.n = job.file
      /\ cli'.pc = "recv" /\ cli'.n = cli.n /\ cli'.res = cli.res
      /\ net'.up = Append(net.up, "eof") /\ net'.down = net.down
      /\ UNCHANGED <<job, pipe, drain, srv, rem>>
  BY DEF IInv, Typed, Clients, Streams, ClientCloses, Send
<1>2. /\ net'.up \in Seq(UpMessages) /\ Len(net'.up) = Len(net.up) + 1
      /\ \A i \in 1 .. Len(net.up) : net'.up[i] = net.up[i]
      /\ net'.up[Len(net.up) + 1] = "eof"
      /\ Len(net.up) \in Nat
  <2>1. "eof" \in UpMessages /\ net.up \in Seq(UpMessages)
    BY Fields DEF IInv, UpMessages
  <2> QED
    BY <1>1, <2>1, Pushed
<1>3. \A i \in 1 .. Len(net.up) : net.up[i] # "eof"
  BY <1>1 DEF IInv, Stream
<1>4. ~Eof /\ Eof'
  <2>1. ~Eof
    BY <1>2, <1>3 DEF Eof
  <2> QED
    BY <1>2, <2>1 DEF Eof
<1>5. Typed'
  <2>1. cli' \in Clients
    BY JobFacts DEF IInv, Typed, Clients, ClientCloses, Send
  <2>2. net' \in Streams
    BY <1>1, <1>2 DEF IInv, Typed, Streams, ClientCloses, Send
  <2>3. Len(net'.up) <= Window
    BY <1>1, <1>2, WindowAssumption
  <2> QED
    BY <1>1, <2>1, <2>2, <2>3 DEF IInv, Typed
<1>6. Flow'
  BY <1>1 DEF IInv, Flow, Script, Returned
<1>7. Stream'
  <2>1. \A i \in 1 .. Len(net'.up) : net'.up[i] = "eof" => i = Len(net'.up)
    BY <1>2, <1>3
  <2>2. job.kind \in Uploads /\ cli.n <= job.file
    BY <1>1 DEF IInv, Flow, Stream
  <2> QED
    BY <1>1, <2>1, <2>2 DEF Stream
<1>8. Stored'
  <2>1. ASSUME job.kind = "image", pipe.fd # "end"
        PROVE  cli'.n = drain.n + Bit(pipe.fd = "offer") + Len(net'.up) - Bit(Eof')
    <3>1. cli.n = drain.n + Bit(pipe.fd = "offer") + Len(net.up)
      BY <1>4, <2>1, JobFacts, Fields DEF IInv, Stored, Bit
    <3>2. Bit(pipe.fd = "offer") \in Nat /\ Bit(Eof') = 1
      BY <1>4 DEF Bit
    <3> QED
      BY <1>1, <1>2, <3>1, <3>2, JobFacts DEF IInv
  <2> QED
    BY <1>1, <2>1 DEF IInv, Stored, Bit
<1>9. Fetched' /\ Dialogue' /\ Bodies' /\ Success' /\ Reported'
  BY <1>1, Kept DEF Broken
<1> QED
  BY <1>5, <1>6, <1>7, <1>8, <1>9 DEF IInv

\* A client that gives up takes nothing with it.
LEMMA FailedKeeps ==
  ASSUME IInv, Finish("failed"), net'.up = net.up, net'.down = net.down,
         net' \in Streams, UNCHANGED <<job, pipe, drain, srv, rem>>
  PROVE  IInv'
<1>1. cli'.pc = "done" /\ cli'.n = cli.n /\ cli'.res = "failed" /\ cli' \in Clients
  BY DEF IInv, Typed, Clients, Results, Finish
<1>2. Typed'
  BY <1>1 DEF IInv, Typed
<1>3. Flow'
  BY <1>1 DEF IInv, Flow, Script, Returned
<1>4. Stream'
  BY <1>1 DEF IInv, Stream
<1>5. Stored'
  BY <1>1 DEF IInv, Stored, Eof, Bit
<1>6. Fetched' /\ Dialogue' /\ Bodies' /\ Success'
  BY <1>1, Kept DEF Broken
<1>7. Reported'
  BY <1>1 DEF Reported
<1> QED
  BY <1>2, <1>3, <1>4, <1>5, <1>6, <1>7 DEF IInv

\* The handler has returned before the file was sent.
LEMMA SendFailsKeeps ==
  ASSUME IInv, SendFails
  PROVE  IInv'
BY FailedKeeps DEF SendFails, IInv, Typed

\* The local file fails: the stream has no end.
LEMMA FileFailsKeeps ==
  ASSUME IInv, FileFails
  PROVE  IInv'
BY FailedKeeps DEF FileFails, IInv, Typed

\* The context of the stream ends.
LEMMA ClientLeavesKeeps ==
  ASSUME IInv, ClientLeaves
  PROVE  IInv'
<1>1. /\ net'.up = net.up /\ net'.down = net.down /\ net' \in Streams
      /\ UNCHANGED <<job, pipe, drain, srv, rem>>
  BY DEF IInv, Typed, Streams, ClientLeaves
<1>2. CASE UNCHANGED cli
  <2>1. Typed'
    BY <1>1, <1>2 DEF IInv, Typed
  <2> QED
    BY <1>1, <1>2, <2>1, Kept DEF IInv, Broken
<1>3. CASE Finish("failed")
  BY <1>1, <1>3, FailedKeeps
<1> QED
  BY <1>2, <1>3 DEF ClientLeaves

\* The client writes a chunk down, or learns the status after the last.
LEMMA ClientReceivesKeeps ==
  ASSUME IInv, ClientReceives
  PROVE  IInv'
<1>1. UNCHANGED <<job, pipe, drain, srv, rem>> /\ cli.pc = "recv"
  BY DEF ClientReceives
<1>2. CASE net.down # <<>>
  <2>1. Head(net.down) = "chunk" /\ Tail(net.down) \in Seq(DownMessages)
        /\ Len(Tail(net.down)) = Len(net.down) - 1 /\ Len(net.down) \in Nat
    BY <1>2, Fields, Popped DEF IInv, DownMessages
  <2>2. /\ cli'.pc = "recv" /\ cli'.n = cli.n + 1 /\ cli'.res = cli.res
        /\ cli' \in Clients
        /\ net'.up = net.up /\ net'.down = Tail(net.down) /\ net' \in Streams
    <3>1. cli' = [cli EXCEPT !.n = @ + 1] /\ net' = [net EXCEPT !.down = Tail(@)]
      BY <1>2, <2>1 DEF ClientReceives
    <3>2. cli.n + 1 \in Nat
      BY JobFacts DEF IInv
    <3> QED
      BY <1>1, <2>1, <3>1, <3>2 DEF IInv, Typed, Clients, Streams
  <2>3. job.kind = "get"
    BY <1>2 DEF IInv, Fetched
  <2>4. Typed'
    BY <1>1, <2>1, <2>2, WindowAssumption DEF IInv, Typed
  <2>5. Flow'
    BY <1>1, <2>2 DEF IInv, Flow, Script, Returned
  <2>6. Stream'
    <3>1. job.kind \notin Uploads
      BY <2>3 DEF Uploads
    <3>2. net.up = <<>> /\ Len(net.up) = 0
      BY <3>1 DEF IInv, Stream
    <3> QED
      BY <1>1, <2>2, <3>1, <3>2 DEF Stream
  <2>7. Stored'
    BY <1>1, <2>3 DEF Stored
  <2>8. Fetched'
    <3>1. PICK k \in Nat : k = Len(net.down)
      BY <2>1
    <3>2. cli.n + k = drain.n /\ cli.n \in Nat /\ Len(net'.down) = k - 1
      BY <2>1, <2>2, <2>3, <3>1, JobFacts DEF IInv, Fetched
    <3>3. cli.n + 1 + (k - 1) = drain.n
      BY <3>2
    <3> QED
      BY <1>1, <2>2, <2>3, <3>2, <3>3 DEF Fetched
  <2>9. Dialogue' /\ Bodies' /\ Success'
    BY <1>1, Kept DEF Broken
  <2>10. Reported'
    BY <1>1, <2>2 DEF IInv, Flow, Reported
  <2> QED
    BY <2>4, <2>5, <2>6, <2>7, <2>8, <2>9, <2>10 DEF IInv
<1>3. CASE net.down = <<>>
  <2>1. /\ Returned /\ UNCHANGED net
        /\ Finish(IF srv.status = "ok" THEN "ok" ELSE "failed")
    BY <1>3 DEF ClientReceives
  <2>2. CASE srv.status # "ok"
    BY <1>1, <2>1, <2>2, FailedKeeps DEF IInv, Typed
  <2>3. CASE srv.status = "ok"
    <3>1. cli'.pc = "done" /\ cli'.n = cli.n /\ cli'.res = "ok" /\ cli' \in Clients
      BY <2>1, <2>3 DEF IInv, Typed, Clients, Results, Finish
    <3>2. Typed'
      BY <1>1, <2>1, <3>1 DEF IInv, Typed
    <3>3. Flow'
      BY <1>1, <2>1, <3>1 DEF IInv, Flow, Script, Returned
    <3>4. Stream'
      BY <1>1, <2>1, <3>1 DEF IInv, Stream
    <3>5. Stored'
      BY <1>1, <2>1, <3>1 DEF IInv, Stored, Eof, Bit
    <3>6. Fetched' /\ Dialogue' /\ Bodies' /\ Success'
      BY <1>1, <2>1, <3>1, Kept DEF Broken
    <3>7. job.kind = "get" => cli.n = job.size
      <4>1. Len(net.down) = 0
        BY <1>3
      <4> QED
        BY <2>3, <4>1, JobFacts DEF IInv, Fetched, Success
    <3>8. Reported'
      BY <1>1, <2>3, <3>1, <3>7 DEF Reported
    <3> QED
      BY <3>2, <3>3, <3>4, <3>5, <3>6, <3>8 DEF IInv
  <2> QED
    BY <2>2, <2>3
<1> QED
  BY <1>2, <1>3

-----------------------------------------------------------------------------
(* The feeder and the image store.                                         *)

\* A chunk moves from the stream to the pipe; the end closes the pipe.
LEMMA FeederReceivesKeeps ==
  ASSUME IInv, FeederReceives
  PROVE  IInv'
<1>1. /\ pipe.fd = "recv" /\ net.up # <<>>
      /\ net'.up = Tail(net.up) /\ net'.down = net.down
      /\ UNCHANGED <<job, cli, drain, srv, rem>>
      /\ pipe' = IF Head(net.up) = "chunk" THEN [pipe EXCEPT !.fd = "offer"]
                 ELSE [pipe EXCEPT !.fd = "end", !.w = "eof"]
  BY DEF IInv, Typed, Streams, FeederReceives
<1>2. PICK k \in Nat : k = Len(net.up)
  BY Fields DEF IInv
<1>3. /\ k >= 1 /\ Head(net.up) = net.up[1] /\ Head(net.up) \in {"chunk", "eof"}
      /\ net'.up \in Seq(UpMessages) /\ Len(net'.up) = k - 1
      /\ \A i \in 1 .. k - 1 : net'.up[i] = net.up[i + 1]
  BY <1>1, <1>2, Fields, Popped DEF IInv, UpMessages
<1>4. \A i \in 1 .. k : net.up[i] = "eof" => (i = k /\ cli.pc # "send" /\ cli.n = job.file)
  BY <1>2 DEF IInv, Stream
<1>5. Typed'
  <2>1. pipe' \in Pipes
    BY <1>1 DEF IInv, Typed, Pipes
  <2>2. net' \in Streams
    BY <1>1, <1>3 DEF IInv, Typed, Streams, FeederReceives
  <2>3. Len(net'.up) <= Window
    BY <1>2, <1>3, WindowAssumption DEF IInv, Typed
  <2> QED
    BY <1>1, <2>1, <2>2, <2>3 DEF IInv, Typed
<1>6. job.kind \in Uploads
  BY <1>1 DEF IInv, Flow
<1>7. Flow'
  BY <1>1, <1>6 DEF IInv, Flow, Script, Returned
<1>8. Stream'
  <2>1. ASSUME NEW i \in 1 .. k - 1, net'.up[i] = "eof"
        PROVE  i = k - 1 /\ cli.pc # "send" /\ cli.n = job.file
    <3>1. i + 1 \in 1 .. k /\ net.up[i + 1] = "eof"
      BY <1>3, <2>1
    <3> QED
      BY <1>4, <3>1
  <2> QED
    BY <1>1, <1>3, <1>6, <2>1 DEF IInv, Stream
<1>9. Stored'
  <2> SUFFICES ASSUME job.kind = "image"
               PROVE  Stored'
    BY <1>1 DEF Stored
  <2>1. cli.n = drain.n + k - Bit(Eof) /\ drain.n <= job.file /\ pipe.w # "eof"
        /\ ~(drain.pc = "end" /\ ~drain.bad)
    <3>1. pipe.fd # "end" /\ Bit(pipe.fd = "offer") = 0
      BY <1>1 DEF Bit
    <3>2. /\ cli.n = drain.n + Bit(pipe.fd = "offer") + k - Bit(Eof)
          /\ drain.n <= job.file /\ pipe.w # "eof"
          /\ ~(drain.pc = "end" /\ ~drain.bad)
      BY <1>2, <3>1 DEF IInv, Stored
    <3> QED
      BY <3>1, <3>2, JobFacts DEF IInv
  <2>2. CASE Head(net.up) = "chunk"
    <3>1. pipe'.fd = "offer" /\ pipe'.w = pipe.w
      BY <1>1, <2>2 DEF IInv, Typed, Pipes
    <3>2. Eof' <=> Eof
      <4>1. k = 1 => (~Eof /\ ~Eof')
        BY <1>2, <1>3, <2>2 DEF Eof
      <4>2. k > 1 => net'.up[k - 1] = net.up[k]
        BY <1>3
      <4>3. k > 1 => (Eof' <=> Eof)
        BY <1>2, <1>3, <4>2 DEF Eof
      <4> QED
        BY <1>3, <4>1, <4>3
    <3>3. Bit(Eof') = Bit(Eof) /\ Bit(Eof) \in Nat /\ Bit(pipe'.fd = "offer") = 1
      BY <3>1, <3>2 DEF Bit
    <3>4. cli'.n = drain'.n + Bit(pipe'.fd = "offer") + Len(net'.up) - Bit(Eof')
      <4>1. PICK e \in Nat : e = Bit(Eof)
        BY <3>3
      <4>2. cli.n = drain.n + k - e /\ drain.n \in Nat
        BY <2>1, <4>1, JobFacts DEF IInv
      <4>3. cli.n = drain.n + 1 + (k - 1) - e
        BY <4>2
      <4> QED
        BY <1>1, <1>3, <3>3, <4>1, <4>3
    <3> QED
      BY <1>1, <2>1, <3>1, <3>4 DEF Stored
  <2>3. CASE Head(net.up) = "eof"
    <3>1. pipe'.fd = "end" /\ pipe'.w = "eof"
      BY <1>1, <2>3 DEF IInv, Typed, Pipes
    <3>2. k = 1 /\ cli.n = job.file /\ Eof
      <4>1. 1 \in 1 .. k /\ net.up[1] = "eof"
        BY <1>3, <2>3
      <4>2. 1 = k /\ cli.n = job.file
        BY <1>4, <4>1
      <4> QED
        BY <1>2, <4>1, <4>2 DEF Eof
    <3>3. drain.n = job.file
      BY <2>1, <3>2, JobFacts DEF IInv, Bit
    <3> QED
      BY <1>1, <2>1, <3>1, <3>3 DEF Stored
  <2> QED
    BY <1>3, <2>2, <2>3
<1>10. Fetched' /\ Dialogue' /\ Bodies' /\ Success' /\ Reported'
  BY <1>1, Kept DEF Broken
<1> QED
  BY <1>5, <1>7, <1>8, <1>9, <1>10 DEF IInv

\* The feeder ends without having seen the end of the file.
LEMMA FeederLeavesKeeps ==
  ASSUME IInv, pipe' \in Pipes, pipe'.fd = "end", pipe.fd # "end",
         pipe'.w = pipe.w \/ pipe'.w = "err",
         UNCHANGED <<job, cli, net, drain, srv, rem>>
  PROVE  IInv'
<1>1. Typed'
  BY DEF IInv, Typed
<1>2. Flow'
  BY DEF IInv, Flow, Script, Returned
<1>3. Stored'
  BY DEF IInv, Stored
<1>4. Stream' /\ Fetched' /\ Dialogue' /\ Bodies' /\ Success' /\ Reported'
  BY Kept DEF Broken
<1> QED
  BY <1>1, <1>2, <1>3, <1>4 DEF IInv

\* A stream that breaks closes the pipe with an error.
LEMMA FeederBreaksKeeps ==
  ASSUME IInv, FeederBreaks
  PROVE  IInv'
<1>1. pipe' \in Pipes /\ pipe'.fd = "end" /\ pipe.fd # "end" /\ pipe'.w = "err"
  BY DEF IInv, Typed, Pipes, FeederBreaks, BrokenStream
<1> QED
  BY <1>1, FeederLeavesKeeps DEF FeederBreaks

\* Nobody reads the pipe any more.
LEMMA FeederStopsKeeps ==
  ASSUME IInv, FeederStops
  PROVE  IInv'
<1>1. pipe' \in Pipes /\ pipe'.fd = "end" /\ pipe.fd # "end" /\ pipe'.w = pipe.w
  BY DEF IInv, Typed, Pipes, FeederStops
<1> QED
  BY <1>1, FeederLeavesKeeps DEF FeederStops

\* Save fails: nothing is stored.
LEMMA SaveGivesUpKeeps ==
  ASSUME IInv, drain.pc = "save", drain' = [drain EXCEPT !.pc = "end", !.bad = TRUE],
         pipe' = [pipe EXCEPT !.r = "closed"], UNCHANGED <<job, cli, net, srv, rem>>
  PROVE  IInv'
<1>1. /\ drain'.pc = "end" /\ drain'.bad /\ drain'.n = drain.n
      /\ drain'.turn = drain.turn /\ drain' \in Drains
      /\ pipe'.fd = pipe.fd /\ pipe'.w = pipe.w /\ pipe' \in Pipes
  BY DEF IInv, Typed, Drains, Pipes
<1>2. Typed'
  BY <1>1 DEF IInv, Typed
<1>3. Flow'
  BY <1>1 DEF IInv, Flow, Script, Returned
<1>4. Stored'
  BY <1>1 DEF IInv, Stored, Bit, Eof
<1>5. Stream' /\ Fetched' /\ Dialogue' /\ Bodies' /\ Success' /\ Reported'
  BY <1>1, Kept DEF Broken
<1> QED
  BY <1>2, <1>3, <1>4, <1>5 DEF IInv

\* The disk is full, or the name taken.
LEMMA SaveFailsKeeps ==
  ASSUME IInv, SaveFails
  PROVE  IInv'
BY SaveGivesUpKeeps DEF SaveFails

\* Save takes a chunk, or the end, or the error, from the pipe.
LEMMA SaveReadsKeeps ==
  ASSUME IInv, SaveReads
  PROVE  IInv'
<1>1. drain.pc = "save" /\ UNCHANGED <<job, cli, net, srv, rem>>
  BY DEF SaveReads
<1>2. job.kind = "image"
  BY <1>1 DEF IInv, Flow
<1>3. ~Returned
  BY <1>1 DEF IInv, Flow
<1>4. CASE pipe.fd = "offer" /\ drain' = [drain EXCEPT !.n = @ + 1]
           /\ pipe' = [pipe EXCEPT !.fd = "recv"]
  <2>1. drain.n + 1 \in Nat
    BY JobFacts DEF IInv
  <2>2. /\ drain'.pc = "save" /\ drain'.bad = drain.bad /\ drain'.n = drain.n + 1
        /\ drain'.turn = drain.turn /\ drain' \in Drains
        /\ pipe'.fd = "recv" /\ pipe'.w = pipe.w /\ pipe' \in Pipes
    BY <1>1, <1>4, <2>1 DEF IInv, Typed, Drains, Pipes
  <2>3. Typed'
    BY <1>1, <2>2 DEF IInv, Typed
  <2>4. Flow'
    BY <1>1, <1>2, <2>2 DEF IInv, Flow, Script, Returned, Uploads
  <2>5. Stored'
    <3>1. cli.n = drain.n + 1 + Len(net.up) - Bit(Eof)
      BY <1>2, <1>4 DEF IInv, Stored, Bit
    <3>2. Bit(Eof) \in Nat /\ Bit(Eof) <= Len(net.up) /\ Bit(Eof') = Bit(Eof)
      BY <1>1, Fields DEF IInv, Bit, Eof
    <3>3. cli.n <= job.file
      BY <1>2 DEF IInv, Stream, Uploads
    <3>4. drain.n + 1 <= job.file
      BY <3>1, <3>2, <3>3, JobFacts, Fields DEF IInv
    <3>5. Bit(pipe'.fd = "offer") = 0
      BY <2>2 DEF Bit
    <3>6. cli'.n = drain'.n + Bit(pipe'.fd = "offer") + Len(net'.up) - Bit(Eof')
      BY <1>1, <2>2, <3>1, <3>2, <3>5, JobFacts, Fields DEF IInv
    <3>7. pipe.w # "eof"
      BY <1>2, <1>4 DEF IInv, Stored
    <3> QED
      BY <1>1, <2>2, <3>4, <3>6, <3>7 DEF Stored
  <2>6. Stream' /\ Success' /\ Reported'
    BY <1>1, <1>3, Kept
  <2>7. Fetched'
    BY <1>1, <1>2 DEF IInv, Fetched
  <2>8. Dialogue'
    <3>1. Taken' = Taken /\ Sent' = Sent /\ (Timing' <=> Timing)
      BY <1>1, <1>2, <2>2 DEF Taken, Sent, Answers, Chunks, Timing, Bit
    <3> QED
      BY <1>1, <1>2, <2>2, <3>1 DEF IInv, Dialogue
  <2>9. Bodies'
    BY <1>1, <1>2 DEF IInv, Bodies
  <2> QED
    BY <2>3, <2>4, <2>5, <2>6, <2>7, <2>8, <2>9 DEF IInv
<1>5. CASE pipe.w = "eof" /\ drain' = [drain EXCEPT !.pc = "end"] /\ UNCHANGED pipe
  <2>1. /\ drain'.pc = "end" /\ drain'.bad = drain.bad /\ drain'.n = drain.n
        /\ drain'.turn = drain.turn /\ drain' \in Drains
    BY <1>5 DEF IInv, Typed, Drains
  <2>2. Typed'
    BY <1>1, <1>5, <2>1 DEF IInv, Typed
  <2>3. Flow'
    BY <1>1, <1>5, <2>1 DEF IInv, Flow, Script, Returned
  <2>4. Stored'
    BY <1>1, <1>5, <2>1 DEF IInv, Stored, Bit, Eof
  <2>5. Stream' /\ Fetched' /\ Dialogue' /\ Bodies' /\ Success' /\ Reported'
    BY <1>1, <1>5, <2>1, Kept DEF Broken
  <2> QED
    BY <2>2, <2>3, <2>4, <2>5 DEF IInv
<1>6. CASE drain' = [drain EXCEPT !.pc = "end", !.bad = TRUE]
           /\ pipe' = [pipe EXCEPT !.r = "closed"]
  BY <1>1, <1>6, SaveGivesUpKeeps
<1> QED
  BY <1>4, <1>5, <1>6 DEF SaveReads

\* The handler reports what Save did.
LEMMA UploadImageKeeps ==
  ASSUME IInv, UploadImage
  PROVE  IInv'
<1>1. /\ job.kind = "image" /\ pipe.fd = "end" /\ drain.pc = "end" /\ ~Returned
      /\ UNCHANGED <<job, cli, net, pipe, drain, rem>>
      /\ srv' = [srv EXCEPT !.status =
                   IF pipe.w = "eof" /\ ~drain.bad THEN "ok" ELSE "failed"]
  BY DEF UploadImage
<1>2. /\ srv' \in Handlers /\ srv'.closed = srv.closed /\ srv'.status # "none"
      /\ srv'.status = "ok" => pipe.w = "eof"
  BY <1>1 DEF IInv, Typed, Handlers, Statuses
<1>3. Typed'
  BY <1>1, <1>2 DEF IInv, Typed
<1>4. Flow'
  BY <1>1, <1>2 DEF IInv, Flow, Script, Returned
<1>5. Success'
  BY <1>1, <1>2 DEF IInv, Stored, Success
<1>6. cli.res # "ok"
  BY <1>1 DEF IInv, Reported, Returned
<1>7. Reported'
  BY <1>1, <1>6 DEF Reported
<1>8. Stream' /\ Stored' /\ Fetched' /\ Dialogue' /\ Bodies'
  BY <1>1, <1>2, Kept DEF Broken
<1> QED
  BY <1>3, <1>4, <1>5, <1>7, <1>8 DEF IInv

-----------------------------------------------------------------------------
(* The deadline, the watcher, and the return of a handler.                 *)

\* The handler notes something, and goes on.
LEMMA NotedKeeps ==
  ASSUME IInv, srv' \in Handlers, srv'.status = srv.status, srv.closed => srv'.closed,
         UNCHANGED <<job, cli, net, pipe, drain, rem>>
  PROVE  IInv'
<1>1. Typed'
  BY DEF IInv, Typed
<1>2. Flow' /\ Stream' /\ Stored' /\ Fetched' /\ Dialogue' /\ Success' /\ Reported'
  BY Kept
<1>3. Bodies'
  BY Kept DEF Broken
<1> QED
  BY <1>1, <1>2, <1>3 DEF IInv

\* The deadline passes.
LEMMA LateKeeps ==
  ASSUME IInv, Late
  PROVE  IInv'
<1>1. srv' \in Handlers /\ srv'.status = srv.status /\ (srv.closed => srv'.closed)
  BY DEF IInv, Typed, Handlers, Late
<1> QED
  BY <1>1, NotedKeeps DEF Late

\* The watcher closes the session.
LEMMA WatchContextKeeps ==
  ASSUME IInv, WatchContext
  PROVE  IInv'
<1>1. srv' \in Handlers /\ srv'.status = srv.status /\ (srv.closed => srv'.closed)
  BY DEF IInv, Typed, Handlers, WatchContext
<1> QED
  BY <1>1, NotedKeeps DEF WatchContext

\* A handler that talks to the target returns.
LEMMA ReturnKeeps ==
  ASSUME IInv, NEW s \in {"ok", "failed", "timedout"}, Return(s), drain.pc # "end",
         job.kind # "image",
         s = "ok" =>
           /\ job.kind = "put" => (rem.n = job.size /\ rem.turn = 7)
           /\ job.kind = "get" => (drain.n = job.size /\ rem.turn >= 6)
           /\ job.kind = "exec" => rem.exit \in {"zero", "nonzero"}
  PROVE  IInv'
<1>1. UNCHANGED <<job, cli, net, rem>> /\ ~Returned
  BY DEF IInv, Flow, Return
<1>2. srv' \in Handlers /\ srv'.status = s /\ srv'.closed = srv.closed
  BY DEF IInv, Typed, Handlers, Statuses, Return
<1>3. /\ drain' \in Drains /\ drain'.pc = "end" /\ drain'.turn = drain.turn
      /\ drain'.n = drain.n /\ drain'.bad = drain.bad
  BY DEF IInv, Typed, Drains, Return
<1>4. pipe' \in Pipes /\ pipe'.fd = pipe.fd /\ pipe'.w = pipe.w
  BY DEF IInv, Typed, Pipes, Return, CloseReadEnd
<1>5. Typed'
  BY <1>1, <1>2, <1>3, <1>4 DEF IInv, Typed
<1>6. Flow'
  BY <1>1, <1>2, <1>3, <1>4 DEF IInv, Flow, Script, Returned
<1>7. Stored'
  BY <1>1 DEF Stored
<1>8. Success'
  BY <1>1, <1>2, <1>3 DEF Success
<1>9. cli.res # "ok"
  BY <1>1 DEF IInv, Reported, Returned
<1>10. Reported'
  BY <1>1, <1>9 DEF Reported
<1>11. Stream' /\ Fetched' /\ Dialogue' /\ Bodies'
  BY <1>1, <1>2, <1>3, Kept DEF Broken
<1> QED
  BY <1>5, <1>6, <1>7, <1>8, <1>10, <1>11 DEF IInv

-----------------------------------------------------------------------------
(* The session with the target, from the daemon's side.                    *)

\* What is counted, is counted in natural numbers.
LEMMA Counting ==
  ASSUME Typed
  PROVE  /\ Answers(rem.turn) \in Nat /\ Chunks(rem.n) \in Nat
         /\ Bit(Timing) \in {0, 1} /\ Bit(rem.exit = "nonzero") \in {0, 1}
         /\ Sent \in Nat /\ Taken \in Nat
<1>1. \A t \in 1 .. 7 : Answers(t) \in Nat
  BY DEF Answers, Bit
<1>2. \A n \in Nat : Chunks(n) \in Nat
  BY DEF Chunks
<1>3. Bit(Timing) \in {0, 1} /\ Bit(rem.exit = "nonzero") \in {0, 1}
  BY DEF Bit
<1>4. Answers(rem.turn) \in Nat /\ Chunks(rem.n) \in Nat
      /\ Answers(drain.turn) \in Nat /\ Chunks(drain.n) \in Nat
  BY <1>1, <1>2, JobFacts
<1> QED
  BY <1>3, <1>4 DEF Sent, Taken

\* The answers taken at each turn of the daemon, and given at each of the target.
LEMMA Counts ==
  /\ job.kind = "put" =>
       /\ Answers(1) = 0 /\ Answers(2) = 1 /\ Answers(3) = 1 /\ Answers(4) = 2
       /\ Answers(5) = 2 /\ Answers(6) = 2 /\ Answers(7) = 3
  /\ job.kind = "get" =>
       /\ Answers(1) = 0 /\ Answers(2) = 0 /\ Answers(3) = 1 /\ Answers(4) = 1
       /\ Answers(5) = 1 /\ Answers(6) = 2 /\ Answers(7) = 2
BY DEF Answers, Bit

\* One output is read.
LEMMA OutputRead ==
  ASSUME IInv, rem.out # <<>>, rem'.out = Tail(rem.out)
  PROVE  /\ rem'.out \in Seq(Outputs) /\ Len(rem'.out) = Len(rem.out) - 1
         /\ Len(rem.out) \in Nat /\ Len(rem.out) >= 1
         /\ \A i \in 1 .. Len(rem'.out) : rem'.out[i] # "time"
         /\ ~Timing' /\ Bit(Timing') = 0
         /\ Timing <=> Head(rem.out) = "time"
         /\ Bit(Timing) = Bit(Head(rem.out) = "time")
<1>1. PICK k \in Nat : k = Len(rem.out)
  BY Fields DEF IInv
<1>2. /\ k >= 1 /\ Head(rem.out) = rem.out[1]
      /\ rem'.out \in Seq(Outputs) /\ Len(rem'.out) = k - 1
      /\ \A i \in 1 .. k - 1 : rem'.out[i] = rem.out[i + 1]
  BY <1>1, Fields, Popped DEF IInv
<1>3. \A i \in 1 .. k : rem.out[i] = "time" => i = 1
  BY <1>1 DEF IInv, Dialogue
<1>4. ASSUME NEW i \in 1 .. k - 1
      PROVE  rem'.out[i] # "time"
  <2>1. i + 1 \in 1 .. k /\ i + 1 # 1
    BY <1>2
  <2> QED
    BY <1>2, <1>3, <2>1
<1>5. ~Timing'
  <2>1. Len(rem'.out) > 0 => 1 \in 1 .. k - 1
    BY <1>2
  <2> QED
    BY <1>2, <1>4, <2>1 DEF Timing
<1>6. Timing <=> Head(rem.out) = "time"
  BY <1>1, <1>2 DEF Timing
<1>7. Bit(Timing') = 0 /\ Bit(Timing) = Bit(Head(rem.out) = "time")
  BY <1>5, <1>6 DEF Bit
<1> QED
  BY <1>1, <1>2, <1>4, <1>5, <1>6, <1>7

\* A handler that talks to the target changes nothing of an image or a client.
LEMMA SessionKept ==
  ASSUME IInv, drain.pc # "end", drain.pc # "save", drain' \in Drains, rem' \in Targets,
         pipe' \in Pipes, UNCHANGED <<job, cli, srv>>, net' \in Streams,
         net'.up = net.up, Len(net'.down) <= Window,
         pipe'.fd = pipe.fd \/ (pipe.fd = "offer" /\ pipe'.fd = "recv"),
         drain'.pc \in {"shake", "run", "wait"},
         drain'.bad = FALSE \/ drain'.pc = "wait",
         drain'.pc # "wait" \/ drain'.bad = TRUE \/ drain'.turn = Len(Script) + 1,
         Fetched', Dialogue', Bodies'
  PROVE  IInv'
<1>1. job.kind # "image" /\ ~Returned
  BY DEF IInv, Flow
<1>2. Typed'
  BY DEF IInv, Typed
<1>3. Flow'
  <2>1. Script' = Script /\ Returned' = Returned
    BY DEF Script, Returned
  <2>2. job.kind \notin Uploads => (cli.pc # "send" /\ pipe'.fd = "end")
    BY DEF IInv, Flow
  <2> QED
    BY <1>1, <2>1, <2>2 DEF IInv, Flow
<1>4. Stored'
  BY <1>1 DEF Stored
<1>5. Stream' /\ Success' /\ Reported'
  <2>1. cli'.n = cli.n /\ cli'.res = cli.res /\ srv'.status = srv.status
    OBVIOUS
  <2> QED
    BY <1>1, <2>1, Kept
<1> QED
  BY <1>2, <1>3, <1>4, <1>5 DEF IInv

\* The connection is made, or refused.
LEMMA DialKeeps ==
  ASSUME IInv, Dial
  PROVE  IInv'
<1>1. drain.pc = "dial" /\ job.kind # "image"
  BY DEF IInv, Flow, Dial
<1>2. CASE Return("failed")
  BY <1>1, <1>2, ReturnKeeps
<1>3. CASE drain' = [drain EXCEPT !.pc = "shake"] /\ UNCHANGED <<job, cli, net, pipe, srv, rem>>
  <2>1. /\ drain' \in Drains /\ drain'.pc = "shake" /\ drain'.turn = drain.turn
        /\ drain'.n = drain.n /\ drain'.bad = FALSE
    BY <1>1, <1>3 DEF IInv, Typed, Flow, Drains
  <2>2. Fetched' /\ Dialogue' /\ Bodies'
    BY <1>3, <2>1, Kept DEF Broken
  <2> QED
    <3>1. /\ net' \in Streams /\ Len(net'.down) <= Window /\ pipe' \in Pipes
          /\ rem' \in Targets /\ net'.up = net.up /\ pipe'.fd = pipe.fd
          /\ drain.pc # "end" /\ drain.pc # "save"
      BY <1>1, <1>3 DEF IInv, Typed
    <3>2. /\ drain'.bad = FALSE \/ drain'.pc = "wait"
          /\ drain'.pc # "wait" \/ drain'.bad = TRUE \/ drain'.turn = Len(Script) + 1
          /\ drain'.pc \in {"shake", "run", "wait"}
      BY <2>1
    <3> QED
      BY <1>1, <1>3, <2>1, <2>2, <3>1, <3>2, SessionKept
<1> QED
  BY <1>2, <1>3 DEF Dial

\* The session is opened, or refused.
LEMMA HandshakeKeeps ==
  ASSUME IInv, Handshake
  PROVE  IInv'
<1>1. drain.pc = "shake" /\ job.kind # "image"
  BY DEF IInv, Flow, Handshake
<1>2. CASE Return("failed")
  BY <1>1, <1>2, ReturnKeeps
<1>3. CASE drain' = [drain EXCEPT !.pc = "run"] /\ UNCHANGED <<job, cli, net, pipe, srv, rem>>
  <2>1. /\ drain' \in Drains /\ drain'.pc = "run" /\ drain'.turn = drain.turn
        /\ drain'.n = drain.n /\ drain'.bad = FALSE
    BY <1>1, <1>3 DEF IInv, Typed, Flow, Drains
  <2>2. Fetched' /\ Dialogue' /\ Bodies'
    BY <1>3, <2>1, Kept DEF Broken
  <2> QED
    <3>1. /\ net' \in Streams /\ Len(net'.down) <= Window /\ pipe' \in Pipes
          /\ rem' \in Targets /\ net'.up = net.up /\ pipe'.fd = pipe.fd
          /\ drain.pc # "end" /\ drain.pc # "save"
      BY <1>1, <1>3 DEF IInv, Typed
    <3>2. /\ drain'.bad = FALSE \/ drain'.pc = "wait"
          /\ drain'.pc # "wait" \/ drain'.bad = TRUE \/ drain'.turn = Len(Script) + 1
          /\ drain'.pc \in {"shake", "run", "wait"}
      BY <2>1
    <3> QED
      BY <1>1, <1>3, <2>1, <2>2, <3>1, <3>2, SessionKept
<1> QED
  BY <1>2, <1>3 DEF Handshake

\* The daemon gives the copy up, be it over the last answer or a failed write.
LEMMA GaveUpKeeps ==
  ASSUME IInv, drain.pc = "run", Wait(TRUE), UNCHANGED <<job, cli, net, srv>>,
         \/ UNCHANGED rem
         \/ (rem.out # <<>> /\ rem' = [rem EXCEPT !.out = Tail(@)]),
         UNCHANGED pipe \/ (pipe.fd = "offer" /\ pipe' = [pipe EXCEPT !.fd = "recv"])
  PROVE  IInv'
<1>1. /\ drain' \in Drains /\ drain'.pc = "wait" /\ drain'.bad = TRUE
      /\ drain'.turn = drain.turn /\ drain'.n = drain.n
  BY DEF IInv, Typed, Drains, Wait
<1>2. pipe' \in Pipes /\ (pipe'.fd = pipe.fd \/ (pipe.fd = "offer" /\ pipe'.fd = "recv"))
  BY DEF IInv, Typed, Pipes
<1>3. Fetched'
  BY <1>1, Kept
<1>4. rem' \in Targets /\ Dialogue' /\ Bodies'
  <2>1. CASE UNCHANGED rem
    BY <1>1, <2>1, Kept DEF IInv, Typed, Broken
  <2>2. CASE rem.out # <<>> /\ rem' = [rem EXCEPT !.out = Tail(@)]
    <3>1. /\ rem'.out = Tail(rem.out) /\ rem'.turn = rem.turn /\ rem'.n = rem.n
          /\ rem'.exit = rem.exit /\ rem'.timed = rem.timed
      BY <2>2 DEF IInv, Typed, Targets
    <3>2. rem' \in Targets
      BY <2>2, <3>1, OutputRead DEF IInv, Typed, Targets
    <3>3. Dialogue'
      <4>1. Taken' = Taken
        BY <1>1 DEF Taken, Answers, Chunks, Bit
      <4>2. Sent = Sent' + Bit(Timing) /\ Sent' \in Nat
        <5>1. Answers(rem.turn)' = Answers(rem.turn) /\ Chunks(rem.n)' = Chunks(rem.n)
              /\ Bit(rem.exit = "nonzero")' = Bit(rem.exit = "nonzero")
          BY <3>1 DEF Answers, Chunks, Bit
        <5>2. Bit(Timing') = 0
          BY <2>2, <3>1, OutputRead
        <5> QED
          BY <5>1, <5>2, Counting DEF IInv, Sent
      <4>3. Taken' + Len(rem'.out) <= Sent'
        BY <2>2, <3>1, <4>1, <4>2, OutputRead, Counting DEF IInv, Dialogue
      <4>4. job.kind \in {"put", "get"}
        BY <2>2 DEF IInv, Dialogue
      <4> QED
        BY <1>1, <2>2, <3>1, <4>3, <4>4, OutputRead DEF Dialogue
    <3>4. Bodies'
      BY <1>1, <2>2, <3>1 DEF IInv, Bodies
    <3> QED
      BY <3>2, <3>3, <3>4
  <2> QED
    BY <2>1, <2>2
<1> QED
  BY <1>1, <1>2, <1>3, <1>4, SessionKept DEF IInv, Typed

\* The daemon goes on to its next turn: over an answer it has taken, or without.
LEMMA AdvancedKeeps ==
  ASSUME IInv, drain.pc = "run", drain.turn \in 1 .. 6, job.kind \in {"put", "get"},
         Advance, UNCHANGED <<job, cli, net, pipe, srv>>, rem' \in Targets,
         rem'.turn = rem.turn, rem'.n = rem.n, rem'.exit = rem.exit,
         rem'.timed = rem.timed,
         \/ /\ rem'.out = rem.out /\ (job.kind = "get" => drain.turn # 2)
            /\ Answers(drain.turn + 1) = Answers(drain.turn)
         \/ /\ rem.out # <<>> /\ Head(rem.out) = "ok" /\ rem'.out = Tail(rem.out)
            /\ Answers(drain.turn + 1) = Answers(drain.turn) + 1,
         (job.kind = "get" /\ drain.turn = 4) =>
           (drain.n = job.size \/ (rem'.out = <<>> /\ Broken)),
         (job.kind = "get" /\ drain.turn = 5) => rem.out # <<>>
  PROVE  IInv'
<1>1. /\ drain' \in Drains /\ drain'.pc = "run" /\ drain'.bad = FALSE
      /\ drain'.turn = drain.turn + 1 /\ drain'.n = drain.n
  <2>1. drain.turn + 1 \in 1 .. 7
    OBVIOUS
  <2> QED
    BY <2>1 DEF IInv, Typed, Flow, Drains, Advance
<1>2. Fetched'
  BY <1>1, Kept
<1>3. /\ Answers(rem.turn)' = Answers(rem.turn) /\ Chunks(rem.n)' = Chunks(rem.n)
      /\ Bit(rem.exit = "nonzero")' = Bit(rem.exit = "nonzero")
      /\ Chunks(drain.n)' = Chunks(drain.n) /\ Chunks(drain.n) \in Nat
      /\ Answers(drain.turn)' = Answers(drain.turn + 1) /\ Answers(drain.turn) \in Nat
  BY <1>1, JobFacts DEF IInv, Answers, Chunks, Bit
<1>4. Dialogue'
  <2>1. CASE rem'.out = rem.out /\ (job.kind = "get" => drain.turn # 2)
             /\ Answers(drain.turn + 1) = Answers(drain.turn)
    <3>1. (Timing' <=> Timing) /\ Bit(Timing') = Bit(Timing)
      BY <2>1 DEF Timing, Bit
    <3>2. Taken' = Taken /\ Sent' = Sent
      BY <1>3, <2>1, <3>1, Counting DEF IInv, Taken, Sent
    <3>3. Timing' => drain.turn + 1 <= 2
      BY <2>1, <3>1 DEF IInv, Dialogue
    <3> QED
      BY <1>1, <2>1, <3>1, <3>2, <3>3 DEF IInv, Dialogue
  <2>2. CASE rem.out # <<>> /\ Head(rem.out) = "ok" /\ rem'.out = Tail(rem.out)
             /\ Answers(drain.turn + 1) = Answers(drain.turn) + 1
    <3>1. Bit(Timing) = 0 /\ Bit(Timing') = 0
      BY <2>2, OutputRead DEF Bit
    <3>2. Taken' = Taken + 1
      BY <1>3, <2>2 DEF Taken
    <3>3. Sent' = Sent
      BY <1>3, <3>1 DEF Sent
    <3>4. Taken' + Len(rem'.out) <= Sent'
      BY <2>2, <3>2, <3>3, OutputRead, Counting DEF IInv, Dialogue
    <3> QED
      BY <1>1, <2>2, <3>4, OutputRead DEF Dialogue
  <2> QED
    BY <2>1, <2>2
<1>5. Bodies'
  <2>1. Broken' = Broken
    BY DEF Broken
  <2>2. (job.kind = "get" /\ drain.turn + 1 >= 6) => drain.n = job.size
    BY DEF IInv, Bodies
  <2> QED
    BY <1>1, <2>1, <2>2 DEF IInv, Bodies
<1>6. /\ net' \in Streams /\ Len(net'.down) <= Window /\ pipe' \in Pipes
      /\ net'.up = net.up /\ pipe'.fd = pipe.fd
      /\ drain.pc # "end" /\ drain.pc # "save"
  BY DEF IInv, Typed
<1>7. /\ drain'.bad = FALSE \/ drain'.pc = "wait"
      /\ drain'.pc # "wait" \/ drain'.bad = TRUE \/ drain'.turn = Len(Script) + 1
      /\ drain'.pc \in {"shake", "run", "wait"}
  BY <1>1
<1> QED
  BY <1>1, <1>2, <1>4, <1>5, <1>6, <1>7, SessionKept

\* The daemon writes on the remote stdin.
LEMMA TellKeeps ==
  ASSUME IInv, Tell
  PROVE  IInv'
<1>1. /\ drain.pc = "run" /\ UNCHANGED <<job, cli, net, pipe, srv>>
      /\ \/ job.kind = "put" /\ drain.turn \in {2, 5}
         \/ job.kind = "get" /\ drain.turn \in {1, 3, 6}
  BY Turns DEF IInv, Tell
<1>2. CASE Wait(TRUE) /\ UNCHANGED rem
  BY <1>1, <1>2, GaveUpKeeps
<1>3. CASE Advance /\ rem' = [rem EXCEPT !.in = Append(@, "ok")]
  <2>1. /\ rem'.turn = rem.turn /\ rem'.n = rem.n /\ rem'.exit = rem.exit
        /\ rem'.timed = rem.timed /\ rem'.out = rem.out
    BY <1>3 DEF IInv, Typed, Targets
  <2>2. rem' \in Targets
    <3>1. Append(rem.in, "ok") \in Seq(Inputs)
      BY Fields, Pushed DEF IInv, Inputs
    <3> QED
      BY <1>3, <3>1 DEF IInv, Typed, Targets
  <2>3. /\ Answers(drain.turn + 1) = Answers(drain.turn)
        /\ job.kind = "get" => drain.turn # 2
        /\ drain.turn \in 1 .. 6 /\ job.kind \in {"put", "get"}
        /\ ~(job.kind = "get" /\ drain.turn = 4) /\ ~(job.kind = "get" /\ drain.turn = 5)
    BY <1>1, Counts
  <2> QED
    BY <1>1, <1>3, <2>1, <2>2, <2>3, AdvancedKeeps
<1> QED
  BY <1>2, <1>3 DEF Tell

\* The daemon reads an answer and, if it is good, goes on.
LEMMA ReadKeeps ==
  ASSUME IInv, Read, drain.pc = "run", UNCHANGED <<job, cli, net, pipe, srv>>,
         drain.turn \in 1 .. 6, job.kind \in {"put", "get"},
         Answers(drain.turn + 1) = Answers(drain.turn) + 1,
         ~(job.kind = "get" /\ drain.turn = 4)
  PROVE  IInv'
<1>1. CASE rem.out = <<>>
  <2>1. Wait(TRUE) /\ UNCHANGED rem
    BY <1>1 DEF Read
  <2> QED
    BY <2>1, GaveUpKeeps
<1>2. CASE rem.out # <<>> /\ Head(rem.out) # "ok"
  <2>1. Wait(TRUE) /\ rem' = [rem EXCEPT !.out = Tail(@)]
    BY <1>2 DEF Read
  <2> QED
    BY <1>2, <2>1, GaveUpKeeps
<1>3. CASE rem.out # <<>> /\ Head(rem.out) = "ok"
  <2>1. Advance /\ rem' = [rem EXCEPT !.out = Tail(@)]
    BY <1>3 DEF Read
  <2>2. /\ rem'.turn = rem.turn /\ rem'.n = rem.n /\ rem'.exit = rem.exit
        /\ rem'.timed = rem.timed /\ rem'.out = Tail(rem.out)
    BY <2>1 DEF IInv, Typed, Targets
  <2>3. rem' \in Targets
    <3>1. Tail(rem.out) \in Seq(Outputs)
      BY <1>3, Fields, Popped DEF IInv
    <3> QED
      BY <2>1, <3>1 DEF IInv, Typed, Targets
  <2> QED
    BY <1>3, <2>1, <2>2, <2>3, AdvancedKeeps
<1> QED
  BY <1>1, <1>2, <1>3

\* scpReadAck takes one answer.
LEMMA AwaitKeeps ==
  ASSUME IInv, Await
  PROVE  IInv'
<1>1. /\ drain.pc = "run" /\ UNCHANGED <<job, cli, net, pipe, srv>>
      /\ \/ job.kind = "put" /\ drain.turn \in {1, 3, 6}
         \/ job.kind = "get" /\ drain.turn = 5
  BY Turns DEF IInv, Await
<1>2. /\ drain.turn \in 1 .. 6 /\ job.kind \in {"put", "get"}
      /\ Answers(drain.turn + 1) = Answers(drain.turn) + 1
      /\ ~(job.kind = "get" /\ drain.turn = 4)
  BY <1>1, Counts
<1> QED
  BY <1>1, <1>2, ReadKeeps DEF Await

\* A time record is skipped: it counted as sent as long as it was there.
LEMMA RecordKeeps ==
  ASSUME IInv, Record
  PROVE  IInv'
<1>1. /\ drain.pc = "run" /\ UNCHANGED <<job, cli, net, pipe, srv>>
      /\ job.kind = "get" /\ drain.turn = 2
  BY Turns DEF IInv, Record
<1>2. CASE rem.out # <<>> /\ Head(rem.out) = "time"
  <2>1. rem' = [rem EXCEPT !.out = Tail(@), !.in = Append(@, "ok")] /\ UNCHANGED drain
    BY <1>2 DEF Record
  <2>2. /\ rem'.turn = rem.turn /\ rem'.n = rem.n /\ rem'.exit = rem.exit
        /\ rem'.timed = rem.timed /\ rem'.out = Tail(rem.out)
    BY <2>1 DEF IInv, Typed, Targets
  <2>3. rem' \in Targets
    <3>1. Tail(rem.out) \in Seq(Outputs)
      BY <1>2, Fields, Popped DEF IInv
    <3>2. Append(rem.in, "ok") \in Seq(Inputs)
      BY Fields, Pushed DEF IInv, Inputs
    <3> QED
      BY <2>1, <3>1, <3>2 DEF IInv, Typed, Targets
  <2>4. Dialogue'
    <3>1. Bit(Timing) = 1 /\ Bit(Timing') = 0
      BY <1>2, <2>2, OutputRead DEF Bit
    <3>2. Taken' = Taken
      BY <1>1, <2>1 DEF Taken, Answers, Chunks, Bit
    <3>3. /\ Answers(rem.turn)' = Answers(rem.turn) /\ Chunks(rem.n)' = Chunks(rem.n)
          /\ Bit(rem.exit = "nonzero")' = Bit(rem.exit = "nonzero")
      BY <1>1, <2>2 DEF Answers, Chunks, Bit
    <3>4. Sent = Sent' + 1 /\ Sent' \in Nat
      BY <3>1, <3>3, Counting DEF IInv, Sent
    <3>5. Taken' + Len(rem'.out) <= Sent'
      BY <1>2, <2>2, <3>2, <3>4, OutputRead, Counting DEF IInv, Dialogue
    <3> QED
      BY <1>1, <1>2, <2>2, <3>5, OutputRead DEF Dialogue
  <2>5. Bodies'
    BY <1>1, <2>1, <2>2 DEF IInv, Bodies
  <2>6. Fetched'
    BY <1>1, <2>1, Kept
  <2>7. /\ drain' \in Drains /\ net' \in Streams /\ pipe' \in Pipes
        /\ net'.up = net.up /\ Len(net'.down) <= Window /\ pipe'.fd = pipe.fd
        /\ drain.pc # "end" /\ drain.pc # "save"
        /\ drain'.pc = "run" /\ drain'.bad = FALSE
    BY <1>1, <2>1 DEF IInv, Typed, Flow, Drains
  <2> QED
    BY <1>1, <2>3, <2>4, <2>5, <2>6, <2>7, SessionKept
<1>3. CASE ~(rem.out # <<>> /\ Head(rem.out) = "time")
  <2>1. Read
    BY <1>3 DEF Record
  <2>2. /\ drain.turn \in 1 .. 6 /\ job.kind \in {"put", "get"}
        /\ Answers(drain.turn + 1) = Answers(drain.turn) + 1
        /\ ~(job.kind = "get" /\ drain.turn = 4)
    BY <1>1, Counts
  <2> QED
    BY <1>1, <2>1, <2>2, ReadKeeps
<1> QED
  BY <1>2, <1>3

\* A chunk goes from the pipe to the target, which is not an answer.
LEMMA BodyPutKeeps ==
  ASSUME IInv, BodyPut
  PROVE  IInv'
<1>1. /\ drain.pc = "run" /\ UNCHANGED <<job, cli, net, srv>>
      /\ job.kind = "put" /\ drain.turn = 4
  BY Turns DEF IInv, BodyPut
<1>2. CASE Advance /\ UNCHANGED <<pipe, rem>>
  <2>1. Answers(drain.turn + 1) = Answers(drain.turn)
    BY <1>1, Counts
  <2>2. rem' \in Targets
    BY <1>2 DEF IInv, Typed
  <2> QED
    BY <1>1, <1>2, <2>1, <2>2, AdvancedKeeps
<1>3. CASE Wait(TRUE) /\ UNCHANGED rem
           /\ \/ UNCHANGED pipe
              \/ pipe.fd = "offer" /\ pipe' = [pipe EXCEPT !.fd = "recv"]
  BY <1>1, <1>3, GaveUpKeeps
<1>4. CASE /\ drain.n < job.size /\ pipe.fd = "offer"
           /\ pipe' = [pipe EXCEPT !.fd = "recv"]
           /\ drain' = [drain EXCEPT !.n = @ + 1]
           /\ rem' = [rem EXCEPT !.in = Append(@, "chunk")]
  <2>1. drain.n + 1 \in Nat /\ drain.n + 1 <= job.size
    BY <1>4, JobFacts DEF IInv
  <2>2. /\ drain' \in Drains /\ drain'.pc = "run" /\ drain'.turn = drain.turn
        /\ drain'.n = drain.n + 1 /\ drain'.bad = FALSE
    BY <1>1, <1>4, <2>1 DEF IInv, Typed, Flow, Drains
  <2>3. pipe' \in Pipes /\ pipe'.fd = "recv"
    BY <1>4 DEF IInv, Typed, Pipes
  <2>4. /\ rem'.turn = rem.turn /\ rem'.n = rem.n /\ rem'.exit = rem.exit
        /\ rem'.timed = rem.timed /\ rem'.out = rem.out
    BY <1>4 DEF IInv, Typed, Targets
  <2>5. rem' \in Targets
    <3>1. Append(rem.in, "chunk") \in Seq(Inputs)
      BY Fields, Pushed DEF IInv, Inputs
    <3> QED
      BY <1>4, <3>1 DEF IInv, Typed, Targets
  <2>6. Fetched'
    BY <1>1 DEF IInv, Fetched
  <2>7. Dialogue'
    <3>1. Taken' = Taken /\ Sent' = Sent /\ (Timing' <=> Timing)
      BY <1>1, <2>2, <2>4 DEF Taken, Sent, Answers, Chunks, Timing, Bit
    <3> QED
      BY <1>1, <2>2, <2>4, <3>1 DEF IInv, Dialogue
  <2>8. Bodies'
    BY <1>1, <2>1, <2>2, <2>4 DEF IInv, Bodies
  <2>9. /\ net' \in Streams /\ net'.up = net.up /\ Len(net'.down) <= Window
        /\ drain.pc # "end" /\ drain.pc # "save"
    BY <1>1 DEF IInv, Typed
  <2> QED
    BY <1>1, <1>4, <2>2, <2>3, <2>5, <2>6, <2>7, <2>8, <2>9, SessionKept
<1> QED
  BY <1>2, <1>3, <1>4 DEF BodyPut

\* A chunk of the target's output goes on to the client.
LEMMA BodyGetKeeps ==
  ASSUME IInv, BodyGet
  PROVE  IInv'
<1>1. /\ drain.pc = "run" /\ UNCHANGED <<job, cli, pipe, srv>>
      /\ job.kind = "get" /\ drain.turn = 4
  BY Turns DEF IInv, BodyGet
<1>2. CASE /\ drain.n = job.size \/ (rem.out = <<>> /\ Broken)
           /\ Advance /\ UNCHANGED <<net, rem>>
  <2>1. Answers(drain.turn + 1) = Answers(drain.turn)
    BY <1>1, Counts
  <2>2. rem' \in Targets
    BY <1>2 DEF IInv, Typed
  <2> QED
    BY <1>1, <1>2, <2>1, <2>2, AdvancedKeeps
<1>3. CASE rem.out # <<>> /\ Wait(TRUE) /\ UNCHANGED net
           /\ rem' = [rem EXCEPT !.out = Tail(@)]
  BY <1>1, <1>3, GaveUpKeeps
<1>4. CASE /\ drain.n < job.size /\ rem.out # <<>> /\ Len(net.down) < Window
           /\ drain' = [drain EXCEPT !.n = @ + 1]
           /\ net' = [net EXCEPT !.down = Append(@, "chunk")]
           /\ rem' = [rem EXCEPT !.out = Tail(@)]
  <2>1. drain.n + 1 \in Nat /\ drain.n + 1 <= job.size
    BY <1>4, JobFacts DEF IInv
  <2>2. /\ drain' \in Drains /\ drain'.pc = "run" /\ drain'.turn = drain.turn
        /\ drain'.n = drain.n + 1 /\ drain'.bad = FALSE
    BY <1>1, <1>4, <2>1 DEF IInv, Typed, Flow, Drains
  <2>3. Append(net.down, "chunk") \in Seq(DownMessages)
        /\ Len(Append(net.down, "chunk")) = Len(net.down) + 1
    BY Fields, Pushed DEF IInv, DownMessages
  <2>4. /\ net' \in Streams /\ net'.up = net.up
        /\ net'.down = Append(net.down, "chunk") /\ Len(net'.down) <= Window
    <3>1. net' \in Streams /\ net'.up = net.up /\ net'.down = Append(net.down, "chunk")
      BY <1>4, <2>3 DEF IInv, Typed, Streams
    <3> QED
      BY <1>4, <2>3, <3>1, Fields, WindowAssumption DEF IInv
  <2>5. /\ rem'.turn = rem.turn /\ rem'.n = rem.n /\ rem'.exit = rem.exit
        /\ rem'.timed = rem.timed /\ rem'.out = Tail(rem.out)
    BY <1>4 DEF IInv, Typed, Targets
  <2>6. rem' \in Targets
    <3>1. Tail(rem.out) \in Seq(Outputs)
      BY <1>4, Fields, Popped DEF IInv
    <3> QED
      BY <1>4, <3>1 DEF IInv, Typed, Targets
  <2>7. Fetched'
    <3>1. cli.n + Len(net.down) = drain.n
      BY <1>1 DEF IInv, Fetched
    <3>2. cli.n + Len(net'.down) = drain.n + 1
      <4>1. PICK k \in Nat : k = Len(net.down)
        BY Fields DEF IInv
      <4>2. Len(net'.down) = k + 1 /\ cli.n + k = drain.n /\ cli.n \in Nat
        BY <2>3, <2>4, <3>1, <4>1, JobFacts DEF IInv
      <4> QED
        BY <4>2
    <3> QED
      BY <1>1, <2>2, <3>2 DEF Fetched
  <2>8. Dialogue'
    <3>1. Bit(Timing) = 0 /\ Bit(Timing') = 0
      <4>1. ~Timing
        BY <1>1 DEF IInv, Dialogue
      <4> QED
        BY <1>4, <2>5, <4>1, OutputRead DEF Bit
    <3>2. Taken' = Taken + 1
      <4>1. Answers(drain.turn)' = Answers(drain.turn)
        BY <1>1, <2>2 DEF Answers, Bit
      <4>2. Chunks(drain.n)' = Chunks(drain.n) + 1 /\ Chunks(drain.n) \in Nat
        BY <1>1, <2>2, JobFacts DEF IInv, Chunks
      <4>3. Answers(drain.turn) \in Nat
        BY DEF Answers, Bit
      <4> QED
        BY <4>1, <4>2, <4>3 DEF Taken
    <3>3. /\ Answers(rem.turn)' = Answers(rem.turn) /\ Chunks(rem.n)' = Chunks(rem.n)
          /\ Bit(rem.exit = "nonzero")' = Bit(rem.exit = "nonzero")
      BY <1>1, <2>5 DEF Answers, Chunks, Bit
    <3>4. Sent' = Sent
      BY <3>1, <3>3 DEF Sent
    <3>5. Taken' + Len(rem'.out) <= Sent'
      BY <1>4, <2>5, <3>2, <3>4, OutputRead, Counting DEF IInv, Dialogue
    <3> QED
      BY <1>1, <1>4, <2>5, <3>5, OutputRead DEF Dialogue
  <2>9. Bodies'
    BY <1>1, <2>1, <2>2, <2>5 DEF IInv, Bodies
  <2>10. /\ pipe' \in Pipes /\ pipe'.fd = pipe.fd
         /\ drain.pc # "end" /\ drain.pc # "save"
    BY <1>1 DEF IInv, Typed
  <2> QED
    BY <1>1, <2>2, <2>4, <2>6, <2>7, <2>8, <2>9, <2>10, SessionKept
<1> QED
  BY <1>2, <1>3, <1>4 DEF BodyGet

\* The protocol is through.
LEMMA ScriptDoneKeeps ==
  ASSUME IInv, ScriptDone
  PROVE  IInv'
<1>1. drain.pc = "run" /\ drain.turn = Len(Script) + 1 /\ Wait(FALSE)
      /\ UNCHANGED <<job, cli, net, pipe, srv, rem>>
  BY DEF ScriptDone
<1>2. /\ drain' \in Drains /\ drain'.pc = "wait" /\ drain'.bad = FALSE
      /\ drain'.turn = drain.turn /\ drain'.n = drain.n
  BY <1>1 DEF IInv, Typed, Drains, Wait
<1>3. Fetched' /\ Dialogue' /\ Bodies'
  BY <1>1, <1>2, Kept DEF Broken
<1>4. /\ net' \in Streams /\ net'.up = net.up /\ Len(net'.down) <= Window
      /\ pipe' \in Pipes /\ pipe'.fd = pipe.fd /\ rem' \in Targets
      /\ drain.pc # "end" /\ drain.pc # "save"
  BY <1>1 DEF IInv, Typed
<1> QED
  BY <1>1, <1>2, <1>3, <1>4, SessionKept

\* A copy reported as good has taken every answer: the target has given them all.
LEMMA SessionEndsKeeps ==
  ASSUME IInv, SessionEnds
  PROVE  IInv'
<1>1. drain.pc = "wait" /\ job.kind # "image"
  BY DEF IInv, Flow, SessionEnds
<1>2. drain.bad \in BOOLEAN /\ (~drain.bad => drain.turn = Len(Script) + 1)
  BY <1>1, Fields DEF IInv, Flow
<1>3. CASE job.kind = "exec"
  <2>1. Return(Exec)
    BY <1>3 DEF SessionEnds
  <2>2. Exec \in {"ok", "failed", "timedout"}
        /\ (Exec = "ok" => rem.exit \in {"zero", "nonzero"})
    <3>1. CASE srv.late
      BY <3>1 DEF Exec
    <3>2. CASE ~srv.late
      BY <3>2 DEF Exec
    <3> QED
      BY <3>1, <3>2
  <2> QED
    BY <1>1, <1>3, <2>1, <2>2, ReturnKeeps
<1>4. CASE job.kind # "exec"
  <2>1. Return(ScpSession) /\ ScpSession \in {"ok", "failed"}
        /\ (ScpSession = "ok" => (~drain.bad /\ rem.exit # "nonzero"))
    BY <1>4 DEF SessionEnds, ScpSession
  <2>2. ASSUME ~drain.bad, rem.exit # "nonzero"
        PROVE  /\ job.kind = "put" => (rem.n = job.size /\ rem.turn = 7)
               /\ job.kind = "get" => (drain.n = job.size /\ rem.turn >= 6)
    <3>1. job.kind \in {"put", "get"}
      BY <1>1, <1>4, JobFacts DEF IInv
    <3>2. drain.turn = 7
      <4>1. Len(Script) = 6
        BY <3>1, Turns DEF IInv
      <4>2. drain.turn = Len(Script) + 1
        BY <1>2, <2>2
      <4> QED
        BY <4>1, <4>2
    <3>3. Bit(Timing) = 0 /\ Bit(rem.exit = "nonzero") = 0
      BY <2>2, <3>2 DEF IInv, Dialogue, Bit
    <3>4. Taken <= Answers(rem.turn) + Chunks(rem.n)
      <4>1. Sent = Answers(rem.turn) + Chunks(rem.n)
        BY <3>3, Counting DEF IInv, Sent
      <4> QED
        BY <4>1, Counting, Fields DEF IInv, Dialogue
    <3>5. CASE job.kind = "put"
      <4>1. Taken = 3 /\ Chunks(rem.n) = 0
        BY <3>2, <3>5 DEF Taken, Answers, Chunks, Bit
      <4>2. Answers(rem.turn) >= 3
        BY <3>4, <4>1, Counting DEF IInv
      <4>3. rem.turn = 7
        BY <3>5, <4>2, JobFacts, Counts DEF IInv
      <4> QED
        BY <3>5, <4>3 DEF IInv, Bodies
    <3>6. CASE job.kind = "get"
      <4>1. drain.n = job.size /\ rem.n <= job.size
        BY <3>2, <3>6 DEF IInv, Bodies
      <4>2. Taken = 2 + job.size /\ Chunks(rem.n) = rem.n
        BY <3>2, <3>6, <4>1 DEF Taken, Answers, Chunks, Bit
      <4>3. Answers(rem.turn) >= 2
        BY <3>4, <4>1, <4>2, Counting, JobFacts DEF IInv
      <4>4. rem.turn >= 6
        BY <3>6, <4>3, JobFacts, Counts DEF IInv
      <4> QED
        BY <3>6, <4>1, <4>4
    <3> QED
      BY <3>1, <3>5, <3>6
  <2> QED
    BY <1>1, <1>4, <2>1, <2>2, ReturnKeeps
<1> QED
  BY <1>3, <1>4

-----------------------------------------------------------------------------
(* The target.                                                             *)

\* While the target runs, no call has returned and nothing is broken.
LEMMA RunningFacts ==
  ASSUME IInv, Running
  PROVE  /\ drain.pc \in {"run", "wait"} /\ ~Returned /\ ~Broken
         /\ rem.exit = "none" /\ Bit(rem.exit = "nonzero") = 0
BY DEF IInv, Flow, Running, Broken, Bit

\* A step of the target: only what it has sent and how far it is can be hurt.
LEMMA RemoteKeeps ==
  ASSUME IInv, drain.pc # "end", rem' \in Targets, Dialogue', Bodies',
         UNCHANGED <<job, cli, net, pipe, drain, srv>>
  PROVE  IInv'
<1>1. ~Returned
  BY DEF IInv, Flow
<1>2. Typed'
  BY DEF IInv, Typed
<1>3. Flow' /\ Stream' /\ Stored' /\ Fetched' /\ Success' /\ Reported'
  BY <1>1, Kept
<1> QED
  BY <1>2, <1>3 DEF IInv

\* One output is written.
LEMMA OutputWritten ==
  ASSUME IInv, NEW m \in Outputs, rem'.out = Append(rem.out, m)
  PROVE  /\ rem'.out \in Seq(Outputs) /\ Len(rem'.out) = Len(rem.out) + 1
         /\ Len(rem.out) \in Nat
         /\ m # "time" => /\ \A i \in 1 .. Len(rem'.out) : rem'.out[i] = "time" => i = 1
                          /\ Timing' <=> Timing
                          /\ Bit(Timing') = Bit(Timing)
<1>1. PICK k \in Nat : k = Len(rem.out)
  BY Fields DEF IInv
<1>2. /\ rem'.out \in Seq(Outputs) /\ Len(rem'.out) = k + 1
      /\ \A i \in 1 .. k : rem'.out[i] = rem.out[i]
      /\ rem'.out[k + 1] = m
  BY <1>1, Fields, Pushed DEF IInv
<1>3. \A i \in 1 .. k : rem.out[i] = "time" => i = 1
  BY <1>1 DEF IInv, Dialogue
<1>4. ASSUME m # "time"
      PROVE  /\ \A i \in 1 .. k + 1 : rem'.out[i] = "time" => i = 1
             /\ Timing' <=> Timing
  <2>1. ASSUME NEW i \in 1 .. k + 1, rem'.out[i] = "time"
        PROVE  i = 1
    <3>1. i \in 1 .. k
      BY <1>2, <1>4, <2>1
    <3> QED
      BY <1>2, <1>3, <2>1, <3>1
  <2>2. CASE k = 0
    BY <1>1, <1>2, <1>4, <2>2 DEF Timing
  <2>3. CASE k > 0
    <3>1. 1 \in 1 .. k /\ rem'.out[1] = rem.out[1]
      BY <1>2, <2>3
    <3> QED
      BY <1>1, <1>2, <2>1, <2>3, <3>1 DEF Timing
  <2>4. k = 0 \/ k > 0
    BY <1>1
  <2> QED
    BY <2>1, <2>2, <2>3, <2>4
<1> QED
  BY <1>1, <1>2, <1>4 DEF Bit

\* The target answers, well or badly, or sends a time record first.
LEMMA RemoteTellsKeeps ==
  ASSUME IInv, RemoteTells
  PROVE  IInv'
<1>1. /\ UNCHANGED <<job, cli, net, pipe, drain, srv>> /\ Running
      /\ \/ job.kind = "put" /\ rem.turn \in {1, 3, 6}
         \/ job.kind = "get" /\ rem.turn \in {2, 5}
      /\ rem.turn \in 1 .. 6
  BY MirrorTurns DEF IInv, RemoteTells
<1>2. drain.pc # "end" /\ ~Broken /\ rem.exit = "none" /\ Bit(rem.exit = "nonzero") = 0
  BY <1>1, RunningFacts
<1>3. Taken' = Taken
  BY <1>1 DEF Taken, Answers, Chunks, Bit
<1>4. CASE rem' = [rem EXCEPT !.turn = @ + 1, !.out = Append(@, "ok")]
  <2>1. /\ rem'.turn = rem.turn + 1 /\ rem'.n = rem.n /\ rem'.exit = rem.exit
        /\ rem'.timed = rem.timed /\ rem'.out = Append(rem.out, "ok")
    BY <1>4 DEF IInv, Typed, Targets
  <2>2. "ok" \in Outputs /\ "ok" # "time"
    BY DEF Outputs
  <2>3. rem' \in Targets
    <3>1. rem.turn + 1 \in 1 .. 7
      BY <1>1
    <3>2. Append(rem.out, "ok") \in Seq(Outputs)
      BY <2>1, <2>2, OutputWritten
    <3> QED
      BY <1>4, <3>1, <3>2 DEF IInv, Typed, Targets
  <2>4. Dialogue'
    <3>1. Answers(rem.turn + 1) = Answers(rem.turn) + 1
      BY <1>1, Counts
    <3>2. Answers(rem.turn)' = Answers(rem.turn) + 1 /\ Chunks(rem.n)' = Chunks(rem.n)
      BY <1>1, <2>1, <3>1 DEF Answers, Chunks, Bit
    <3>3. Bit(rem.exit = "nonzero")' = Bit(rem.exit = "nonzero")
      BY <2>1 DEF Bit
    <3>4. Bit(Timing') = Bit(Timing)
      BY <2>1, <2>2, OutputWritten
    <3>5. Sent' = Sent + 1
      BY <3>2, <3>3, <3>4, Counting DEF IInv, Sent
    <3>6. Taken' + Len(rem'.out) <= Sent'
      BY <1>3, <2>1, <2>2, <3>5, OutputWritten, Counting DEF IInv, Dialogue
    <3>7. /\ \A i \in 1 .. Len(rem'.out) : rem'.out[i] = "time" => i = 1
          /\ Timing' <=> Timing
      BY <2>1, <2>2, OutputWritten
    <3> QED
      BY <1>1, <2>1, <3>6, <3>7 DEF IInv, Dialogue
  <2>5. Bodies'
    BY <1>1, <1>2, <2>1 DEF IInv, Bodies
  <2> QED
    BY <1>1, <1>2, <2>3, <2>4, <2>5, RemoteKeeps
<1>5. CASE rem' = [rem EXCEPT !.out = Append(@, "bad"), !.exit = "nonzero"]
  <2>1. /\ rem'.turn = rem.turn /\ rem'.n = rem.n /\ rem'.exit = "nonzero"
        /\ rem'.timed = rem.timed /\ rem'.out = Append(rem.out, "bad")
    BY <1>5 DEF IInv, Typed, Targets
  <2>2. "bad" \in Outputs /\ "bad" # "time"
    BY DEF Outputs
  <2>3. rem' \in Targets
    <3>1. Append(rem.out, "bad") \in Seq(Outputs)
      BY <2>1, <2>2, OutputWritten
    <3> QED
      BY <1>5, <3>1 DEF IInv, Typed, Targets, Exits
  <2>4. Dialogue'
    <3>1. Answers(rem.turn)' = Answers(rem.turn) /\ Chunks(rem.n)' = Chunks(rem.n)
      BY <1>1, <2>1 DEF Answers, Chunks, Bit
    <3>2. Bit(rem.exit = "nonzero")' = 1
      BY <2>1 DEF Bit
    <3>3. Bit(Timing') = Bit(Timing)
      BY <2>1, <2>2, OutputWritten
    <3>4. Sent' = Sent + 1
      BY <1>2, <3>1, <3>2, <3>3, Counting DEF IInv, Sent
    <3>5. Taken' + Len(rem'.out) <= Sent'
      BY <1>3, <2>1, <2>2, <3>4, OutputWritten, Counting DEF IInv, Dialogue
    <3>6. /\ \A i \in 1 .. Len(rem'.out) : rem'.out[i] = "time" => i = 1
          /\ Timing' <=> Timing
      BY <2>1, <2>2, OutputWritten
    <3> QED
      BY <1>1, <2>1, <3>5, <3>6 DEF IInv, Dialogue
  <2>5. Bodies'
    BY <1>1, <1>2, <2>1 DEF IInv, Bodies
  <2> QED
    BY <1>1, <1>2, <2>3, <2>4, <2>5, RemoteKeeps
<1>6. CASE /\ MirrorTurn("record") /\ ~rem.timed
           /\ rem' = [rem EXCEPT !.turn = @ - 1, !.out = Append(@, "time"),
                                 !.timed = TRUE]
  <2>1. job.kind = "get" /\ rem.turn = 2
    BY <1>6, MirrorTurns DEF IInv
  <2>2. /\ rem'.turn = 1 /\ rem'.n = rem.n /\ rem'.exit = rem.exit
        /\ rem'.timed = TRUE /\ rem'.out = Append(rem.out, "time")
    BY <1>6, <2>1 DEF IInv, Typed, Targets
  <2>3. "time" \in Outputs
    BY DEF Outputs
  <2>4. rem' \in Targets
    <3>1. rem.turn - 1 \in 1 .. 7
      BY <2>1
    <3>2. Append(rem.out, "time") \in Seq(Outputs)
      BY <2>2, <2>3, OutputWritten
    <3> QED
      BY <1>6, <3>1, <3>2 DEF IInv, Typed, Targets
  <2>5. rem.n = 0 /\ ~Timing
    BY <1>6, <2>1 DEF IInv, Bodies, Dialogue
  <2>6. Sent = 0
    <3>1. Answers(2) = 0 /\ Chunks(0) = 0 /\ Bit(Timing) = 0
      BY <2>1, <2>5, Counts DEF Chunks, Bit
    <3> QED
      BY <1>2, <2>1, <2>5, <3>1 DEF Sent
  <2>7. Taken = 0 /\ Len(rem.out) = 0
    BY <2>6, Counting, Fields DEF IInv, Dialogue
  <2>8. Len(rem'.out) = 1 /\ rem'.out[1] = "time"
    <3>1. rem.out = <<>>
      BY <2>7, Fields, Emptied DEF IInv
    <3> QED
      BY <2>2, <3>1
  <2>9. drain.turn <= 2
    BY <2>1, <2>7, Counting, JobFacts DEF IInv, Taken, Answers, Chunks, Bit
  <2>10. Dialogue'
    <3>1. Timing' /\ Bit(Timing') = 1
      BY <2>8 DEF Timing, Bit
    <3>2. Answers(rem.turn)' = 0 /\ Chunks(rem.n)' = 0 /\ Bit(rem.exit = "nonzero")' = 0
      BY <1>1, <1>2, <2>1, <2>2, <2>5 DEF Answers, Chunks, Bit
    <3>3. Sent' = 1
      BY <1>1, <1>2, <2>1, <2>2, <2>5, <3>1 DEF Sent, Answers, Chunks, Bit
    <3>4. Taken' + Len(rem'.out) <= Sent'
      BY <1>3, <2>7, <2>8, <3>3
    <3>5. \A i \in 1 .. Len(rem'.out) : rem'.out[i] = "time" => i = 1
      BY <2>8
    <3> QED
      BY <1>1, <2>1, <2>2, <2>9, <3>4, <3>5 DEF Dialogue
  <2>11. Bodies'
    BY <1>1, <1>2, <2>1, <2>2, <2>5 DEF IInv, Bodies
  <2> QED
    BY <1>1, <1>2, <2>4, <2>10, <2>11, RemoteKeeps
<1> QED
  BY <1>4, <1>5, <1>6 DEF RemoteTells

\* The session ends, or the target stops answering.
LEMMA RemoteStopsKeeps ==
  ASSUME IInv, drain.pc # "end", rem.exit = "none",
         UNCHANGED <<job, cli, net, pipe, drain, srv>>,
         \/ \E e \in Exits : rem' = [rem EXCEPT !.exit = e]
         \/ \E l \in {"stuck", "silent"} : rem' = [rem EXCEPT !.link = l]
  PROVE  IInv'
<1>1. /\ rem'.turn = rem.turn /\ rem'.n = rem.n /\ rem'.timed = rem.timed
      /\ rem'.out = rem.out /\ rem' \in Targets
  BY DEF IInv, Typed, Targets
<1>2. drain'.turn = drain.turn /\ drain'.n = drain.n /\ rem.exit # "nonzero"
  OBVIOUS
<1>3. Dialogue'
  BY <1>1, <1>2, Kept
<1>4. Bodies'
  <2>1. CASE Broken => Broken'
    BY <1>1, <1>2, <2>1, Kept
  <2>2. CASE ~(Broken => Broken')
    BY <2>2 DEF IInv, Typed, Targets, Broken
  <2> QED
    BY <2>1, <2>2
<1> QED
  BY <1>1, <1>3, <1>4, RemoteKeeps

\* The target reads an ack, or the end of its input.
LEMMA RemoteAwaitsKeeps ==
  ASSUME IInv, RemoteAwaits
  PROVE  IInv'
<1>1. /\ UNCHANGED <<job, cli, net, pipe, drain, srv>> /\ Running
      /\ \/ job.kind = "put" /\ rem.turn \in {2, 5}
         \/ job.kind = "get" /\ rem.turn \in {1, 3, 6}
      /\ rem.turn \in 1 .. 6
  BY MirrorTurns DEF IInv, RemoteAwaits
<1>2. drain.pc # "end" /\ ~Broken /\ rem.exit = "none"
  BY <1>1, RunningFacts
<1>3. CASE rem.in # <<>> /\ rem' = [rem EXCEPT !.turn = @ + 1, !.in = Tail(@)]
  <2>1. /\ rem'.turn = rem.turn + 1 /\ rem'.n = rem.n /\ rem'.exit = rem.exit
        /\ rem'.timed = rem.timed /\ rem'.out = rem.out
    BY <1>3 DEF IInv, Typed, Targets
  <2>2. rem' \in Targets
    <3>1. rem.turn + 1 \in 1 .. 7
      BY <1>1
    <3>2. Tail(rem.in) \in Seq(Inputs)
      BY <1>3, Fields, Popped DEF IInv
    <3> QED
      BY <1>3, <3>1, <3>2 DEF IInv, Typed, Targets
  <2>3. Dialogue'
    <3>1. Answers(rem.turn + 1) = Answers(rem.turn)
      BY <1>1, Counts
    <3>2. Answers(rem.turn)' = Answers(rem.turn)
      BY <1>1, <2>1, <3>1 DEF Answers, Bit
    <3>3. /\ Chunks(rem.n)' = Chunks(rem.n) /\ (Timing' <=> Timing)
          /\ Bit(Timing') = Bit(Timing) /\ Taken' = Taken
          /\ Bit(rem.exit = "nonzero")' = Bit(rem.exit = "nonzero")
      BY <1>1, <2>1 DEF Taken, Answers, Chunks, Timing, Bit
    <3>4. Sent' = Sent
      BY <3>2, <3>3 DEF Sent
    <3> QED
      BY <1>1, <2>1, <3>3, <3>4 DEF IInv, Dialogue
  <2>4. Bodies'
    BY <1>1, <1>2, <2>1 DEF IInv, Bodies
  <2> QED
    BY <1>1, <1>2, <2>2, <2>3, <2>4, RemoteKeeps
<1>4. CASE rem' = [rem EXCEPT !.exit = "nonzero"]
  BY <1>1, <1>2, <1>4, RemoteStopsKeeps DEF Exits
<1> QED
  BY <1>3, <1>4 DEF RemoteAwaits

\* The target writes a chunk to its file, or sends one.
LEMMA RemoteBodyKeeps ==
  ASSUME IInv, RemoteBody
  PROVE  IInv'
<1>1. /\ UNCHANGED <<job, cli, net, pipe, drain, srv>> /\ Running
      /\ job.kind \in {"put", "get"} /\ rem.turn = 4
  BY MirrorTurns DEF IInv, RemoteBody
<1>2. drain.pc # "end" /\ ~Broken /\ rem.exit = "none"
  BY <1>1, RunningFacts
<1>3. CASE rem.n = job.size /\ rem' = [rem EXCEPT !.turn = @ + 1]
  <2>1. /\ rem'.turn = 5 /\ rem'.n = rem.n /\ rem'.exit = rem.exit
        /\ rem'.timed = rem.timed /\ rem'.out = rem.out /\ rem' \in Targets
    BY <1>1, <1>3 DEF IInv, Typed, Targets
  <2>2. Dialogue'
    <3>1. Answers(4) = Answers(5)
      BY <1>1, Counts
    <3>2. Answers(rem.turn)' = Answers(rem.turn)
      BY <1>1, <2>1, <3>1 DEF Answers, Bit
    <3>3. /\ Chunks(rem.n)' = Chunks(rem.n) /\ (Timing' <=> Timing)
          /\ Bit(Timing') = Bit(Timing) /\ Taken' = Taken
          /\ Bit(rem.exit = "nonzero")' = Bit(rem.exit = "nonzero")
      BY <1>1, <2>1 DEF Taken, Answers, Chunks, Timing, Bit
    <3>4. Sent' = Sent
      BY <3>2, <3>3 DEF Sent
    <3> QED
      BY <1>1, <2>1, <3>3, <3>4 DEF IInv, Dialogue
  <2>3. Bodies'
    BY <1>1, <1>2, <1>3, <2>1 DEF IInv, Bodies
  <2> QED
    BY <1>1, <1>2, <2>1, <2>2, <2>3, RemoteKeeps
<1>4. CASE /\ job.kind = "put" /\ rem.n < job.size /\ rem.in # <<>>
           /\ rem' = [rem EXCEPT !.n = @ + 1, !.in = Tail(@)]
  <2>1. rem.n + 1 \in Nat /\ rem.n + 1 <= job.size
    BY <1>4, JobFacts DEF IInv
  <2>2. /\ rem'.turn = rem.turn /\ rem'.n = rem.n + 1 /\ rem'.exit = rem.exit
        /\ rem'.timed = rem.timed /\ rem'.out = rem.out
    BY <1>4 DEF IInv, Typed, Targets
  <2>3. rem' \in Targets
    <3>1. Tail(rem.in) \in Seq(Inputs)
      BY <1>4, Fields, Popped DEF IInv
    <3> QED
      BY <1>4, <2>1, <3>1 DEF IInv, Typed, Targets
  <2>4. Dialogue'
    <3>1. /\ Taken' = Taken /\ Sent' = Sent /\ (Timing' <=> Timing)
      BY <1>1, <1>4, <2>2 DEF Taken, Sent, Answers, Chunks, Timing, Bit
    <3> QED
      BY <1>1, <2>2, <3>1 DEF IInv, Dialogue
  <2>5. Bodies'
    BY <1>1, <1>2, <1>4, <2>1, <2>2 DEF IInv, Bodies
  <2> QED
    BY <1>1, <1>2, <2>3, <2>4, <2>5, RemoteKeeps
<1>5. CASE rem' = [rem EXCEPT !.exit = "nonzero"]
  BY <1>1, <1>2, <1>5, RemoteStopsKeeps DEF Exits
<1>6. CASE /\ job.kind = "get" /\ rem.n < job.size
           /\ rem' = [rem EXCEPT !.n = @ + 1, !.out = Append(@, "chunk")]
  <2>1. rem.n + 1 \in Nat /\ rem.n + 1 <= job.size
    BY <1>6, JobFacts DEF IInv
  <2>2. /\ rem'.turn = rem.turn /\ rem'.n = rem.n + 1 /\ rem'.exit = rem.exit
        /\ rem'.timed = rem.timed /\ rem'.out = Append(rem.out, "chunk")
    BY <1>6 DEF IInv, Typed, Targets
  <2>3. "chunk" \in Outputs /\ "chunk" # "time"
    BY DEF Outputs
  <2>4. rem' \in Targets
    <3>1. Append(rem.out, "chunk") \in Seq(Outputs)
      BY <2>2, <2>3, OutputWritten
    <3> QED
      BY <1>6, <2>1, <3>1 DEF IInv, Typed, Targets
  <2>5. Dialogue'
    <3>1. Chunks(rem.n)' = Chunks(rem.n) + 1
      BY <1>1, <1>6, <2>2 DEF Chunks
    <3>2. /\ Answers(rem.turn)' = Answers(rem.turn) /\ Taken' = Taken
          /\ Bit(rem.exit = "nonzero")' = Bit(rem.exit = "nonzero")
      BY <1>1, <2>2 DEF Taken, Answers, Chunks, Bit
    <3>3. Bit(Timing') = Bit(Timing)
      BY <2>2, <2>3, OutputWritten
    <3>4. Sent' = Sent + 1
      BY <3>1, <3>2, <3>3, Counting DEF IInv, Sent
    <3>5. Taken' + Len(rem'.out) <= Sent'
      BY <2>2, <2>3, <3>2, <3>4, OutputWritten, Counting DEF IInv, Dialogue
    <3>6. /\ \A i \in 1 .. Len(rem'.out) : rem'.out[i] = "time" => i = 1
          /\ Timing' <=> Timing
      BY <2>2, <2>3, OutputWritten
    <3> QED
      BY <1>1, <2>2, <3>5, <3>6 DEF IInv, Dialogue
  <2>6. Bodies'
    BY <1>1, <1>2, <1>6, <2>1, <2>2 DEF IInv, Bodies
  <2> QED
    BY <1>1, <1>2, <2>4, <2>5, <2>6, RemoteKeeps
<1> QED
  BY <1>3, <1>4, <1>5, <1>6 DEF RemoteBody

\* The target exits.
LEMMA RemoteExitsKeeps ==
  ASSUME IInv, RemoteExits
  PROVE  IInv'
<1>1. Running /\ UNCHANGED <<job, cli, net, pipe, drain, srv>>
      /\ \E e \in Exits : rem' = [rem EXCEPT !.exit = e]
  BY DEF RemoteExits, Exits
<1> QED
  BY <1>1, RunningFacts, RemoteStopsKeeps

\* The target's SSH server closes the session.
LEMMA ServerClosesKeeps ==
  ASSUME IInv, ServerCloses
  PROVE  IInv'
BY RemoteStopsKeeps DEF ServerCloses, Exits

\* The target hangs or stops answering, or is lost.
LEMMA RemoteFailsKeeps ==
  ASSUME IInv, RemoteFails
  PROVE  IInv'
BY RemoteStopsKeeps DEF RemoteFails, Exits

-----------------------------------------------------------------------------
(* The theorem.                                                            *)

\* A call that begins has moved nothing.
LEMMA InitIInv == Init => IInv
<1> SUFFICES ASSUME Init
             PROVE  IInv
  OBVIOUS
<1>1. PICK k \in Kinds, n \in 0 .. MaxSize :
        \E f \in IF k \in Uploads THEN {n - 1, n, n + 1} \cap Nat ELSE {n} :
          job = [kind |-> k, size |-> n, file |-> f]
  BY DEF Init
<1>2. PICK f \in IF k \in Uploads THEN {n - 1, n, n + 1} \cap Nat ELSE {n} :
        job = [kind |-> k, size |-> n, file |-> f]
  BY <1>1
<1>3. f \in 0 .. MaxSize + 1 /\ k \in {"image", "put", "get", "exec"}
  BY <1>2, SizeAssumption, KindsAssumption
<1>4. job \in Jobs /\ job.kind = k /\ job.size = n /\ job.file = f
  BY <1>2, <1>3 DEF Jobs
<1>5. /\ cli \in Clients /\ cli.n = 0 /\ cli.res = "none"
      /\ cli.pc = IF k \in Uploads THEN "send" ELSE "recv"
  BY <1>4 DEF Init, Clients, Results
<1>6. net \in Streams /\ net.up = <<>> /\ net.down = <<>>
  BY DEF Init, Streams
<1>7. /\ pipe \in Pipes /\ pipe.w = "open"
      /\ pipe.fd = IF k \in Uploads THEN "recv" ELSE "end"
  BY <1>4 DEF Init, Pipes
<1>8. /\ drain \in Drains /\ drain.turn = 1 /\ drain.n = 0 /\ drain.bad = FALSE
      /\ drain.pc = IF k = "image" THEN "save" ELSE "dial"
  BY <1>4 DEF Init, Drains
<1>9. srv \in Handlers /\ srv.status = "none"
  BY DEF Init, Handlers, Statuses
<1>10. /\ rem \in Targets /\ rem.turn = 1 /\ rem.n = 0 /\ rem.exit = "none"
       /\ rem.out = <<>>
  BY DEF Init, Targets, Exits
<1>11. Len(net.up) = 0 /\ Len(net.down) = 0 /\ Len(rem.out) = 0
  BY <1>6, <1>10
<1>12. Typed
  BY <1>4, <1>5, <1>6, <1>7, <1>8, <1>9, <1>10, <1>11, WindowAssumption DEF Typed
<1>13. Flow
  BY <1>4, <1>5, <1>7, <1>8, <1>9 DEF Flow, Uploads, Returned
<1>14. Stream
  BY <1>3, <1>4, <1>5, <1>6, <1>11 DEF Stream
<1>15. Stored
  BY <1>3, <1>4, <1>5, <1>7, <1>8, <1>11 DEF Stored, Bit, Eof, Uploads
<1>16. Fetched
  BY <1>5, <1>6, <1>8, <1>11 DEF Fetched
<1>17. Dialogue
  BY <1>8, <1>10, <1>11 DEF Dialogue, Taken, Sent, Answers, Chunks, Timing, Bit
<1>18. Bodies
  BY <1>4, <1>8, <1>10 DEF Bodies
<1>19. Success /\ Reported
  BY <1>5, <1>9 DEF Success, Reported
<1> QED
  BY <1>12, <1>13, <1>14, <1>15, <1>16, <1>17, <1>18, <1>19 DEF IInv

\* Every step keeps the invariant.
LEMMA NextIInv == IInv /\ [Next]_vars => IInv'
<1> SUFFICES ASSUME IInv, [Next]_vars
             PROVE  IInv'
  OBVIOUS
<1>1. CASE UNCHANGED vars
  <2>1. UNCHANGED <<job, cli, net, pipe, drain, srv, rem>>
    BY <1>1 DEF vars
  <2>2. Typed'
    BY <2>1 DEF IInv, Typed
  <2> QED
    BY <2>1, <2>2, Kept DEF IInv, Broken
<1>2. CASE Client
  BY <1>2, ClientSendsKeeps, ClientClosesKeeps, SendFailsKeeps, ClientReceivesKeeps DEF Client
<1>3. CASE Feeder
  BY <1>3, FeederReceivesKeeps, FeederBreaksKeeps, FeederStopsKeeps DEF Feeder
<1>4. CASE Save
  BY <1>4, SaveReadsKeeps, UploadImageKeeps DEF Save
<1>5. CASE Session
  BY <1>5, DialKeeps, HandshakeKeeps, TellKeeps, AwaitKeeps, RecordKeeps, BodyPutKeeps,
     BodyGetKeeps, ScriptDoneKeeps, SessionEndsKeeps DEF Session
<1>6. CASE Remote
  BY <1>6, RemoteTellsKeeps, RemoteAwaitsKeeps, RemoteBodyKeeps, RemoteExitsKeeps,
     ServerClosesKeeps DEF Remote
<1>7. CASE Fault
  BY <1>7, FileFailsKeeps, ClientLeavesKeeps, SaveFailsKeeps, LateKeeps, RemoteFailsKeeps
     DEF Fault
<1> QED
  BY <1>1, <1>2, <1>3, <1>4, <1>5, <1>6, <1>7, WatchContextKeeps DEF Next

\* What the invariant says of calls that have ended.
LEMMA InvArrives == IInv => ArrivesWhole
<1> SUFFICES ASSUME IInv
             PROVE  ArrivesWhole
  OBVIOUS
<1>1. cli.n <= MaxSize + 1
  <2>1. CASE job.kind \in Uploads
    BY <2>1, JobFacts, SizeAssumption DEF IInv, Stream
  <2>2. CASE job.kind = "get"
    BY <2>2, JobFacts, Fields, SizeAssumption DEF IInv, Fetched, Bodies
  <2>3. CASE job.kind = "exec"
    BY <2>3, SizeAssumption DEF IInv, Fetched
  <2> QED
    BY <2>1, <2>2, <2>3, JobFacts DEF IInv, Uploads
<1>2. drain.n <= (IF job.kind = "image" THEN job.file ELSE job.size)
      /\ drain.n <= MaxSize + 1
  BY JobFacts, SizeAssumption DEF IInv, Stored, Bodies
<1>3. rem.n <= MaxSize
  BY JobFacts, SizeAssumption DEF IInv, Bodies
<1>4. TypeOK
  <2>1. job \in [kind : Kinds, size : 0 .. MaxSize, file : 0 .. MaxSize + 1]
    BY DEF IInv, Typed, Jobs
  <2>2. cli \in [pc : {"send", "recv", "done"}, n : 0 .. MaxSize + 1,
                 res : {"none", "ok", "failed"}]
    <3>1. cli.n \in 0 .. MaxSize + 1
      BY <1>1, JobFacts, SizeAssumption DEF IInv
    <3> QED
      BY <3>1 DEF IInv, Typed, Clients, Results
  <2>3. drain \in [pc : {"save", "dial", "shake", "run", "wait", "end"},
                   turn : 1 .. 7, n : 0 .. MaxSize + 1, bad : BOOLEAN]
    <3>1. drain.n \in 0 .. MaxSize + 1
      BY <1>2, JobFacts, SizeAssumption DEF IInv
    <3> QED
      BY <3>1 DEF IInv, Typed, Drains
  <2>4. /\ net.gone \in BOOLEAN /\ Len(net.up) <= Window /\ Len(net.down) <= Window
        /\ pipe \in [fd : {"recv", "offer", "end"}, w : {"open", "eof", "err"},
                     r : {"open", "closed"}]
        /\ srv \in [status : {"none", "ok", "failed", "timedout"},
                    late : BOOLEAN, closed : BOOLEAN]
    BY DEF IInv, Typed, Streams, Pipes, Handlers, Statuses
  <2>5. /\ rem.turn \in 1 .. 7 /\ rem.n \in 0 .. MaxSize
        /\ rem.exit \in {"none", "zero", "nonzero", "missing", "lost"}
        /\ rem.link \in {"answers", "stuck", "silent"}
    <3>1. rem.n \in 0 .. MaxSize
      BY <1>3, JobFacts, SizeAssumption DEF IInv
    <3> QED
      BY <3>1 DEF IInv, Typed, Targets, Exits
  <2> QED
    BY <1>2, <2>1, <2>2, <2>3, <2>4, <2>5 DEF TypeOK
<1>5. StoredIsWhole
  BY DEF IInv, Stored, StoredIsWhole
<1>6. CopiedIsWhole
  <2> SUFFICES ASSUME cli.res = "ok"
               PROVE  CopiedIsWhole
    BY DEF CopiedIsWhole
  <2>1. /\ job.kind = "image" => drain.n = job.file
        /\ job.kind = "put" => (rem.n = job.size /\ rem.turn = 7)
        /\ job.kind = "get" => (cli.n = job.size /\ rem.turn >= 6)
        /\ job.kind = "exec" => rem.exit \in {"zero", "nonzero"}
    BY DEF IInv, Reported, Success
  <2>2. job.kind \in {"image", "put", "get", "exec"}
    BY JobFacts DEF IInv
  <2>3. CASE job.kind = "image"
    BY <2>1, <2>3 DEF CopiedIsWhole
  <2>4. CASE job.kind = "put"
    BY <2>1, <2>4 DEF CopiedIsWhole
  <2>5. CASE job.kind = "get"
    BY <2>1, <2>5 DEF CopiedIsWhole
  <2>6. CASE job.kind = "exec"
    BY <2>1, <2>6 DEF CopiedIsWhole
  <2> QED
    BY <2>2, <2>3, <2>4, <2>5, <2>6
<1> QED
  BY <1>4, <1>5, <1>6 DEF ArrivesWhole

\* An image that is stored, and a copy or a command that is reported, is whole,
\* wherever the client, the stream, the pipe, the store, the connection or the
\* target fails (UploadImage, SCPUpload, SCPDownload, SSHExec).
THEOREM ArrivesWholeHolds == Spec => []ArrivesWhole
<1> QED
  BY InitIInv, NextIInv, InvArrives, PTL DEF Spec
=============================================================================
