# Specifications of unwedge

unwedge is a lab controller. The daemon `unwedged` owns one target board: its
serial console, its power outlet, an image directory served over TFTP, and SSH
to the running system. It offers them over gRPC to clients (`unwedge`, the
command line; `unwedge-mcp`, for agents), one of which at a time holds the
hardware. This directory holds TLA+ modules of the parts whose correctness
depends on what happens in which order, TLC configurations that check them on
small instances, and TLAPS proofs.

Run everything from this directory:

    tlasany SessionLock.tla
    tlc -workers 2 -config MCSessionLock.cfg MCSessionLock.tla
    tlapm SessionProofs.tla

## 1. Inventory

### Session lock — `internal/session/session.go`, `internal/server/session.go`

State: the holder's id, the instant of its last activity, the number of its
calls in flight, and a channel closed when it releases, all under one mutex.
`Acquire` blocks on that channel outside the mutex; `Finish`, `Refresh`,
`CallStart`, `CallEnd` and `Info` are single critical sections; a reaper ticks
every second. The gRPC interceptors wrap every operational RPC in `CallStart` /
`CallEnd` and refresh on every message of a stream.
Hard: calls outlive their session, clients die, retry and reorder, expiry is
lazy. Correct when: the counter is exact, no waiter sleeps through a release, a
session is lost only by its own request or a silent TTL, an abandoned one goes.

### Serial console — `internal/serialconsole`

State: a ring of scrollback, the set of subscribers with bounded queues, a
closed flag. One goroutine reads the port and publishes; observers
(`StreamConsole`), pattern waits (`WaitForPattern`), snapshots and the boot
orchestrator read. A subscriber whose queue is full is detached; a pattern wait
then re-subscribes and replays what it missed. The power-loss hook resets the
ring. Hard: replay against live output, detachment against close, reset in the
middle of a wait. Correct when: each subscriber sees a contiguous feed, a
snapshot is the newest output in order, a pattern printed during a wait is seen.

### Boot orchestration — `internal/uboot/uboot.go`, with `internal/power`

State: none of its own; a netboot is a conversation over the serial line:
power-cycle, wait for the autoboot invitation, send the interrupt key, then
`setenv ethact`, `dhcp`, two more `setenv`, `tftpboot`, optionally `crc32 -v`,
`bootoctlinux`, each answered by a prompt, the last by a kernel banner. Hard: nothing ties an answer to its
command, output arrives late and in pieces, calls time out half-way. Correct
when: host and boot loader are in step, an image that failed its CRC is not run,
success means that the netbooted kernel runs.

### Power — `internal/power`

An SNMP outlet: `On`, `Off`, `Status`, and `Cycle` as off, wait, on; a wrapper
resets the console before power goes. Hard: a cycle that is cancelled half-way,
an answer that is lost after the relay has switched, two power calls at once,
output of the old boot in the new log. Correct when: a reported cycle has
rebooted the target, nobody is left in the dark untold, nothing of the old log is
in the new one.

### Images — `internal/tftp`, reaper in `cmd/unwedged/main.go`

State: a directory. `Save` streams to a temporary file and renames it; `List`
computes CRCs; `Prune`, called by a ticker, removes old files; the TFTP server
opens files by name. Several daemons may share the directory under name
prefixes. Hard: every step is a system call of its own, and the daemon may die
between two. Correct when: an image name leads to a complete upload or to
nothing, to another daemon's only if the configuration gave them names that clash,
temporary files do not pile up, a verified netboot runs what was listed.

### The daemon — `cmd/unwedged`, `internal/server`

State: the resources it has opened, in order; the listener; the handlers in
flight. It opens console, power, images, TFTP and gRPC one after the other, runs
until a signal, and then drains its handlers before it closes anything. Hard: a
start that fails in the middle, handlers that never end, a listener that fails
while others run. Correct when: no handler runs over a closed console, and the
shutdown waits for nobody but those that have no end: a stream its client keeps
open, a call to a silent target.

### Clients — `internal/client`, `cmd/unwedge`, `cmd/unwedge-mcp`, `internal/mcp`

State: the session id, kept across calls; a keepalive goroutine; in the bridge a
loop over JSON-RPC messages. The bridge re-acquires and retries once when the
daemon reports its session lost. Hard: the id is shared by concurrent calls, a
retry may repeat an operation, a front end ends by a signal, the end of stdin, an
error or SIGPIPE, and three tables in three programs say what needs the lock.
Correct when: nothing runs twice, the tables agree, a request has one reply, and
the lock comes back.

### Tunnels and copies — `server.Tunnel`, `SCPUpload`, `SCPDownload`, `UploadImage`, `internal/sshexec`

Byte pumps between a gRPC stream and a TCP or SSH connection, and the file
copies, which put a goroutine and an `io.Pipe` between the stream and its
consumer. Hard: which side ends first, what is still in flight then, who unblocks
whom, which end of data is the end of the file, what a target that falls silent
holds. Correct when: what was reported as copied is there, and what was given up
leaves nothing behind if the target's SSH server still answers.

### Smoke test — `internal/smoke`

Netboot, then watch the captured console for success and failure markers, and
probe SSH. Hard: markers of an earlier boot, a target that panics and then boots
its flash, polls against output, a lock that nothing refreshes. Correct when:
PASS is earned by the boot under test, and the run is exclusive and, once uploaded, ends.

### The rest

Configuration (but for instance names), client profiles, TLS, the serial device,
the key table, generated code, init scripts: no behaviour over time. They are
listed in `PROJECT.json`.

### Interactions

    clients --gRPC--> interceptors --CallStart/CallEnd--> session lock
                          |
                          +--> handlers --> console <-- reads -- serial port
                                  |           ^  \
                                  |           |   `- WaitForPattern, Subscribe
                                  |      Reset (hook)          |
                                  +--> power -+                |
                                  +--> orchestrator -----------+--> target
                                  +--> image store <-- TFTP server <-- target
                                            ^-- reaper

## 2. Modules

| module | models | state and actions |
|---|---|---|
| `SessionLease` | the promise of the lock, as an abstract specification | who holds the lease, how long it was silent, which calls pin it; `Grant`, `Lapse`, `GiveUp`, `Touch`, `Begin`, `End`, `Age` |
| `SessionLock` | `session.Manager`, its RPCs and interceptors | `id`, `idle` (age of `lastActivity`), `activeCalls`, `released`/`closed` (the channels), one record per StartSession handler and per operational RPC; one action per critical section |
| `SessionClients` | `Client` with its session id and keepalive, `maybeAcquire` of the command line, `callWithSession` of the MCP bridge, composed with `SessionLock` | one record per client process and one per RPC on its way, in a handler or answered; the handlers are `SessionLock`'s, bound to a request (`Serve*`); `Vanish`, `Die`, `Restart` |
| `SessionProofs` | — | the invariant of the lock, its refinement, then the invariant of the clients, and the proofs |
| `Tunnel` | `Client.Tunnel` and `Service.Tunnel` | six wires, four goroutines (`Read`, `Write` and how they fail), the `errc` of each side, both functions' returns, and (external) the local program and the target |
| `TunnelProofs` | — | the book-keeping of what each pump has moved, the proof |
| `ConsoleRing` | `ring.go` | `buf`, `size`, `start`, `totalIn`, `truncated`; `Write`, `Reset`, `Snapshot`; no behaviour of its own, `Power` drives it |
| `Power` | `power.go`, `apc.go`, `hook.go`, `PowerControl`, composed with `ConsoleRing` | the relay, the bytes on the line, one record per PowerControl call; one action per SNMP exchange, the hook and the wait, `TargetPrints` and `ReadLoop` |
| `PowerProofs` | — | their invariants and proofs, the power control first, then the ring |
| `Console` | `console.go`, `StreamConsole`, `WaitForPattern` | the reader's step, the length of the scrollback, each subscriber's queue of chunks, each waiter's place in the loop |
| `PatternScanner` | `patternScanner` | where the text that matches is, what the scanner has been fed, keeps and has scanned; `Feed`, `ResetScanner` |
| `PatternWait` | `WaitForPattern` over its scanner | `Console` and a `PatternScanner` side by side: a waiter's `Feed` and `WaitSubscribe` are the scanner's `Feed` and `ResetScanner` |
| `ConsoleProofs` | — | the invariants of a queue, of a pattern wait and of the scanner, the proofs |
| `ImageNames` | `Store.Namespaced`, `OnDiskName`, `sanitize`, the instance names of `config.Validate` | operators on sequences of characters; `Clashing` says which valid names share paths |
| `ImageStore` | `imagestore.go`, the reaper, a verified netboot, for several daemons that share a directory | which file has which name, temporary files, how much of each is written, one record per Save and netboot, the sweep; one action per system call, and the `Crash` of any one of the daemons |
| `ImageShelf` | the promise of the image store, as an abstract specification | which upload is in each place, what became of each upload, what each verified netboot was shown; no paths, chunks, temporary files or sweeps |
| `UBoot` | `uboot.Orchestrator`, as the RPCs Netboot, InterruptBoot and RunUbootCommand use it, against a boot loader | the call's place, what its subscription delivered, the two directions of the serial line, and (external) the boot loader |
| `UBootProofs` | — | where host and target are while they are in step, the proofs |
| `ImageStoreProofs` | — | when paths tell instance and name apart, the invariant of the directory, its refinement of the shelf, the proofs |
| `Transfer` | `UploadImageFile`, `SCPUploadFile`, `SCPDownloadFile`, their handlers with their goroutines and pipes, `Save`'s read loop, `sshexec.Exec` and the scp protocol | the client's loop, the stream, feeder and pipe, the consumer's turn in the protocol, and (external) scp or the command on the target |
| `TransferProofs` | — | where every chunk and every answer of a copy is, the proof |
| `Smoke` | `smoke.Run`, `streamConsole`, `captureBuf`, `waitForMarker`, `checkSSH`, `cmdSmoke`, the `smoke_test` tool | the run's place and reason, the captured part of the output, the silence of its session, and (external) the target |
| `Daemon` | `unwedged`'s `run()`, the service's RPCs and what each interceptor does with them, the lock reduced to who holds it | the startup step, the stack of deferred closers, the holder, one call on its way |
| `Command` | `cmd/unwedge`: `realMain`, `dispatch`, `maybeAcquire`, every command | one command as the sequence of its calls |
| `Bridge` | `cmd/unwedge-mcp`, `internal/mcp`: `Serve`, `handleLine`, `handleToolCall`, `callWithSession`, every tool | the loop, the message and tool in hand, the replies written |
| `FrontEnds` | a command or a bridge, with the daemon | their composition |
| `FrontEndProofs` | — | the invariant of the front ends and the daemon, then that of the smoke test either of them runs, and the proofs |

The image store appears twice, as its promise (`ImageShelf`) and as the directory
that keeps it (`ImageStore`, which refines the promise). The lock appears at three depths: what it promises (`SessionLease`), as it is
coded (`SessionLock`, which refines it and which `SessionClients` drives), and
as a holder that others may take away (`Daemon`).

`MC*` modules and `.cfg` files instantiate them for TLC.

Definitions keep the names of the code where they can. In every module a comment
calls some definitions *variants*: each is the definition after it with a
plausible bug. Nothing uses them; `PROJECT.json` pairs each with the property
that notices when it is put in place of the original.

### What is abstracted

- **SessionLock.** An id is a member of `Ids` never issued before. Time is the
  age of `lastActivity`; it stops at `TTL + 1`, where every comparison has the
  same result. A channel is the id of the session it was made for; `closed` is
  the set of closed ones. `Refresh(i)` stands for Ping, which also reads `Info`,
  and for each message of a stream. Ids presented by clients are any id ever
  issued, or none. A handler may take any time, and never needs to end.
- **SessionClients.** A client awaits one RPC at a time; a slot of `Rpcs` is
  that RPC's request, handler and answer, and serves as both a waiter and a call
  of `SessionLock`. Which free slot, and which fresh id, is immaterial and is
  `CHOOSE`n. A StartSession reaches the daemon when it is sent: one that is late
  is a handler slow to try. A Ping is a single step, or is lost. History
  (`n`, `ran`, `res`) counts how often an operation ran and what was reported.
- **Tunnel.** A wire is first-in first-out, so its content is a number of chunks.
  gRPC flow control and TCP windows are its capacity. What a cancelled stream
  still held may be received or not; a reset of the connection discards what is
  on the way, an orderly close does not. The first message carries no data, as
  `Client.Tunnel` sends it.
- **ConsoleRing, Power.** A byte is its ordinal in the output, so that order,
  gaps and staleness show. What was printed is on the line until `readLoop`
publishes it, any number of bytes at a time and any time later; the hook may
reset the ring in between. An SNMP Set takes effect before it returns or not at
  all; its answer may be lost either way. Status may fail, and the caller is told
  "unknown". The time of the wait is left out: it ends, or is cancelled.
- **Console.** A byte is its position since the start; a chunk is an interval;
  the scrollback is the newest `size` positions, which `SnapshotIsTail` of
  `ConsoleRing` justifies. The pattern is two adjacent positions, so a match may
  straddle chunks; that the scanner sees it then is `PatternScanner`'s part.
- **PatternScanner.** The stream's content is where the text that matches is, at
  most one byte longer than the overlap; where several texts match it is any one of them. It
  matches whatever stands around it: a pattern anchored with `^` or `$` may also
  match where a scan happens to begin or end, which is not modelled.
- **ImageStore.** A file is the upload that wrote it, `Size` chunks long; its CRC
  is its identity. Modification times are one bit, older than `maxAge` or not.
  Prune's cutoff is fixed when the sweep starts (`stale`), and a write after
  that refreshes the file. Which uploads overwrite is fixed (`Overwriting`). One
  sweep at a time stands for those of all daemons. A crash takes the uploads and
  netboots of one daemon, and the sweep if that is its. U-Boot's TFTP and CRC steps are single actions here.
- **Transfer.** A file is a number of chunks; the file may be longer or shorter
  than announced. What a scp turn exchanges (an ack, a record, the body) is kept,
  its text is not. The program on the target may hang (`rem.link` is "stuck"), its
  SSH server fall silent, or the connection be lost. To close a session is a message
  that the server answers (`ServerCloses`); from then on the daemon's writes fail,
  but `Run`, `Wait` and a read of the output return only when the server has ended
  the session or the connection is gone. Dial and run are stages that the deadline
  reaches; the handshake is not.
- **Smoke.** Of the output only markers are kept, each with the image that
  printed it. The capture is a prefix of what was printed since it began: the
  observer's queue may be closed at any time. Time passes only where `Run` waits.
- **Daemon, Command, Bridge.** A command or a tool is the sequence of its RPCs;
  any of them may fail, and what comes after is then left out; a smoke test makes a
  failed netboot its verdict, so that the bridge does not repeat it, and an upload
  may see `io.EOF` in place of a refusal. Arguments are right
  or wrong, which a sequence without calls stands for. One front end at a time
  and its one call in flight stand beside "the other clients", who take and
  return the lock freely; whether one of them is in a call that has no end matters
  only once the daemon is told to stop, and `watch` is chosen then. Every stream,
  and SSHExec, may be such a call (`Endless`). SIGPIPE kills a command or the bridge
  at a write to a stdout that was closed; stderr is taken to stay open. The start of the image
  store, reaper and TFTP server is one step.
- **UBoot.** The console is tokens: invitation, prompt, banner, answer or
  complaint of a command. `Deliver` cuts the output into chunks anywhere. A wait
  ends with the first chunk that makes it match (`Matched`). Of the `setenv`
  commands only that of `ethact` has a complaint that is looked for. The target does
  not reset by itself in the middle of a command or a boot. The boot loader is modelled from what the
  orchestrator expects of it and from the emulator in `uboot_test.go`: the
  interrupt key is harmless at the prompt; input typed while it is busy may
  be kept or lost; the image in flash prints the same banner.

## 3. What the runs check

Passing runs:

| run | bounds | what it shows |
|---|---|---|
| `lock` | 3 ids, 2 waiters, 2 calls, TTL 2 | the counter is exact (`CallsCounted`), no lost wakeup (`NoLostWakeup`), a call outlives its session only if that was finished (`StaleCallsWereFinished`), the lock implements `SessionLease` (`LeaseSpec`), an abandoned session goes and a free lock is taken (`LockCirculates`) |
| `clients` | 1 command with 1 operation, 1 bridge with 2, 2 RPCs, 3 ids, TTL 4 and ping interval 1, one ping lost in a row, 1 restart | no operation runs twice and a reported one ran once (`ExactlyOnce`), whoever still waits for a running operation has the lock (`DriverHolds`), the keepalive keeps a command's lock (`CommandKept`) |
| `tunnel` | wires of 1 chunk, 2 chunks each way | where the client's receiver reports the end, the tail of the target's output has arrived; where its sender does, the daemon is done and has sent it (`TailArrives`); the daemon's handler and goroutines end with the client, and the tunnel with the local program (`TunnelUnwinds`) |
| `console` | 1 observer or waiter at a time, ring 4, window 4, overlap 1, queue 2, chunks of 1 or 2, 7 bytes, 1 reset | a contiguous feed (`FeedHasNoGap`), slow is not closed (`ClosedMeansClosed`), a re-armed wait scans nothing older than itself and skips nothing of its own (`ReplayIsExact`), its scan finds what a search of everything received would (`ScanFindsAll`), the pattern is found (`PatternFound`) |
| `power` | 2 calls of any action, ring 3, 7 bytes, printed and published in pieces of any size | a snapshot is the newest output in order (`SnapshotIsTail`), a reported cycle has rebooted the target (`ReportedCycleRebooted`), an outlet left off was asked for or reported (`DarkIsTold`), after a reported cycle or off nothing of the log as it was at the call is left (`FreshLog`) |
| `images` | 4 daemons, one pair with names that would collide under one dash, two more that share a path with the second, 2 uploads of 1 chunk, one of them to overwrite, 1 verified netboot, 1 crash of one daemon | names lead to complete files (`VisibleIsComplete`), of the daemon's own or of one whose name clashes with its (`NamesLeadHome`), only a crash leaves debris (`TempsAreOwned`) and that is swept (`AbandonedReclaimed`), and the directory implements `ImageShelf` (`ShelfSpec`): an upload takes its place whole and at once or never, a verified netboot runs what it was shown, whatever the daemons, the sweep and the crash do |
| `netboot` | 4 RPCs, 2 interrupt keys | from a power-cycled interrupt on, while no wait is given up, host and target are in step (`InStep`); then a verified netboot runs no image with a wrong CRC (`SyncedBootIsVerified`), and a netboot reported as booted is (`BootedIsNetbooted`) |
| `transfer` | the 4 kinds of call, files of 0 to 2 chunks and one more or less than announced, streams of 1 message | what is stored or reported as copied is whole (`ArrivesWhole`), a call given up or timed out leaves neither handler nor goroutine, whatever the program on the target does, while its SSH server answers (`NothingStays`), the parties never all wait for one another (`CallEnds`) |
| `smoke` | both front ends, 3 kinds of SSH check, 3 markers, TTL 2, a marker awaited for 4 (command) or 2 (bridge) | PASS needs the first marker since the capture began to be good (`PassIsEarned`), with `SSHExpect` the uploaded image answered (`ExpectedImageRan`), the session lasts as long as the run (`RunIsExclusive`), there is a verdict once the image is uploaded or its caller gave up (`VerdictReached`) |
| `frontends` | one command of any kind, or one bridge reading any messages, the daemon from start to end, others | the three tables of what needs the lock agree (`LockTablesAgree`), the lock is returned but in the cases below (`LockReturned`), a request has one reply (`OneReply`), the second attempt of a tool repeats nothing the first has done (`RetryRepeatsNothing`), no handler runs over a closed console (`ServedFromOpen`), the daemon, bridge or command that is told to end does, unless a call that has no end holds it (`EveryoneEnds`) |

Outside the lock, the ring and power, the first property of a module has its
type invariant as a conjunct, so that each run asks distinct questions and none
only whether a variable has its type.

Why the bounds are enough to be interesting. One command and one bridge compete
for the lock with an RPC left over from whoever gave up; two operations of the
bridge let one find the session of the other lost, after a lapse or a restart.
With one chunk in a wire and one in each pump, two chunks each way block a
writer, and leave a tail in every hop when an end closes. Three ids let a third session begin
while calls of the first two are running and late requests name either. Two
waiters race for one release. A queue of two chunks and seven bytes of output
detach a waiter twice; a ring of four evicts. The pattern may straddle
two chunks, and the place where a window of four is cut. Two uploads and a sweep meet at
every pair of system calls, and a crash leaves each kind of debris. Subscribers do
not touch one another, so one handler at a time (`MaxHandlers`) shows what many
would. Four RPCs
let one find what three others left on the line; the second key is surplus at the
prompt, as up to seven are in the code (`MaxAttempts` is 8 there).

Two PowerControl calls meet at every SNMP exchange, and a ring of three is filled,
overrun and reset in between, with output of the old boot before and behind the
reset. The instance names `a` and `a-b`, with image names that begin with a dash or
hold one, are what a prefix can confuse and two dashes do not; the name `a-b-` and the
empty one are what `Config.Validate` admits and two dashes do confuse. With a stream of one message a file of two chunks blocks its sender
at every hop; a file that is longer or shorter than announced finds both ends of each
copy loop. Three markers are the old system's, a panic's and the flash's. The
bridge of `frontends` may read any number of messages: each turn begins from
the same state, so the state space is finite without a bound.

Runs that end in a counterexample, each against a sentence of the
repository (`findings` in `PROJECT.json` quotes it):

| run | what happens |
|---|---|
| `tunnel_crash` | the client dies while the daemon is in `conn.Write` to a target that does not read: the handler never returns, so the session has a call in progress for ever |
| `netboot_verify` | a netboot times out in a command; the next, without power cycle, is one prompt ahead and boots an image whose CRC was wrong |

### Behaviour the models also show, against which no run is kept

- FinishSession clears the lock while calls of its session run, so that the next
  holder's run beside them (`DriverHolds` says which these are).
- Of two uploads of one name without overwrite the second replaces the first: the
  name is tested when the upload begins (`imagestore.go:103`) and renamed over
  when it ends (`:131`). `ShelfSpec` says just this: that the place was empty when
  the upload was offered.
- The reaper removes by name what it has tested by name, so an image uploaded in
  between goes.
- "each instance stores its images under a `<name>--` prefix [...], so two devices
  never clobber each other" (the repository's `README.md:115-117`). `Config.Validate`
  (`config.go:214`) admits names for which they do: `a` with image `-x` and `a-`
  with image `x` share `a---x`; and a daemon that is given no name, as in the
  default configuration, shares any path of the others: its image `a--x` is the
  image `x` of `a`. So do two daemons of the same name, of course, which nothing
  checks. `NamesLeadHome` says that these are the only cases: the run has both, as
  images of the daemon `a-b`, and it fails if `Clashing` excepts either less.
- A pattern wait armed before a reset and detached after it replays too little
  (`console.go:330`): `armTotal` is older than the counter it is compared with. And
  what is published between that count and the re-subscription pushes as many of
  the oldest bytes out of the replay, though the comment at `:326` says that a pattern
  in the gap is not missed. `ReplayIsExact` and `PatternFound` except both.
- A log "starts at the last power event" (`hook.go:9`): the hook resets what has been
  published; bytes then on the line, in the kernel or in the reader's hands, or
  printed before the outlet is off, open the new log. `FreshLog` says what holds:
  nothing of the log as it was when the call was made is left.
- `StreamConsole` says "console closed" to an observer that was merely slow. A
  write of exactly the capacity into an empty ring sets `truncated`.
- An upload that is refused while it is still sending fails with `io.EOF`
  (`client.go:252`), not with the status the bridge looks for, and is not repeated.
- The deadline of an SSH call does not cover the handshake (`sshexec.go:137`; the
  comment at `:160` says "covering dial + run"), and afterwards it closes the session
  by a message, which does not "unblock Wait" (`:179`) if the target's SSH server is
  silent: with such a target the handler outlives its timeout and its client. A
  program that hangs behind a server that answers does not hold it. `NothingStays`
  excepts the silent server.
- The timeout of an scp upload does not end the read from the client: one that
  failed and left its stream open holds the handler (`client.go:388`, in the bridge).
- A tunnel whose local program half-closes loses the answer still on its way.
- A tunnel whose local program writes after the daemon has ended the stream meets
  `io.EOF` in `Send` (`client.go:306`), which `Tunnel` takes for a good end (`:337`)
  and returns nil: the tail still in the stream is not read, and the status of a
  handler that failed is swallowed. `TailArrives` says what holds in this case too:
  the handler is done and, had the target closed in order, all was sent.
- A command other than a proxy, and the bridge, whose stdout was closed die by SIGPIPE
  at the next write (`mcp.go:212`), before their deferred release
  (`cmd/unwedge-mcp/main.go:102`): the lock waits for the idle expiry. `LockReturned`
  excepts this, and a release or grant that a signal or the daemon's end cut off.
- `GracefulStop` (`cmd/unwedged/main.go:240`) waits without a limit for any stream that a
  client keeps open, an upload that stalls as well as an observer, and for a call
  to a target whose SSH server is silent.
- The smoke test's upload has no timeout (`smoke.go:106`), unlike every later step.
- A bridge that waits for a line does not notice a signal (`mcp.go:90`): only
  the end of its stdin ends it, which is what `EveryoneEnds` asks. `initialize`,
  `ping` and `tools/list` are answered even when they are notifications.
- A command takes the lock before it finds its arguments wrong or its name
  unknown, and returns it.
- A smoke test through the bridge with a `boot_timeout_ms` above the TTL, or
  against a daemon with a shorter `session.ttl`, loses the lock in the middle:
  `Smoke!DefaultsAssumption` says that the defaults do not.

### Fairness

- `SessionLock`: the clock, the reaper (its ticker fires every second until the
  daemon stops) and a runnable StartSession goroutine. Nothing is assumed of
  clients, nor that a handler ends: a session with a call in progress may last.
- `PatternWait`: the goroutine of a waiter. Not the target, which may fall silent.
- `Tunnel`: its goroutines, and dialling, which has a timeout. `FairSpec` adds
  that local program and target read what they are sent; `DaemonSpec`, of the run
  `tunnel_crash`, does not.
- `SessionClients`, `Power`, `UBoot`: none, their properties are safety.
- `ImageStore`: the reaper's sweep, and that untouched files age. With a `max_age` of
  zero there is no reaper, and debris stays.
- `Transfer`: every goroutine, the client's included as long as it has not failed
  or left, a program on the target that goes on, and an SSH server that answers. Either
  may fall silent for good, and no timeout need ever pass.
- `Smoke`: `Run` where it is `Timed`, which the upload is only by its caller, and time.
  Neither the target nor the console's stream.
- `FrontEnds`: the goroutines of daemon, command and bridge; other clients
  give the lock up only once the daemon drains (the reaper takes it from them).
  Not that a handler of a stream or of `SSHExec` ends (`Endless`), that a line comes, or
  that a signal does.

`CHECK_DEADLOCK FALSE` is given where a behaviour ends: the bounded uploads,
netboots, calls or operations are used up, the tunnel is closed, the run has its
verdict, the daemon and its front end have exited.

### Assumptions about time

`UBoot!PowerOn` waits for the serial line to be silent: the outlet is off for
`off_duration` (5 s by default), and within it the console has read what the
target had printed. Without this assumption `InStep` is violated with three
netboots: an invitation and a prompt of the previous boot, delivered late, pass
for the new one's. A deployment that shortens `off_duration` should know.

`SessionClients!ClockTick` assumes that a keepalive is sent no later than
`Latency` after it is due and that the grant of a lock is received as soon, and
`Keepalive` that no more than `MaxLost` pings in a row are lost.
`DelayAssumption` says how much of that a ping every TTL / 3 makes up for:
`(MaxLost + 1) * (TTL \div 3) + 2 * Latency <= TTL`. With one lost ping each delay
may be up to a sixth of the TTL, with two there is room for none. `CommandKept`
holds then, and fails with an interval of TTL / 2.

## 4. What is proved

### The lock — `SessionProofs`

For any sets of ids, waiters and calls (calls finite) and any TTL:
`CallsCountedHolds`, `NoLostWakeupHolds`, `StaleCallsWereFinishedHolds`,
`TypeOKHolds`; `HolderKeptHolds` (why a holder loses the lock) and
`LapsedStaysLapsedHolds` (a session once lapsed is never used again), which no
run checks because they follow from `LeaseSpec`; and `ImplementsLease`: every behaviour
of the lock is one of `SessionLease`.

The invariants are not inductive one by one, so `IInv` adds two
facts. `HolderChannel`: while somebody holds the lock, the channel to be closed is its
own, open, and its id was issued; while nobody does there is none. `SidsIssued`:
the session of every running call was issued. The first makes a new channel
different from every closed one and gives `NoLostWakeup`; the second means that a fresh id
has no calls, so that a count starting at zero is exact. `InitIInv` and
`NextIInv` (one step per action) make `IInv` an invariant. The refinement maps
`activeCalls` to the set of the holder's calls; `LapsedIsOver` shows that the
counter is positive exactly when the set is not empty, which is where
`CallsCounted` is needed. The action properties follow step by step from the
same invariant.

The assumptions are those of the module: the empty string is no id, the
operational calls in progress are finitely many, the TTL is positive. The
constants of `SessionClients`, which the module extends, play no part.

### The clients — `SessionProofs`, second part

For any number of commands, bridges, requests and restarts: `ExactlyOnceHolds` and
`DriverHoldsHolds`; and for any TTL, delay and number of lost pings that satisfy
`DelayAssumption`: `CommandKeptHolds`. `CInv` adds to `IInv`, which a step of the
clients keeps because it takes a step of the lock or none:

- `Slots`, `Waiting`: a handler of the lock serves a request of its kind with the
  request's session, and what a client awaits is a request of its own.
- `Tokens`: an id is in the hands of one client at most, who has not asked to
  finish it. A restart issues no id again, so that an old one names nobody.
- `Operations`: one request at most carries the operation a client is at; as long
  as it has not arrived, or once it was refused, the operation has not run. A
  retry after a refusal is therefore the first run, and a broken call is not retried.
- `Kept`: how long ago the daemon heard of a command is at most the age of its last
  ping, the lost ones before it and the delay (`Allowance`).

`DriverHolds` follows with `StaleCallsWereFinished` of the lock: a call outlives
its session only if that was finished, which a client that awaits the call has
not done.

### Power — `PowerProofs`

For any number of PowerControl calls at once, any ring and any output:
`ReportedCycleRebootedHolds`, `DarkIsToldHolds`, `FreshLogHolds`, and
`OnlyAnotherCallUndoesHolds` (a call reads back the opposite of what it did only
if another switched the outlet). The properties speak of finished calls; `IInv`
says what a call may count on while it is at work. `Rebooted`: a cycle that
waits and finds the outlet on has been overtaken by someone who switched it on,
so the reboot has already happened. `Cleared`: from the hook on nothing that was
published before the call is in the scrollback; what is on the line comes behind it. `Accounted`: a dark outlet has an author, maybe
a cycle not yet done. `Opposed` names the opponent. `SetEffect` and `Moved` say
what one exchange can change, `CallIInv` what is left to show for it.

### The scrollback — `PowerProofs`, second part

For every capacity and every sequence of writes and resets that `Power` makes:
`SnapshotIsTailHolds`, and with it `TypeOKHolds` and `TruncationReportedHolds`
(what a snapshot leaves out it says it leaves out). The
invariant says where every byte is: the i-th of the newest `size` bytes is i
slots behind `start`, around the buffer. Modular arithmetic is out of the
provers' easy reach, so `Modulo` and `Onward` replace `%` by `Around`, a case
distinction that holds up to three times the capacity, which is as far as the
code ever goes.

### Images — `ImageStoreProofs`

For any images, names, uploads and crashes that `Config.Validate` and `sanitize`
admit: `VisibleIsCompleteHolds` and `NamesLeadHomeHolds`. `SplitPath` shows that two
dashes split a path in one way only if the instance name neither holds two nor ends in
one; `PathsApart`, from it, that two images that share a path are one, or belong to
daemons whose names clash. The invariant is that every path leads to a complete
upload that was given an image of that path.

Temporary files and netboots have invariants of their own. `TempsAreOwnedHolds`
rests on `TInv`: a temporary file belongs to an upload that copies or was cut off by a
crash. `VerifiedBootIsStoredHolds` rests on `BInv`: what a netboot has fetched is a
complete upload, stored where the name it asked for is kept; that the name may be
replaced or removed meanwhile does not matter, because an upload that is saved stays
what it is (`SavedStays`). No run checks this property by itself: a netboot that runs
anything else would break `ShelfSpec`.

`ImplementsShelf`: every behaviour of the directory is one of `ImageShelf`, whose places
are the paths. It assumes nothing of the names: daemons whose names clash have places in
common there, too. The rename of an upload is the one step that fills a place. A sweep or a
deletion empties one. Temporary files, copies and what a netboot does between
listing and fetching map to stutters, and a crash to the end of every offer and order of
that daemon that was still open; that a failed copy is withdrawn, and that a netboot runs
what it was shown, needs `IInv`, `TInv` and `BInv`.

### The console — `ConsoleProofs`

For any observers and waiters, any ring, queue and window: `FeedHasNoGapHolds`,
`ClosedMeansClosedHolds`, `ReplayIsExactHolds`. A queue is `Sound` if its chunks
continue what was read from it and, while it is attached, reach the newest byte; one lemma
for each thing that happens to a queue (`Delivered`, `Received`, `Opened`,
`Detached`) keeps that. A waiter is `WaitSound` if the counters it took when it
was armed still say where that was, unless the scrollback was reset since; a re-subscription
then reaches back to there, or as far as the scrollback and the scanner's window
go, and no further.

The scanner's part of the module: for any window, any overlap of at most half
of it, and any chunks, `FindsAllHolds`: the scanner finds what a search of
everything it was fed would. `Covered` says that what it keeps it has scanned, and that this is
all it was fed or no less than the overlap. A match that is not complete when a
chunk arrives begins within the overlap, so it is looked at again.

`PatternWait` runs both side by side. `PatternIsConsole` says that this adds no
behaviour to `Console`, so that what holds of the console holds there.
`ScanFindsAllHolds` ties them together: what a waiter has accumulated since it last
subscribed is what its scanner was fed since it was last reset (`Fed`), and the text
that matches is where `Console` says the pattern is. It is stated for one waiter, as the
scanner belongs to one.

### The netboot — `UBootProofs`

For any number of calls and interrupt keys, and whatever the output is cut into:
`InStepHolds`, `SyncedBootIsVerifiedHolds`, `BootedIsNetbootedHolds`. Host and target have no
shared state; the invariant says what the host may conclude from what it heard.
`Booting`: after a power cycle, a prompt that was heard or is on the line is the newest
token of this boot and the target is at it (`Told`), which is where the silent
line of `PowerOn` is needed. `InTouch`: from then on, a call that
is in step finds the target at the prompt with nothing on the line (`Quiet`),
except while it awaits the answer to a command. That command is then in one of
three stages: not read yet (`Unread`), in execution (`Executed`), or answered or
complained of (`Over`). A wait that ends has thus seen the answer to its own
command. `Verified`: the last step with `verify_crc32` is reached only
with an intact image, and its boot command is the first the target will read.

### The transfers — `TransferProofs`

For files, announced sizes and stream windows of any size, and wherever client, stream,
daemon or target fails: `ArrivesWholeHolds`. `IInv` follows the data from one end to the other:

- `Stream`, `Stored`: every chunk of an image is on the stream, in the pipe or with
  `Save`, and the end of the file is behind all of them. `Save` therefore sees an
  end in order only after the whole file.
- `Fetched`: every chunk that was downloaded is on its way to the client or there.
- `Dialogue`: the daemon has taken no more answers than the target has given, counted in
  `Taken` and `Sent`. A copy that has its last acknowledgement thus has one from a target
  that is through, which no inspection of a single message shows, as they are all alike.
- `Bodies`: how far each side is with the body, given its turn in the protocol. A
  target whose file is too short ends without the last answer.
- `Success`, `Reported`: what a handler that returned no error has moved, and that
  the client reports no more than that.

### The front ends — `FrontEndProofs`

`LockTablesAgreeHolds`, `LockReturnedHolds`, `OneReplyHolds`, `ServedFromOpenHolds` and
`RetryRepeatsNothingHolds`. `FrontEnds` has no sizes and the run examines all of its
states, so what the proofs add is the reason. An answer is read at any time after it was given,
and meanwhile the session may have expired, been taken by others, or the daemon gone; the
invariant is about what remains true of it:

- `Told`: a refusal means that the caller has no session when it reads it, whatever
  happened in between, and a FinishSession answered means that it has none.
- `CommandSound`: a command at its calls has the lock, or only exempt calls left, or
  was told not to take it, or the daemon no longer serves or does not lock. `ScriptsSound` is where
  `lockFreeCommands` meets `sessionExemptMethods`.
- `BridgeSound`: if the lock is the bridge's, the bridge knows of the session, is
  about to, or is returning it. Hence its deferred release finds what there is to
  return. `ToolsSound` compares the tools' calls with both tables.
- `Attempt`: a tool has one call, or is a smoke test, whose netboot is not repeated.
- `Opened`, `Quiet`: what was opened stays open until GracefulStop is through, and
  then no handler runs. `Replied` counts the replies of a message.

- `CutOff`: what is left of a lock whose holder is gone, or about to go without
  it, was cut off by a signal or by the end of the daemon, and never by an answer.

One lemma per action of the daemon, the command and the bridge; `MoveIInv`,
`CallIInv`, `CommandMoves` and `BridgeMoves` say what is left to show of a step that touches only
the daemon, the call, the command or the bridge.

### The smoke test — `FrontEndProofs`, second part

For any number of markers and any times for which `DefaultsAssumption` holds:
`PassIsEarnedHolds`, `ExpectedImageRanHolds`, `RunIsExclusiveHolds`. The invariant says
that the capture is a prefix of what was printed since it began (`Ordered`),
what each place in `Run` has established (`Earned`, `Reasoned`), which image has
answered (`Shown`), and how long the session has been silent (`Heard`).

### The tunnel — `TunnelProofs`

For any capacity of the wires and any amount of data: `TailArrivesHolds`. The
invariant is book-keeping: what a pump of the way back has written, with what it holds and
what the wire before it holds, is what its source has written, as long as it has
not ended (`FromTarget`, `ToClient`). A failed write or a reset is reported as a
failure and not as an end (`Reports`), and no stage ends in order before the one
in front of it, unless the local input has ended (`Stages`, `Endings`). A `Send` that
meets the end instead finds the handler done (`SendEnded`), and no more than that.

### Only model-checked

Liveness (`LockCirculates`, `TunnelUnwinds`, `PatternFound`,
`AbandonedReclaimed`, `NothingStays`, `CallEnds`, `VerdictReached`, `EveryoneEnds`):
the provers do not do fairness. Every invariant, action property and refinement
of a passing run is proved.

## 5. Plan

Modelled since the first version of this plan: image names, power, the upload
pipe and the scp copy (`Transfer`), the smoke test, the scanner, and, beyond it,
the daemon's life and both front ends. Proved since: the clients, the netboot,
the transfers, the pattern wait, the image shelf, the front ends. Left: `UBoot`
with two calls of one session at a time, and a target that resets in the middle of
a command or a boot.

## 6. Not modelled, and why

- Client profiles, TLS, the serial device, the key table: files, certificates,
  tables, read once. The daemon's configuration: only the form of instance names.
- Generated code holds no logic; the service's descriptor is `Daemon!Rpcs`.
- SNMP, SSH, gRPC and the TFTP transfer are libraries: where they matter they
  appear as an outcome (success, failure, late, lost, silent).
- U-Boot and the kernel, scp, the remote command, the local ssh and the agent
  are external: they do whatever the code must cope with.
- What a regular expression is: `PatternScanner` knows where the match is.
- Calls of one session at the same time drive one serial line; `UBoot` has one at
  a time.
- `Daemon` abstracts the lock to its holder, so that a session lost in the
  middle of a command is whatever `OtherAcquires`, `MineExpires` and a refusal
  make of it; the details are `SessionLock`'s and `SessionClients`'.
