# Verification of the remote access panel

TLA+ models, TLC model checks and TLAPS proofs of the server in
`src/apps/electerm-web`, the panel through which a team reaches its machines
(SSH terminals, SFTP, FTP, serial lines, remote desktops) from a browser.

Paths below are relative to `src/apps/electerm-web/src/app/` unless they begin
with `src/` or `infra/`.

## 1. The system

The platform is a fork of electerm-web with the infrastructure around it:
`apps/electerm-web` (server and browser entry code; the browser interface
itself is a dependency that the build fetches), `infra/` (deployment to a VPS
with ISPmanager, Windows targets, WireGuard, Cloudflare), `scripts/` (build,
pins, checks), `patches/`, `docs/`.

| component | state it keeps | operations | hard behaviour | correct when |
|---|---|---|---|---|
| Websocket routes and dispatch (`routes/ws.js`, `server/dispatch-center.js`, `remote-common.js`, `global-state.js`) | sessions by id, the common websocket, per terminal: output buffer, timer | open, message, close of a websocket; terminal data | chunks, timers, transfers and close in any order; close while something opens | output in order and complete; sessions end with their websocket |
| SSH session (`server/session-ssh.js`) | client, hop clients, channel, credentials tried | connect, retry with keys and prompts, shell, kill | retries through one object; kill at any await | an acceptable credential is tried; nothing is left open |
| SFTP session and transfer (`server/session-sftp.js`, `transfer.js`) | channel, transfers by id; handles, slots, counters | connect, kill; start, pause, resume, destroy | up to 64 requests in flight, destroy between two callbacks | end means a complete copy; one outcome; handles get closed |
| FTP session and transfer (`session-ftp.js`, `ftp-client.js`, `ftp-transfer.js`) | operation clients, queue | the same for FTP | destroy while a client connects | the same |
| XMODEM (`server/xmodem.js`) | state, block, retries, timers, open files | receive, send, cancel, timers | a line that damages, loses, delays | complete means complete; sessions end |
| Trzsz, Zmodem (`trzsz.js`, `zmodem.js`) | state, pending promises, timers | detect, choose files, cancel | continuations after cancel | one session at a time, which ends |
| Relays (`spice-proxy.js`, `rdp-proxy.js`, `session-vnc.js`, `session-hop.js`) | two sockets, a buffer | connect, relay, clean up | one side closes while the other opens | both sides end together, or it is known which one stays |
| Host keys (`ssh-known-hosts.js`) | the file known_hosts | check, prompt, append, replace | two connections rewrite the file | no accepted key is lost |
| Widgets, MCP (`widgets/`, `mcp/`) | instances, pending requests, tasks | start, stop, request, answer | late answers, stop during start | each request settles once |
| Browser worker (`src/.../client/entry-web/worker.js`) | websockets by id | create, close, send, listen | two creations of one id | one websocket for an id |
| Deployment (`infra/vps/ispmanager/deploy-panel.sh`) | files, containers, the proxy configuration | back up, replace, test, restore | failure between two steps, or of the step that undoes another | a configuration that fails its test does not stay |
| Build and checks (`scripts/`) | files | apply patches, compare pins | none concurrent | |

Interaction: the browser opens one *common* websocket, over which it asks for a
terminal; the server connects, registers the session under its pid and answers;
the browser then opens `/terminals/<pid>`.  An SFTP panel opens `/sftp/<id>`,
whose session borrows the SSH client of a terminal; each file copy opens
`/transfer/<id>`.  Everything runs in one Node process: interleaving happens at
callbacks and awaits, never inside a synchronous stretch, so an action of a
model is such a stretch.  Exceptions thrown in callbacks are logged
(`app.js`, `uncaughtException`) and the process goes on.

`PROJECT.json` lists every component with its status and every hazard with the
line at which it bites.

## 2. Plan

Done, in this order: file copies, terminal output, XMODEM in both directions and
the login of a direct SSH session; then the registry of sessions with the
browser worker, `FileCopy` as the promise of a file copy with `FastXfer` as its
refinement, Trzsz and Zmodem, known_hosts, the relays, the MCP widget, the
deployment script, and the hops behind the first SSH server.

What composes what: `FastXfer` implements `FileCopy` (INSTANCE ... WITH,
checked and proved); `SshRoute` extends `SshSession` with the hops and
implements it (proved), so the theorems of the login hold of every route.
`Registry` treats a login and an SFTP copy as one answer each, which
`SshSession` and `FastXfer` look into; `XmodemSend`, `Zmodem` and `Trzsz` are the
sessions to which `TermOutput` diverts; `XmodemSend` and `XmodemReceive` extend
`XmodemLine`, the line and its faults.

The theorems came after the model checks, in the order in which a mistake would
cost most: the copy and its refinement, the login and its hops, then known_hosts,
the registry, the relays, the transfers inside a terminal, the deployment, the
tasks of the MCP server, the output of a terminal, and XMODEM in both directions.
Every invariant and every property of steps that a run checks is now a theorem.

Left, in this order:

1. XMODEM with answers later than the timers, as theorems (section 5 says what they
   would need);
2. the tunnels and the proxy command of an SSH session with the leaks listed in
   section 4;
3. two runs of the deployment script at once.

## 3. The modules

In every module an action is one synchronous stretch of the program: a
callback, a message handler, or an async function from one await to the next.

### FileCopy, FastXfer - one file copy (`server/transfer.js`)

The open chain `openSrc -> stat -> openDst -> chmod -> copy` is the variable
`pc`, the callback that is pending.  `job[i]` is the request a slot has in
flight, `buf` and `dst` hold source offsets instead of bytes, so a correct copy
is the identity function.  `ReadDone`, `WriteDone`, `OpFailed` and `Poll` are
the callbacks of one slot, `CloseDone` those of the final closes, `Pause`,
`Resume`, `Destroy` and `Kill` the calls of the client and of the websocket.
`ChannelLost` and `Truncate` are the environment: the connection breaks, another
program shortens the source.  A local write may be short (`Written`), and
`writeCb` counts what it asked for; `short` is history, the offsets that were left
out in this way.  A request that is made on a channel which is closed already is
never answered (`Ask`, the state "mute"); those it had before are.  The buffer layout (`SlotCount`, `BufSize`,
`ChunkAt`, `BufAt`) is that of `onDstOpen`, including its shrinking for files
smaller than `concurrency` chunks.  `handle` is what the object knows of a file,
`file` what the server keeps open, so that a forgotten handle shows.

`FileCopy` is what the client may rely on: bytes arrive in any order, there is one
outcome at most, success only with both files closed and every byte in place, but
for those a short write left out (`skipped`), and nothing is told to a client that
gave up.

### TermOutput - output of a terminal (`routes/ws.js`)

`stream` is everything the terminal emitted, as classes of bytes ("a" ASCII,
"L2"/"L3" leads, "c" continuation); a byte is followed to the browser or to a
transfer session by its position.  `DataBuffered` is the handler for ordinary
chunks with its fast path and its timer, `DataBypass` the one for chunks over
16 KB, `DataToTransfer` the diversion to an active session, `TimerFires` the
flush.  The code compares readings of the wall clock and arms timers on the
monotonic one, so there are two clocks: `skew` is their difference, and
`StepClock` changes it.

### XmodemLine, XmodemSend and XmodemReceive (`server/xmodem.js`)

The two halves of `XmodemSession`, each composed with a peer over the line that
they share, `XmodemLine`: what is under way in both directions and the faults.  A
behaviour begins with a set of faults (`budget.faults`: damage, loss, answers
later than a timer, death of the peer, cancel, a file that does not open) and a
bound on their number (`budget.left`); a property that needs a friendlier line
names the faults it excludes.  A read hands the session any prefix of the bytes
under way, because serial data arrives in any pieces.

The parser of a receive looks for a packet byte by byte, and so does `TakeToken`.  A
packet is a head (SOH, the number, the data) followed by the bytes of its trailer.
When its SOH is damaged, or lost, the session reads on within the block: the number
of block 4 is EOT and that of block 24 CAN, and the data holds what the file
holds.  `Reads` gives the bytes that a head then offers as a first byte (`Inside`
says which control byte the data of a block has), `Plain` are the bytes that are
taken for a packet though none begins there, which its CRC refuses.  `session.stray`
is history: the control bytes that were taken from within a block.

### SshSession - the login to the first server (`server/session-ssh.js`)

A login is a series of attempts through one object.  `phase` is what the
session waits for (the server, a prompt, the handling of an error), `err` why
the last attempt failed, `cred` the fields of `connectOptions` that the retries
change, `listed` and `sshKeys` the key files still to be tried.  `world` is
everything a session meets and does not change: the bookmark, the files in
`~/.ssh`, and a server that takes keys, a password, a password and a code in one
keyboard-interactive round, or the password first and then the code.

`Connect`, `ConnectWithFile` and `ConnectDrained` are `sshConnect` with the
three outcomes of `getPrivateKey`; `Mismatch`, `Accept`, `AskCode`, `Refuse` and
`LoseLine` are the answers of the server; the actions named `After...`, `Ask...`,
`Answer...` and `Cancel...` are the branches of its `catch`, in the order of the
code's tests.  Each retry awaits the next call of `sshConnect`, so an exception
in a later attempt surfaces in the handlers around the earlier ones, which
retry again while key files are left; `catches` counts them.  A key file is a
position, and a passphrase is the key it opens.  `HopsFail` stands for a hop that
throws into these handlers, `HopTrouble` for anything the hops change
meanwhile: that is all a login knows of them.  Behind a hop, `this.conn` is the
hop's client, and `nextTry` ends that one: `HopsFail` tells whether the hop that
failed was behind another, and `beyond` records that a retry began from there, with
the client to the first server left open.

### SshRoute - the servers behind the first (`server/session-ssh.js`)

`route` is the chain of hops of the bookmark (`adjustConnectionOrder` has put
the target last), `passed` how many are logged in.  A hop opens a stream through
the present server (`Jump`, `Forwarded`, `ForwardFails`), reads the key
files there (`ReadKey`, `ReadDrained`, `ReadFails`; `ReadNothing` is the pass
without a key), logs in (`HopAccept`, `HopRefuse`, `HopLose`), and retries like
the login does (`retryJump`: passphrase, next key, agent alone, password).
`hkeys` is `jumpSshKeys`, a field of the session that outlives the hop and the
login it was read for; `htried` is history, the keys shown or given up at each
hop.  `JumpFailed` is the step in which a hop's exception reaches the login: it
is `HopsFail` of `SshSession` and what it means for the hops.

### Registry - sessions and their websockets

`server/terminal-api.js`, `dispatch-center.js`, `global-state.js`,
`session-sftp.js`, `session-ftp.js`, `ftp-transfer.js`, `session-common.js`,
`routes/ws.js` and `client/entry-web/worker.js`.  `registered` is the table of
sessions by id, `killed` history.  `CreateTerm` ... `ShellEnds` are the life of a
terminal; `KillAll`, with `cleanAllSessions`, is what every `onClose` runs.
`CreateWs` ... `WsClosed` are the worker's side of a websocket, with `insts` its
table by id and `dup` the duplicate a racing creation finds; `FileWsCloses` is
the server's side, which hears of a close at another time.  `SftpNew` ...
`SftpDestroy` and `XferNew` ... `XferWsCloses` are file sessions and transfers; an
FTP transfer has an operation client of its own.  `ExecCmd` ... `ExecCloses` is
`execCommand`, with a timeout or, which is the default, without one.

### Zmodem and Trzsz (`server/zmodem.js`, `server/trzsz.js`)

`Zmodem`: output is a sequence of byte classes ("*", "Z", "B", frame types, text
"t"); `IdleChunk` is the scan for a header with the tail kept for the next chunk,
`NoisyChunk` the same inside the window after a session, `Debris` a chunk within it
of which no record is kept, so that there can be any number, `ReceiveFileStart` ...
`SessionComplete` the events of the library, `PeerCancels`, `PeerAborts`,
`CancelZmodem`, `UserInterrupts`, `WatchdogFires`, `StreamFails` and
`DestroyZmodem` the ways to end.  `this.state` of the two is `zmodemState` and
`trzszState`.

`Trzsz`: each trigger starts a coroutine `run[r]`, whose `at` is the await it
stands at; `run[r].on` is the transfer it works with, `transfer` the one of the
session, `readers` the run whose files the session would close.  What a coroutine
does between two awaits depends on the session's fields, not its own, which is
where they go wrong.  `Listening` and `suppress` are the window after a cancel.

### Relays (`spice-proxy.js`, `rdp-proxy.js`, `session-vnc.js`, `session-hop.js`)

One channel is a websocket `ws[c]`, a TCP socket `tcp[c]`, the messages `buffer[c]`
that wait, and those the server got; `hop` is the SSH hop in front of it.  The
three protocols share the actions and differ in the operators: `MaySend`, `Heard`,
`CleanupSpice`, `CleanupRdp`, `KillVnc`.  Messages carry their numbers.
`ServerHangsUp` is the end of the server's side during X.224, for which the handshake
has no listener, `IdleTimeout` the timer of the handshake, which outlives it.

### McpServer (`widgets/widget-mcp-server.js`, `mcp/server/*.js`, `load-widget.js`)

`op[o]` is one handler, with the one request to the browser it awaits; `status`
and `order` are the table of tasks, `job` the command in the terminal and the
files it left there.  `Answered(o)` is what the handler does with an answer,
`Failed(o)` with its timeout or the end of the server.  `socket` counts the
websockets of the browser, of which the server listens to the first.

### Deploy (`src/infra/vps/ispmanager/deploy-panel.sh`)

`pc` is the command about to run; each may fail, `Killed` may come between any
two.  `InstallFails` and `RestoreFails` leave the fragment as it was, away or torn
(`Torn`, which counts as refused); `cut` records these and the kills that leave a
fragment untested.  Containers may die while they are probed.  `compose` and `frag` are the files on disk, `app` the containers that run,
`live` the configuration the web server has loaded, `restOk` whether the rest of
that configuration is valid, `before` the backup.  `PanelChanges` and
`PanelReloads` are the server's own control panel, `Rollback` a person who
follows `RESTORE.txt`, which names the fragment in a run with a proxy only.

### KnownHosts (`server/ssh-known-hosts.js`)

A line stands for the names it matches and negates, its marker and its key.  A
verifier goes through `Access`, `Check`, the prompt (`Accept`, `Reject`), and the
rewrite in the single file operations it is made of: `Remove` reads, `Truncate`
and `Write` write, `Prefix` and `AppendLine` append.  `newline` says whether the
file ends in one.  `trusted` and `saved` are history: what the user or the
first file vouches for, what was saved; `clean` says that no rewrite
failed or met another access.

### MC modules and proof modules

`MC_X` gives the constants of `X` their values.  The theorems about `X` are in
`XProofs`, or in a module for two components: `SshRouteProofs` (`SshSession`,
`SshRoute`), `FastXferProofs` (`FastXfer` and the refinement of `FileCopy`),
`XmodemProofs` (`XmodemSend`, `XmodemReceive`), `ZmodemTrzszProofs`,
`RegistryMcpProofs` (`Registry`, `McpServer`) and `RelayOutputProofs` (`Relays`,
`TermOutput`).  Section 5 is about them.  Components that share a proof module
have specifications with names of their own (`RelaySpec`, `OutputSpec`).

## 4. The runs

| run | bounds | shows | distinct states |
|---|---|---|---|
| `fast_copy` | 5 bytes, chunks of 2, concurrency 3, a source that shrinks to 1, three engines | the copy implements `FileCopy` through every interleaving; chunks in flight share nothing; it comes to an outcome unless it asks a channel that is closed; a destroy closes what was open | 279,328 |
| `term_output` | 4 bytes in chunks of 1 and 2, a window of 2 ticks, clock set back by 1, 7 ticks, transfers detected or started | order, completeness, a timer for whatever waits, due in time | 268,756 |
| `xsend` | 3 packets of 2 units, block numbers modulo 3, 3 retries, 3 faults | the receiver holds a prefix; complete means stored; sends end | 4,615 |
| `xrecv` | 4 blocks modulo 3 (without control bytes, with CAN, with SOH, numbered EOT), packets of 3 heads after STX, 4 retries, 3 faults | the file is a prefix; complete means all, unless a byte of a block was taken for EOT; receives end | 220,571 |
| `ssh_login` | 2 key files, every bookmark and server, routes of up to 2 hops, 2 mishaps | a sufficient credential is found at every server, the session's own password prompt comes last, one client at a time but for retries from behind a hop, an end | 431,584 |
| `registry` | a terminal, a file session over 2 racing websockets, a transfer, 1 refused websocket | nothing runs without an owner, one close ends one session, one websocket for an id, commands with a timeout or whose channel closes answered once, FTP clients closed | 207,552 |
| `zmodem` | 3 outputs with headers split, 4 chunks, 2 kept, 2 files, a window of 2 | watched while active, everything released, output shown once and in order, the terminal given back unless the noise window is renewed for ever | 21,983 |
| `trzsz` | 2 triggers | no file without a session, sends stay with theirs, a waiting completion is resolved | 24,490 |
| `relay` | 3 channels, 3 protocols, 2 messages | messages in order, siblings live, both sides end or the idle timer strands one, requests answered unless the server hangs up | 80,631 |
| `mcp_tasks` | 2 handlers, 3 commands, a table of 2, 2 websockets | complete stands for ended, outcomes stay, calls end | 619,790 |
| `deploy` | 3 releases (one refused), 3 runs | dry runs are dry, no broken fragment unless its installation or removal fails or is cut off, what succeeds is installed, the rollback returns what `RESTORE.txt` names | 509,364 |
| `known_hosts` | 2 verifiers, 3 connections, 3 targets, 3 keys, 4 first files | accepted keys are vouched for, changes announced, trust is known | 867,661 |

### Why these bounds are enough

`fast_copy`: 5 bytes in chunks of 2 give three chunks over two slots (the layout
drops the third slot, so the shrinking of the buffer is exercised), a short last
chunk, a slot that is used twice, and split reads; the theorems hold for all
sizes.  `term_output`: two chunks can wait while a third arrives on each of the
four ways.  XMODEM: block numbers wrap within the file, every fault can hit
every frame, and one block can use up all retries; there is a block with each
of the control bytes that the parser tells apart, one kind to a block, and what
follows a STX is so long that it swallows whole blocks.  (A damaged EOT or trailer byte is
never taken for SOH or STX: a packet from there would fail its CRC like those that
begin in the data.)  `ssh_login`: with two files
one can be refused, locked, missing or accepted before or after the other; with
two hops the second meets what the first left in the session; with two mishaps a
prompt can be answered wrongly and then cancelled, or an attempt lost after a
mistake.  `registry`: two websockets are the smallest race, and the second
websocket of a file session finds the table as the first left it.  `zmodem` and
`trzsz`: a second file, a second trigger and one chunk more than is kept.
`relay`: three channels, so that one ends while a second relays and a third
connects.  `mcp_tasks`: one command more than the table holds forces an
eviction under two handlers.  `deploy`: a run, a rerun with other options, and a
third over the result.  `known_hosts`: two ports of one host and a second
host distinguish the ways lines are shared; a third connection meets what two
others did.

Deadlock is not checked except in `deploy`: these objects rightly stop (a
transfer after its outcome, a terminal after its close).

### Bounds that are part of the models

`MaxBytes`, `MaxTime`, `MaxMishaps`, `MaxRefused`, `MaxChunks`, `MaxFiles`,
`MaxRuns`, `MaxMsgs`, `MaxSockets`, `MaxConns` and the fault budget cap what the
environment does.  Besides, in `McpServer` single tool calls are made before the
first background command only, the widget is not started again once a
command was run, and the browser does not reconnect while the server stops.

### Fairness

`FastXfer`: `fs` and `ssh2` call back, once, for every request that was made on an
open channel, and timers fire (WF on the open chain, on each slot, on each close, on the kill timer); the
client, the network and the other program owe nothing.  `SshRoute`: weak fairness
of the whole next-state relation, that is, a server answers or the line fails,
and a user answers or cancels a prompt; without it a session may wait at a
password prompt for ever, as the code has no timer there (`readyTimeout` covers
the prompts of keyboard-interactive only).  XMODEM: bytes under way arrive, the
peer answers, the session's timer fires when nothing is under way; a receiver
that prompts does not prompt by C for ever (SF on its NAK), as the usual
receivers fall back after a few attempts.  `Registry`: `client.exec` calls back,
a command's timer fires if it has one, an FTP client connects or fails, a copy ends.
`Relays`: each step of a set-up succeeds or fails (in X.224, or the server hangs up
and neither happens), and a websocket that is being closed closes.  `Zmodem`: its watchdog fires and
time passes in its window; that output does not renew the window for ever is a
hypothesis of the property, as nothing in the code sees to it.
`Trzsz`: its timers fire and the two awaits of a cancel return.  `McpServer`: the
timer of each request fires.  `Deploy`: a script that was not killed goes on;
none of its properties needs it.  `TermOutput` and `KnownHosts` have none:
their properties are about steps, not about ends.

### Observations

What the models show of the code and no property can promise.

*File copy* (`server/transfer.js`).  `kill` promises to close the channel the
transfer created (441), but `initTransfer` (75-88) does not look at `onDestroy`
after awaiting `conn.sftp`: destroyed before that, the channel stays open.
Handles that open after a destroy are not closed (182).  `writeCb` (336) does not
look at the number of bytes written: when a local `fs.write` is short, as it may be
where a disk fills up, `total` counts what is not in place and the client is told
`end` for a file with a hole; hence `short` in `EndMeansCopied`.  A transfer that is
paused while its channel closes and then resumed asks a channel that ssh2 does not
answer for: it comes to no outcome (`Mute` in `Progress`).

*Terminal output* (`routes/ws.js`).  "Never fast-flush a buffer that ends mid-way
through a multi-byte UTF-8 char" (231) looks at the last chunk only (41), so a
character that comes byte by byte is flushed in its middle.  An XMODEM session
that the client starts while output waits gets newer bytes first (170).  An
exception of a transfer manager in a flush leaves `sendTimeout` set (115).

*XMODEM* (`server/xmodem.js`).  "Re-read and resend the same block" (673) goes
back by a full packet, also from the end of a short one; "Resend EOT if we already
sent it" (744) sends the first EOT in place of an unacknowledged last block; "Wait
for ACK of EOT" (703) arms a timer that the next call clears.  "Supports
XMODEM-CRC" (3), yet the prompt is NAK (488), which asks for checksums, while
packets are parsed as CRC.  Blocks that come before the save path are
acknowledged and dropped (387), although "Waiting for save path - buffer
data" (181) names a state for them, which nothing enters.  The write stream has no
error handler (399).  After a SOH that was damaged or lost, the bytes of the block
are parsed as control bytes (271-295): one damaged byte can end a receive with
`complete` at block 4, whose number is EOT, or as "Remote cancelled" at block 24, and
a SOH or STX in the data holds up what follows for packets on end and costs retries;
hence `stray` in `CompleteMeansAll` and `ReceiveCompletes`.  What is on disk stays a
prefix of the file.

*Zmodem* (`server/zmodem.js`).  The comments promise that the window of swallowed
output ends: it "expires, so display always recovers" (80-81) and has "a hard cap so
display always recovers even if no prompt is ever detected" (359-362).  A chunk in the last
50 ms of the window begins it again (386-390), as often as there is one: under a
program that writes without a pause the display does not come back until a prompt
does (`Debris`; hence the hypothesis of `DisplayRecovers`).  A stray ZSKIP drops the
whole chunk it is found in (407-410), although "normal terminal output is never
swallowed" (9); and a header that is split after its fifth byte is not "still found"
(7-8), since a tail of five bytes is compared with a signature of four (222-226).
`ShownInOrder` says that what is shown is in order and shown once, not that
everything is.

*SSH login* (`server/session-ssh.js`).  `kill` sets `this.conn` and `conns` to
null before it calls `doKill` (991-1016), so the SSH connection is never ended,
although the comment at 1016 says "Clean up any remaining connection".  "retry
with default ciphers/server hosts" (46) throws: `algAlt` spreads
`exports.algDefault()` (`ssh2-alg.js:51`) in an ES module, which has no `exports`.
An empty hidden prompt for the user name is answered by the saved password (194).
A refused shell leaves its client open (500).  A server that asks for a password in its
keyboard-interactive round (594-629) is heard while key files are left, which have
not been tried: `OwnPromptLast` speaks of the session's own prompt.

*Hops*.  `jumpSshKeys` (238) is not reset between hops or retries: a later hop
tries what is left of another server's list, does not read its own, may ask for
its password early, and a key saved for it is replaced; hence `RouteComplete`
lets only the last hop look for files and `HopPasswordLast` speaks of one hop.
After a hop that failed behind another, `nextTry` (935-943) ends `this.conn` alone,
which is the hop's client, and `sshConnect` (822) makes a new first client while the
old one stays (`beyond` in `OneClient`).  The password prompt of a hop is answered by the password saved for the
first server.  The prompt for the passphrase of a saved key cannot be cancelled
(the same prompt comes again), and a saved key that is refused never leads to a
password prompt.  `nextConn` is used again, so its listeners accumulate.

*Trzsz* (`server/trzsz.js`).  "Saved" ends a session without a completion; a second
cancel clears the timer of the suppression but not its end time; a reader that
opens after the end of its session is never closed, and its run, or a
receive whose save path was asked for, can go on in a later session's transfer (both
are excluded by name in `SendsOwn`).  A send whose `clientExit` returns after its
session ended sets the state of a later session to idle (338), although that session
is at work; the next trigger then starts a second one over it (`stolen`).  Nothing
limits the wait for the user.

*Relays*.  A SPICE socket that connects after its websocket closed is kept until
the server ends it; the TLS socket of an RDP handshake is kept likewise, nobody
kills an RDP session whose websocket closes.  "Disable it now that the handshake is
done" (`rdp-proxy.js:415-424`) clears the timer of the TCP socket; that of the TLS
socket (446) stays, and destroys the socket of a relay that was idle for 15 s, while
the websocket stays open with nobody to close it (`Stranded`).  A server that ends the
connection without an answer to X.224 is not noticed: "RDP server closed connection
without X.224 response" (396-399) is behind a `data` event, and nothing listens to
`end` or `close`, so that the request stays unanswered (`ServerHangsUp`).  A kill
while a hop connects leaves the hop's SSH session.

*Commands* (`server/session-common.js`).  The timer of `execCommand` is armed for a
`timeoutMs` above 0 only (61, 90), and `terminal-api.js` passes what the request says,
by default nothing: a command whose channel never closes is then never answered
(`Unlimited`).

*MCP*.  After a reconnect of the browser the handler stays on the old
websocket, and every request times out.  A run whose request times out leaves a
command nobody knows of; a stop drops tasks and leaves their files; a full
table forgets working tasks.  A cancel overwrites an outcome entered during its
await, although the comment at `mcp/server/tasks.js:111` says that terminal tasks
are rejected.

*Deployment*.  A fragment that is on disk already is neither tested nor
reloaded, so that after a kill between installation and test a rerun of the
same release reports success over an untested fragment (`cut` in `NoBrokenLeft`
and `Succeeds`).  When `install` fails half way, or `cp` does in putting the old fragment
back, `set -e` ends the script with a torn fragment in place.  `RESTORE.txt` names the
fragment through `TARGET_CONF`, which is empty without `--with-proxy` (382-383, 450):
after such a run the steps leave an earlier fragment, in front of containers that are
down, and after one with a proxy they remove a fragment that was there before.
`docker compose down` leaves earlier containers down.  A `curl` that fails prints `000`
before `probe` adds its own, and `000000` is taken for an answer, although "there is no
sense in setting up the proxy before the application answers" (519-521, in Russian).

*known_hosts*.  `escapeRegExp` does not escape "*", so a pattern that begins
with it throws and every verification fails.  Replacing the key of one port
removes the port-less line, shared lines of other hosts, and `@revoked` lines of
the type.  The first exact line decides: a plain line before an `@revoked` one
for the same key matches.  A rewrite loses what another connection appends in
between, and a reader in between finds no line and asks "unknown" (`clean`).  A
port-less line is accepted for every port.

## 5. What is proved

For every value of the constants, under the assumptions named in the modules:
counts are naturals, those that divide or end a wait positive; worlds, routes,
first files and outputs are of their types; there is a release (`Deploy`), a
target and a key (`KnownHosts`); the ids of terminals and of files differ
(`Registry`).  Each theorem about a component rests on one inductive invariant
(named below, or `IInv`, `RelayIInv` and the like), which TLC checked on the
instance of the run before it was proved.

`FastXferProofs` (any size, chunk, concurrency, and any truncations)

* `CopyInvariant`: `Spec => []CopyInv`.  `CopyInv` is the inductive invariant:
  the types; `Layout` (a taken slot works at its own place of the buffer, within
  it, on a chunk below `next`); `ChunksApart` (taken chunks do not overlap);
  `Loaded` (what a slot writes is in the buffer); `Counting` (`total` never
  exceeds the offsets that are in place or were left out by a short write, both
  outside the chunks in flight: `Passed`); and what the phases before, during
  and after the copy exclude.  `EndMeansCopied` alone is not inductive: to know
  that the last write completes the file one must know that the bytes counted
  before are distinct and in place.
* `TypeCorrect`, `SlotsShareNothing`, `CloseIsQuiet`, `EndIsComplete`: what the
  invariant is for.
* `StopsStartingHolds`: a destroyed transfer starts nothing, a paused one no read;
  every callback starts what it starts through `singleRead`, and the one
  exception, `onread`, tests `onDestroy` itself.
* `RefinementInvariant`: `Spec => []RefInv`, which adds to `CopyInv` that one
  message at most was sent (`ToldOnce`) and that an open file is behind a live
  channel and, while the client listens, behind a handle (`FilesHeld`).
* `TransferCopies`: `Spec => Copies`, the refinement of `FileCopy`.  Every step
  keeps what was copied and either says nothing, or says the first message; the end
  is said with everything copied, but for what short writes left out of a download,
  and no file open.
* `TransferInvariant`: `Spec => []FastXferInv`, the invariant the run checks.

`SshRouteProofs`, the login (any key files, bookmark, server, number of mishaps)

* `OneClientAlways`: `ClientInv` adds that a session in the phase `connect`, at a
  prompt, or in an error that leads to an attempt without `nextTry`, holds no
  open client, unless a retry began behind a hop (`beyond`); `nextTry` ends the one
  it finds.
* `TypeCorrect`, from `DataInv` and `ControlInv`.  While files are listed the
  present key is one of them, which is what makes putting it back type correct.
* `OwnPromptLastAlways`: `AskInv` accounts for every key file.  While files
  are listed, each was tried, is left in `sshKeys`, or is the present key while
  an attempt with it is under way; when none is listed and no password is known,
  a refusal can only come after all were tried.  The property alone says nothing
  of the states before the prompt, so it is not inductive.  The argument is made
  for one file at a time (`FileInv`, `FileStep`), with one step for each action.
* `LoginInvariant`: the three together, the invariant of the run.

`SshRouteProofs`, the hops (any route)

* `RouteIsSession`: `RouteSpec => Spec`, each step of a route is a step of the
  login, `HopTrouble`, `HopsFail`, or a stutter.
* `RouteKeepsLogin`: so `SshInv` holds of every route.
* `RouteInvariant`: `RouteSpec => []RouteInv`.  `PlaceInv` and `HopDataInv` are the
  types with what ties them together (a hop is made while the session is ready, a
  passphrase is asked for when there is a key).  For a route of one hop,
  `DrainInv` and `HopFileInv` account for each file as above, but across the
  retries of the whole login, since the list survives them.
* `RouteCompleteHolds`: `RouteSpec => []RouteComplete`, for routes of any length.
  While nothing goes wrong, `CalmInv` names the credential that is still ahead: in
  the login (`LoginCalm`) the agent, the saved key, a file the server knows that is
  left or under way, or the right password; at the present hop (`HopCalm`) a
  credential shown in every attempt, or such a file or password.  `Clear` says
  that no list is left by an earlier hop, which is why only the last one may look
  for files.  The first form of the property was false: a key the server knows is
  no credential when its file is missing, which `Opens` now says.

`KnownHostsProofs` (any verifiers, targets, keys, first files, connections)

* `KnownHostsInvHolds`, `ChangeIsAnnouncedHolds`, `TrustIsKnownHolds`.  What a file
  says is the set of its lines.  `VouchInv`: every line on file, or read and
  about to be written back, names only trusted keys.  While `clean`, `SavedInv`: a
  saved line is on file, in what is being written, or in what is about to be
  replaced; `RevokeInv`: no revoking line comes up behind a prompt; `EndInv`: an
  append finds the end of a line.  The announcements need all three: that a
  saved key is recognised again means that its line survived every rewrite, and
  that no first line for the same key revokes it.

`RegistryMcpProofs`, `Registry` (any terminals, file sessions, transfers, websockets)

* `RegistryInvHolds`: nothing works without an owner and one websocket at most
  is open for an id.  Ownership becomes inductive with `Begun`, how far each
  session has come: a session that was not killed is still in the table, and a
  transfer belongs to a session that is connected, whose connect does not run
  again.  `Named` says which websocket the table of the worker names.
* `CloseIsLocalHolds`: a close or the end of a shell kills one session at most.

`RegistryMcpProofs`, `McpServer` (any calls, commands, websockets, size of the table)

* `McpInvHolds`, from `TaskInv`.  A handler comes back from an await to a table that
  others have changed, so the invariant says what each call under way relies on
  (`OpSound`): a command that is being started has no task yet, and belongs to
  one call (`RunOnce`); what a call has seen of its command, that it has ended,
  stays true.  The table lists each task once (`Distinct`), lists exactly those that
  are kept (`Listed`), and no more than it may (`Sized`): an entry over the limit
  puts a victim out first, and there is one.
* `OutcomeStaysHolds`: a task that ended is changed only by a cancel that had begun
  on it while it was working.

`RelayOutputProofs`, `Relays` (any channels, any number of messages)

* `RelayInvHolds`: what the server got is a prefix of what was sent.  The invariant
  follows a channel through its set-up: in each phase it says how many messages
  were sent (`Spoken`), that they wait in the buffer until there is a socket
  (`Kept`), and what was written (`Written`).
* `SiblingsLiveHolds`: the end of one channel leaves the others alone; every cleanup
  touches its own channel, except the kill of the session, which comes with its
  last.

`RelayOutputProofs`, `TermOutput` (any chunks, interval, steps of the clock)

* `WireInvHolds`: what the browser was sent followed by what waits in `dataBuffer` is
  in the order of the stream (`SentInOrder`); a byte was sent, was given to a
  transfer, or waits; what waits has a timer, due in time (`Armed`); a session that
  recognised its start was given all that waited (`AllGiven`).  That the browser's
  bytes are in order says nothing of the buffer that is appended to them, so it
  is not inductive by itself.
* `OutputInvHolds`, `WaitBoundedHolds`, `TransferInOrderHolds`: what it is for.
* `Concat`, the bytes of a sequence of chunks, is a recursive function.  That such
  a function exists is an induction, for which the proof takes the shortest prefix
  that has none (`JoinExists`); what one more chunk adds is then `ConcatAppend`.

`XmodemProofs`, `XmodemSend` (any file, packet, modulus, number of retries)

* `StopAndWaitHolds`: where no answer is later than the timers (`InTime`), one block
  at most is under way, the one the receiver expects or the one before it
  (`OneBlock`); the two sides take turns (`Turns`); the session is at the block
  that is expected or at the one before (`InStep`); and an acknowledgement under
  way is for the session's block (`Numbered`).  Numbers less than the modulus apart
  differ on the line (`Apart`).
* `SendTypesHold`: the types, and the file open exactly while it is sent, with no
  further assumption.
* `CompleteInTimeHolds`: `SendSpec => []CompleteInTime`.
* `SendInvHolds`: `SendSpec => [](Whole /\ InTime => SendInv)`.  `Whole`, a file of whole
  packets, is what the code needs, as it goes back by a whole packet also from the
  end of a shorter one (section 4, observations).

`XmodemProofs`, `XmodemReceive` (any number of blocks, modulus, number of retries)

* `ReceiveTypesHold`: `ReceiveSpec => []ReceiveTypeOK`, with no further assumption.
* `ReceiveInStepHolds`: when the path was given first and answers are in time, the
  session and the sender alternate (`Alternate`): of the bytes under way, at most one
  packet or EOT begins (`TokensAt`), for the block the session expects or the one
  before, and replies under way are to it (`RepliesAt`).  The buffer may begin with
  bytes that were taken for a packet, and then swallows the packets that come, until
  it is long enough to be refused; a buffer that begins with a packet (`PlainBuf`) is
  never followed by another.  Only the latter can be acknowledged: what is taken for a
  packet gets a nak at most, after which the sender repeats itself and nothing has
  moved.  The session takes several tokens in one read, so the proof follows
  the read token by token (`RunExists`, `RunAlternates`): `Begun` and `Filled` say
  what one token does, `Between` what holds after each.
* `ReceiveInvHolds`: `ReceiveSpec => [](PathFirst /\ InTime => ReceiveInv)`.
* `CompleteMeansAllHolds`: `ReceiveSpec => [](PathFirst => CompleteMeansAll)`: a receive
  ends complete at the sender's EOT, which comes after the last block was
  acknowledged, or at a byte that was taken for one, which `stray` tells.  A session
  whose path was not given first acknowledges blocks and drops them.

`ZmodemTrzszProofs`, `Zmodem` (any outputs, files, chunks, window)

* `ZmodemInvHolds`: two invariants that meet in `tail` only.  `SessionOK` says what
  a session has running (its timer, what it carries, which files are open and
  which of them are being flushed); `ScreenOK` what of the output was shown.
* `ShownInOrderHolds`: shown positions rise and have arrived, so nothing is shown
  twice or out of order, whatever is kept for the next scan.

`ZmodemTrzszProofs`, `Trzsz` (any number of triggers)

* `TrzszInvHolds` and `SendsOwnHolds`.  A session with a transfer is in progress or
  has a completion that waits (`Busy`); so a trigger finds no transfer, no run
  that waits for files and no open reader (`Own`), and cannot take over what
  another run left.  The attempt to prove this showed where it fails: a send whose
  `clientExit` returns after its session has ended sets the state of the next
  one to idle (`trzsz.js:338`), which takes three triggers to do harm.  `stolen`
  records that step, and `SendsOwn` and `Shared` speak of sessions without it.

`DeployProofs` (any releases, any number of runs)

* `DeployInvHolds`, `SucceedsHolds`, `RollbackReturnsHolds`, for runs in which any
  command may fail, those that install and restore the fragment too.  The invariant goes
  through the sections of the script: nothing is written before the backup
  (`Untouched`), which holds what was there (`Copied`); the application is that of
  the release once it is up (`Installed`); the fragment is the old one until the
  new one is written (`Proxied`), and a refused one is there between its
  installation and its test only (`Sound`).

In each module one lemma speaks of an action or a group of actions, and has one
step below it for each conjunct they can disturb.

Only model-checked:

* liveness under fairness, which is outside the prover's reach (`Progress`,
  `KillFrees`, `Settles`, `SendSettles`, `ReceiveSettles`, `AllSettled`,
  `DisplayRecovers`, `CompletionResolved`, `EndsTogether`, `Answered`,
  `CallsEnd`);
* `SendInv` and `ReceiveInv` in behaviours with late answers.  Each timer that fires
  too early leaves one more answer, or one more copy of a block, under way, so
  that both directions hold queues of old ones; whether an old acknowledgement can
  be taken for a new one then depends on how many are under way against the
  modulus and the retries, and the run shows for its budget of faults that none is.
  An inductive invariant would have to relate the contents of both queues.

The induction theorems of the library take an operator as a parameter, which no
installed prover can instantiate.  Where a proof needs the least element of a set
of positions (the first header in a chunk of `Zmodem`, the first exact line and
the filter of `KnownHosts`, the recursion over the chunks of `TermOutput` and
over the tokens of one read of `XmodemReceive`), it takes it from the well-founded order on the
finite subsets of a set, which is stated without such a parameter.

## 6. What is not modelled, and why

The status of each component is in `PROJECT.json`.

Whole components: the proxy command and the tunnels (every socket of a tunnel is
piped to a channel of its own and ends with it); telnet, serial and local
sessions (parsing of one stream, forwarding to libraries); the web application
and its storage (one call into `fs`, sqlite or jsonwebtoken per request); sync
and fetch (single HTTP requests); the Cloudflare and Windows scripts (calls to
external interfaces one after the other); the build and the pin checks (file
processing without concurrency).

Within the modelled ones: progress messages, logs and names; the contents of the
scp and folder engines (libraries, one answer each); keyboard input; exceptions
thrown by transfer managers in the output path; a full disk under an XMODEM
download; the multi-file queue of XMODEM, which the end of the first file
clears; X11, typed interactive values, and second factors behind the first
server, of SSH sessions; single file operations and listings; the WebSocket-only
fallback of VNC, certificates and packet parsing of the relays; the schemas
and session headers of MCP; hashed host names, which match like plain ones;
two runs of the deployment script at once, which nothing in the script prevents.
