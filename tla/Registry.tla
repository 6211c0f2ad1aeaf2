------------------------------ MODULE Registry ------------------------------
(***************************************************************************)
(* The sessions of the server and the websockets that own them: terminals  *)
(* (server/terminal-api.js, routes/ws.js), file sessions over SFTP or FTP  *)
(* with their transfers (server/dispatch-center.js, session-sftp.js,       *)
(* session-ftp.js, ftp-transfer.js), all in one table by id                *)
(* (global-state.js), commands on exec channels (session-common.js), and   *)
(* the browser worker that opens the websockets of a file session          *)
(* (client/entry-web/worker.js).                                           *)
(*                                                                         *)
(* Every step is one synchronous stretch of the server or of the worker.   *)
(* A login (SshSession) and an SFTP copy (FastXfer) are one answer here.   *)
(***************************************************************************)
EXTENDS Naturals, FiniteSets

CONSTANTS
    Terms,      \* pids of terminals
    Files,      \* ids of file sessions
    Xfers,      \* ids of transfers
    Socks,      \* the websockets the worker may open for file sessions
    NoSock,     \* no entry in self.insts
    TermOf,     \* the terminal whose SSH client a file session borrows
    FileOf,     \* the file session of a transfer
    MaxRefused  \* bound on websockets that cannot be opened

Ids == Terms \cup Files

ASSUME RegistryAssumption ==
    /\ Terms \cap Files = {} /\ NoSock \notin Socks
    /\ TermOf \in [Files -> Terms] /\ FileOf \in [Xfers -> Files]
    /\ MaxRefused \in Nat

VARIABLES
    registered, \* the table of sessions: the ids that have an entry
    killed,     \* the sessions whose kill has run
    term,       \* by pid: the creation, the shell, the websocket at the server
    file,       \* by id: kind and state of connect
    transfers,  \* by id: the transfers property of the file session
    xfer,       \* by id: the copy, whether destroy ran, its FTP client
    xws,        \* by id of a transfer: its websocket
    sock,       \* by websocket: the file session, the state at both ends, dup
    insts,      \* the worker's table: the websocket of an id
    refused,    \* websockets that could not be opened so far
    cmd         \* by pid: the command of an exec-cmd request

sessionVars == <<registered, killed, term, file, transfers, xfer, xws>>
workerVars == <<sock, insts, refused>>
registryVars == <<sessionVars, workerVars, cmd>>

RegistryTypeOK ==
    /\ registered \subseteq Ids /\ killed \subseteq Ids
    /\ term \in [Terms -> [state : {"none", "creating", "up", "failed"},
                           shell : BOOLEAN, ws : {"none", "open", "closed"}]]
    /\ file \in [Files -> [kind : {"none", "sftp", "ftp"},
                           connect : {"none", "pending", "ready", "refused"}]]
    /\ transfers \in [Files -> SUBSET Xfers]
    /\ xfer \in [Xfers -> [state : {"none", "running", "over"}, destroyed : BOOLEAN,
                           client : {"none", "pending", "open", "closed"}]]
    /\ xws \in [Xfers -> {"none", "open", "closed"}]
    /\ sock \in [Socks -> [file : Files, browser : {"none", "connecting", "open", "closing", "closed"},
                           server : {"none", "open", "closed"}, dup : BOOLEAN]]
    /\ insts \in [Files -> Socks \cup {NoSock}]
    /\ refused \in 0 .. MaxRefused
    /\ cmd \in [Terms -> [state : {"none", "opening", "running", "over"},
                          timer : BOOLEAN, chan : BOOLEAN, answers : 0 .. 1]]

RegistryInit ==
    /\ registered = {} /\ killed = {} /\ refused = 0
    /\ term = [t \in Terms |-> [state |-> "none", shell |-> FALSE, ws |-> "none"]]
    /\ file = [f \in Files |-> [kind |-> "none", connect |-> "none"]]
    /\ transfers = [f \in Files |-> {}]
    /\ xfer = [x \in Xfers |-> [state |-> "none", destroyed |-> FALSE, client |-> "none"]]
    /\ xws = [x \in Xfers |-> "none"]
    /\ sock \in [Socks -> [file : Files, browser : {"none"}, server : {"none"}, dup : {FALSE}]]
    /\ insts = [f \in Files |-> NoSock]
    /\ cmd = [t \in Terms |-> [state |-> "none", timer |-> FALSE, chan |-> FALSE, answers |-> 0]]

-----------------------------------------------------------------------------
(* Destroy and kill.                                                       *)

\* The destroy of each transfer in X, which also closes its websocket (the close
\* event comes later, XferWsCloses).  An FTP client under way is only queued for
\* closing, behind the copy (ftp-client.js, enqueue).
Destroyed(X) == [x \in Xfers |-> IF x \in X THEN [xfer[x] EXCEPT !.destroyed = TRUE] ELSE xfer[x]]

\* (Mutant) The transfers of a killed session go on.
LostWithNone(I) == {}

\* The transfers that go with the sessions in I: all of each file session.
LostWith(I) == UNION {transfers[f] : f \in I \cap Files}

\* kill of the sessions in I.  A file session destroys its transfers; onEndConn
\* takes the entry under its id out of the table.
KillAll(I) ==
    /\ registered' = registered \ I
    /\ killed' = killed \cup I
    /\ xfer' = Destroyed(LostWith(I))
    /\ transfers' = [f \in Files |-> IF f \in I THEN {} ELSE transfers[f]]

\* onDestroySftp: only a session that is in the table is killed.
KillRegistered(f) == KillAll({f} \cap registered)

\* (Mutant) cleanAllSessions kills every session.
CleanedAll == registered

\* cleanAllSessions takes the property "sessions" of the table of sessions; no
\* session has that id, so there is nothing to kill.
Cleaned == {}

-----------------------------------------------------------------------------
(* Terminals.                                                              *)

\* create-terminal over the common websocket.
CreateTerm(t) ==
    /\ term[t].state = "none"
    /\ term' = [term EXCEPT ![t].state = "creating"]
    /\ UNCHANGED <<registered, killed, file, transfers, xfer, xws, workerVars, cmd>>

\* The session is connected: it registers itself, and the pid is answered.
TermUp(t) ==
    /\ term[t].state = "creating"
    /\ term' = [term EXCEPT ![t].state = "up", ![t].shell = TRUE]
    /\ registered' = registered \cup {t}
    /\ UNCHANGED <<killed, file, transfers, xfer, xws, workerVars, cmd>>

\* It is not: the error is answered.
TermFails(t) ==
    /\ term[t].state = "creating"
    /\ term' = [term EXCEPT ![t].state = "failed"]
    /\ UNCHANGED <<registered, killed, file, transfers, xfer, xws, workerVars, cmd>>

\* The browser has the pid and opens /terminals/<pid>.
Attach(t) ==
    /\ term[t].state = "up" /\ term[t].ws = "none"
    /\ term' = [term EXCEPT ![t].ws = "open"]
    /\ UNCHANGED <<registered, killed, file, transfers, xfer, xws, workerVars, cmd>>

\* onClose of an attached terminal: kill, and cleanup.
OnClose(t) == KillAll({t} \cup Cleaned)

\* The shell ends.  Before a websocket is attached nobody listens to its close
\* event, and the session stays in the table; afterwards onClose runs.
ShellEnds(t) ==
    /\ term[t].shell
    /\ term' = [term EXCEPT ![t].shell = FALSE]
    /\ \/ term[t].ws = "none" /\ UNCHANGED <<registered, killed, transfers, xfer>>
       \/ term[t].ws # "none" /\ OnClose(t)
    /\ UNCHANGED <<file, xws, workerVars, cmd>>

\* The websocket of a terminal closes: the browser, the network or onClose itself
\* closed it.  onClose runs, perhaps again.
TermWsCloses(t) ==
    /\ term[t].ws = "open"
    /\ term' = [term EXCEPT ![t].ws = "closed"]
    /\ OnClose(t)
    /\ UNCHANGED <<file, xws, workerVars, cmd>>

-----------------------------------------------------------------------------
(* exec-cmd: one command on an exec channel, with a timeout or without.    *)

\* The answer of execCommand: done and the error handler look at settled.
Answer(t) == [cmd EXCEPT ![t].state = "over", ![t].timer = FALSE, ![t].answers = @ + 1]

\* execCmd: without a session, or after its kill, the error is answered at once.
ExecCmd(t) ==
    /\ cmd[t].state = "none"
    /\ cmd' = IF t \in registered THEN [cmd EXCEPT ![t].state = "opening"] ELSE Answer(t)
    /\ UNCHANGED <<sessionVars, workerVars>>

\* The exec channel opens; the timer is armed if the request has a timeoutMs above 0.
ExecOpened(t) ==
    /\ cmd[t].state = "opening"
    /\ \E timed \in BOOLEAN :
          cmd' = [cmd EXCEPT ![t].state = "running", ![t].timer = timed, ![t].chan = TRUE]
    /\ UNCHANGED <<sessionVars, workerVars>>

ExecRefused(t) ==
    /\ cmd[t].state = "opening"
    /\ cmd' = Answer(t)
    /\ UNCHANGED <<sessionVars, workerVars>>

\* The timer, the close or the error of the channel: the first one answers, what
\* comes afterwards finds settled set.
Settle(t) == IF cmd[t].state = "running" THEN Answer(t) ELSE cmd

ExecTimeout(t) ==
    /\ cmd[t].timer
    /\ cmd' = Settle(t)
    /\ UNCHANGED <<sessionVars, workerVars>>

\* The channel ends by itself, or because the timeout closed it.
ExecCloses(t) ==
    /\ cmd[t].chan
    /\ cmd' = [Settle(t) EXCEPT ![t].chan = FALSE]
    /\ UNCHANGED <<sessionVars, workerVars>>

-----------------------------------------------------------------------------
(* The worker: websockets of file sessions.                                *)

\* "create" of an id that has no entry, or not yet: another creation may be under way.
CreateWs(s) ==
    /\ sock[s].browser = "none"
    /\ insts[sock[s].file] = NoSock
    /\ sock' = [sock EXCEPT ![s].browser = "connecting"]
    /\ UNCHANGED <<sessionVars, insts, refused, cmd>>

\* The id has a websocket already when this one opens.
IsDup(s) == insts[sock[s].file] # NoSock

\* onopen: a duplicate is closed, the first one becomes the instance.
WsOpens(s) ==
    /\ sock[s].browser = "connecting"
    /\ \/ /\ IsDup(s)
          /\ sock' = [sock EXCEPT ![s].browser = "closing", ![s].dup = TRUE, ![s].server = "open"]
          /\ UNCHANGED insts
       \/ /\ ~IsDup(s)
          /\ sock' = [sock EXCEPT ![s].browser = "open", ![s].server = "open"]
          /\ insts' = [insts EXCEPT ![sock[s].file] = s]
    /\ UNCHANGED <<sessionVars, refused, cmd>>

\* What onclose leaves in the table: the entry under the id of a websocket that
\* is no duplicate goes, whichever websocket it names.
ClosedInsts(s) == IF sock[s].dup THEN insts ELSE [insts EXCEPT ![sock[s].file] = NoSock]

\* It cannot be opened: onclose without onopen.
WsRefused(s) ==
    /\ sock[s].browser = "connecting" /\ refused < MaxRefused
    /\ sock' = [sock EXCEPT ![s].browser = "closed"]
    /\ insts' = ClosedInsts(s)
    /\ refused' = refused + 1
    /\ UNCHANGED <<sessionVars, cmd>>

\* The browser asks the worker to close, or the connection breaks.
WsClosing(s) ==
    /\ sock[s].browser = "open"
    /\ sock' = [sock EXCEPT ![s].browser = "closing"]
    /\ UNCHANGED <<sessionVars, insts, refused, cmd>>

\* The worker's onclose.
WsClosed(s) ==
    /\ sock[s].browser = "closing"
    /\ sock' = [sock EXCEPT ![s].browser = "closed"]
    /\ insts' = ClosedInsts(s)
    /\ UNCHANGED <<sessionVars, refused, cmd>>

-----------------------------------------------------------------------------
(* File sessions.                                                          *)

\* sftp-new over an open websocket.
SftpNew(f, kind) ==
    /\ \E s \in Socks : insts[f] = s /\ sock[s].browser = "open" /\ sock[s].server = "open"
    /\ file[f].kind = "none"
    /\ file' = [file EXCEPT ![f].kind = kind]
    /\ registered' = registered \cup {f}
    /\ UNCHANGED <<killed, term, transfers, xfer, xws, workerVars, cmd>>

\* connect, called through sftp-func: SFTP needs the terminal, FTP tries a login.
Connect(f) ==
    /\ f \in registered /\ file[f].connect = "none"
    /\ file' = [file EXCEPT ![f].connect =
                  IF file[f].kind = "sftp" /\ TermOf[f] \notin registered THEN "refused" ELSE "pending"]
    /\ transfers' = [transfers EXCEPT ![f] = {}]
    /\ UNCHANGED <<registered, killed, term, xfer, xws, workerVars, cmd>>

\* The answer of conn.sftp (a refusal falls back to SshFs) or of the FTP login.
\* The session registers itself, also when it was killed in the meantime.
Connected(f) ==
    /\ file[f].connect = "pending"
    /\ file' = [file EXCEPT ![f].connect = "ready"]
    /\ registered' = registered \cup {f}
    /\ UNCHANGED <<killed, term, transfers, xfer, xws, workerVars, cmd>>

ConnectFails(f) ==
    /\ file[f].connect = "pending" /\ file[f].kind = "ftp"
    /\ file' = [file EXCEPT ![f].connect = "refused"]
    /\ UNCHANGED <<registered, killed, term, transfers, xfer, xws, workerVars, cmd>>

\* The close event of a websocket at the server: onDestroySftp of its id.
FileWsCloses(s) ==
    /\ sock[s].server = "open"
    /\ sock' = [sock EXCEPT ![s].server = "closed",
                            ![s].browser = IF @ = "open" THEN "closing" ELSE @]
    /\ KillRegistered(sock[s].file)
    /\ UNCHANGED <<term, file, xws, insts, refused, cmd>>

\* sftp-destroy: the websocket is closed, and the session killed at once.
SftpDestroy(s) ==
    /\ insts[sock[s].file] = s /\ sock[s].browser = "open" /\ sock[s].server = "open"
    /\ sock' = [sock EXCEPT ![s].browser = "closing"]
    /\ KillRegistered(sock[s].file)
    /\ UNCHANGED <<term, file, xws, insts, refused, cmd>>

-----------------------------------------------------------------------------
(* Transfers.                                                              *)

\* transfer-new over the websocket of the transfer, which the browser opens once
\* connect was answered.
XferNew(x) ==
    LET f == FileOf[x] IN
    /\ xws[x] = "none" /\ file[f].connect = "ready" /\ f \in registered
    /\ xws' = [xws EXCEPT ![x] = "open"]
    /\ xfer' = [xfer EXCEPT ![x].state = "running",
                            ![x].client = IF file[f].kind = "ftp" THEN "pending" ELSE "none"]
    /\ transfers' = [transfers EXCEPT ![f] = @ \cup {x}]
    /\ UNCHANGED <<registered, killed, term, file, workerVars, cmd>>

\* Its session is gone: the handler throws, and no transfer begins.
XferNewLost(x) ==
    /\ xws[x] = "none" /\ file[FileOf[x]].connect = "ready" /\ FileOf[x] \notin registered
    /\ xws' = [xws EXCEPT ![x] = "open"]
    /\ UNCHANGED <<registered, killed, term, file, transfers, xfer, workerVars, cmd>>

\* createOperationClient answers; startTransfer goes on, whatever onDestroy says.
FtpClientOpens(x) ==
    /\ xfer[x].client = "pending"
    /\ xfer' = [xfer EXCEPT ![x].client = "open"]
    /\ UNCHANGED <<registered, killed, term, file, transfers, xws, workerVars, cmd>>

FtpClientFails(x) ==
    /\ xfer[x].client = "pending"
    /\ xfer' = [xfer EXCEPT ![x].client = "closed", ![x].state = "over"]
    /\ UNCHANGED <<registered, killed, term, file, transfers, xws, workerVars, cmd>>

\* (Mutant) After a destroy the client is left to itself.
AfterCopyUndestroyed(x) == IF xfer[x].client = "open" /\ ~xfer[x].destroyed THEN "closed" ELSE xfer[x].client

\* The finally block of startTransfer closes the client it used.
AfterCopy(x) == IF xfer[x].client = "open" THEN "closed" ELSE xfer[x].client

\* The copy ends, with an error or not; an SFTP copy also stops after its destroy.
XferEnds(x) ==
    /\ xfer[x].state = "running" /\ xfer[x].client # "pending"
    /\ xfer' = [xfer EXCEPT ![x].state = "over", ![x].client = AfterCopy(x)]
    /\ UNCHANGED <<registered, killed, term, file, transfers, xws, workerVars, cmd>>

\* onDestroyTransfer: found through its session, if that is in the table.
DestroyTransfer(x) ==
    LET found == IF FileOf[x] \in registered THEN {x} \cap transfers[FileOf[x]] ELSE {}
    IN  /\ transfers' = [transfers EXCEPT ![FileOf[x]] = @ \ found]
        /\ xfer' = Destroyed(found)

\* transfer-func destroy.
XferDestroy(x) ==
    /\ xws[x] = "open" /\ x \in transfers[FileOf[x]]
    /\ DestroyTransfer(x)
    /\ UNCHANGED <<registered, killed, term, file, xws, workerVars, cmd>>

\* The websocket of a transfer closes: at the will of the browser, by the network,
\* or after the destroy.
XferWsCloses(x) ==
    /\ xws[x] = "open"
    /\ xws' = [xws EXCEPT ![x] = "closed"]
    /\ DestroyTransfer(x)
    /\ UNCHANGED <<registered, killed, term, file, workerVars, cmd>>

-----------------------------------------------------------------------------
RegistryNext ==
    \/ \E t \in Terms : \/ CreateTerm(t) \/ TermUp(t) \/ TermFails(t) \/ Attach(t)
                        \/ ShellEnds(t) \/ TermWsCloses(t)
                        \/ ExecCmd(t) \/ ExecOpened(t) \/ ExecRefused(t)
                        \/ ExecTimeout(t) \/ ExecCloses(t)
    \/ \E s \in Socks : \/ CreateWs(s) \/ WsOpens(s) \/ WsRefused(s) \/ WsClosing(s)
                        \/ WsClosed(s) \/ FileWsCloses(s) \/ SftpDestroy(s)
    \/ \E f \in Files : \/ \E kind \in {"sftp", "ftp"} : SftpNew(f, kind)
                        \/ Connect(f) \/ Connected(f) \/ ConnectFails(f)
    \/ \E x \in Xfers : \/ XferNew(x) \/ XferNewLost(x) \/ FtpClientOpens(x) \/ FtpClientFails(x)
                        \/ XferEnds(x) \/ XferDestroy(x) \/ XferWsCloses(x)

\* Channels and FTP servers answer, copies end, timers fire; browsers, shells and
\* the network owe nothing.
Fairness ==
    /\ \A t \in Terms : WF_registryVars(ExecOpened(t) \/ ExecRefused(t)) /\ WF_registryVars(ExecTimeout(t))
    /\ \A x \in Xfers : WF_registryVars(FtpClientOpens(x) \/ FtpClientFails(x)) /\ WF_registryVars(XferEnds(x))

RegistrySpec == RegistryInit /\ [][RegistryNext]_registryVars /\ Fairness

-----------------------------------------------------------------------------
(* Properties.                                                             *)

\* Nothing is left without an owner: a terminal in the table has not lost its
\* websocket; a file session in the table has a websocket open at the server,
\* unless it came back by a connect that outlived its kill; a transfer at work
\* that was not destroyed has its websocket, and is held by a session in the table.
Owned ==
    /\ \A t \in Terms \cap registered : term[t].ws # "closed"
    /\ \A f \in (Files \cap registered) \ killed :
          \E s \in Socks : sock[s].file = f /\ sock[s].server = "open"
    /\ \A x \in Xfers : xfer[x].state = "running" /\ ~xfer[x].destroyed =>
          /\ xws[x] = "open"
          /\ FileOf[x] \in registered /\ x \in transfers[FileOf[x]]

\* The end of one websocket or shell never kills the session of another, although
\* every onClose calls cleanAllSessions.
CloseIsLocal == [][Cardinality(killed' \ killed) <= 1]_registryVars

\* However the creations of one id race, the worker ends up with one websocket for
\* it (a refused websocket deletes the entry of another one, and breaks this).
OneSocket ==
    refused = 0 => \A s, r \in Socks :
        sock[s].browser = "open" /\ sock[r].browser = "open" /\ sock[s].file = sock[r].file => s = r

RegistryInv == RegistryTypeOK /\ Owned /\ OneSocket

\* A command without a timeout, which only the end of its channel answers.
Unlimited(t) == cmd[t].state = "running" /\ ~cmd[t].timer /\ cmd[t].chan

\* Whatever was begun is finished: a command is answered, once, also when its channel
\* never closes, provided that it has a timeout (the default is none: it is then
\* answered with the end of its channel, if that ever comes); an FTP client is closed,
\* also that of a destroyed transfer.
AllSettled ==
    /\ [](\A t \in Terms : cmd[t].answers <= 1)
    /\ [](\A t \in Terms : cmd[t].state = "running" => cmd[t].timer \/ cmd[t].chan)
    /\ \A t \in Terms : cmd[t].state # "none" ~> cmd[t].answers = 1 \/ Unlimited(t)
    /\ \A x \in Xfers : xfer[x].client # "none" ~> xfer[x].client = "closed"
=============================================================================
