------------------------- MODULE RegistryMcpProofs --------------------------
(***************************************************************************)
(* Proofs about Registry and McpServer, the tables of the server process.  *)
(*                                                                         *)
(* Registry: for any terminals, file sessions, transfers and websockets,   *)
(* nothing that is at work is without an owner, the races of the worker    *)
(* leave one websocket for an id, and the end of a websocket or a shell    *)
(* kills at most one session.  What is owned is inductive once it is known *)
(* how far each session has come (Begun): a kill forgets only what it takes*)
(* out of the table, so that a session that was never killed is still      *)
(* registered, and a transfer belongs to a session that is connected, whose*)
(* connect does not run again.                                             *)
(*                                                                         *)
(* McpServer: for any number of calls, commands and websockets and any size*)
(* of the table, a task that is shown as completed has run to its end, its *)
(* outcome stays, and the table holds what it may.  The invariant says what*)
(* each call that is suspended may still do when it comes back: a command  *)
(* that is being started belongs to one call, and what a call has seen of  *)
(* its command stays true (OpSound, RunOnce).                              *)
(***************************************************************************)
EXTENDS Registry, McpServer, SequenceTheorems, FiniteSetTheorems, WellFoundedInduction, TLAPS

-----------------------------------------------------------------------------
(* Registry.                                                               *)

(* The inductive invariant.                                                *)

\* How far terminals, file sessions and transfers have come.
Begun ==
    /\ \A t \in Terms : term[t].state # "up" => term[t].ws = "none"
    /\ \A f \in Files : /\ f \in registered \/ file[f].connect # "none" => file[f].kind # "none"
                        /\ file[f].kind # "none" /\ f \notin killed => f \in registered
    /\ \A x \in Xfers : xfer[x].state # "none" \/ xfer[x].client # "none" => file[FileOf[x]].connect = "ready"

\* The three kinds of owners.
OwnedTerms == \A t \in Terms \cap registered : term[t].ws # "closed"
OwnedFiles == \A f \in (Files \cap registered) \ killed : \E s \in Socks : sock[s].file = f /\ sock[s].server = "open"
OwnedXfers == \A x \in Xfers : xfer[x].state = "running" /\ ~xfer[x].destroyed =>
                  /\ xws[x] = "open" /\ FileOf[x] \in registered /\ x \in transfers[FileOf[x]]

\* The table of the worker names websockets by their ids, and among them each that is
\* open, or closes and was no duplicate.
Named ==
    /\ \A f \in Files : insts[f] \in Socks => sock[insts[f]].file = f
    /\ \A s \in Socks : sock[s].dup => sock[s].browser \in {"closing", "closed"}
    /\ refused = 0 => \A s \in Socks : sock[s].browser \in {"open", "closing"} /\ ~sock[s].dup
                                       => insts[sock[s].file] = s

\* A command that is not over was not answered.
Once == \A t \in Terms : cmd[t].state # "over" => cmd[t].answers = 0

RegistryIInv == RegistryTypeOK /\ Begun /\ OwnedTerms /\ OwnedFiles /\ OwnedXfers /\ Named /\ Once

-----------------------------------------------------------------------------
(* The parts of the type invariant.                                        *)

TableType == registered \subseteq Ids /\ killed \subseteq Ids
TermType == term \in [Terms -> [state : {"none", "creating", "up", "failed"},
                                shell : BOOLEAN, ws : {"none", "open", "closed"}]]
FileType == /\ file \in [Files -> [kind : {"none", "sftp", "ftp"}, connect : {"none", "pending", "ready", "refused"}]]
            /\ transfers \in [Files -> SUBSET Xfers]
XferType == /\ xfer \in [Xfers -> [state : {"none", "running", "over"}, destroyed : BOOLEAN,
                                   client : {"none", "pending", "open", "closed"}]]
            /\ xws \in [Xfers -> {"none", "open", "closed"}]
SockType == /\ sock \in [Socks -> [file : Files, browser : {"none", "connecting", "open", "closing", "closed"},
                                   server : {"none", "open", "closed"}, dup : BOOLEAN]]
            /\ insts \in [Files -> Socks \cup {NoSock}] /\ refused \in 0 .. MaxRefused
CmdType == cmd \in [Terms -> [state : {"none", "opening", "running", "over"},
                              timer : BOOLEAN, chan : BOOLEAN, answers : 0 .. 1]]

LEMMA Types == RegistryTypeOK <=> TableType /\ TermType /\ FileType /\ XferType /\ SockType /\ CmdType
BY DEF RegistryTypeOK, TableType, TermType, FileType, XferType, SockType, CmdType

LEMMA TypesNext ==
    ASSUME TableType', TermType', FileType', XferType', SockType', CmdType'
    PROVE  RegistryTypeOK'
BY DEF RegistryTypeOK, TableType, TermType, FileType, XferType, SockType, CmdType

-----------------------------------------------------------------------------
(* What a step leaves alone.                                               *)

LEMMA TableKept == ASSUME TableType, UNCHANGED <<registered, killed>> PROVE TableType'
BY DEF TableType
LEMMA TermKept == ASSUME TermType, UNCHANGED term PROVE TermType'
BY DEF TermType
LEMMA FileKept == ASSUME FileType, UNCHANGED <<file, transfers>> PROVE FileType'
BY DEF FileType
LEMMA XferKept == ASSUME XferType, UNCHANGED <<xfer, xws>> PROVE XferType'
BY DEF XferType
LEMMA SockKept == ASSUME SockType, Named, UNCHANGED workerVars PROVE SockType' /\ Named'
BY DEF SockType, Named, workerVars
LEMMA CmdKept == ASSUME CmdType, Once, UNCHANGED cmd PROVE CmdType' /\ Once'
BY DEF CmdType, Once

-----------------------------------------------------------------------------
(* Kill and destroy.                                                       *)

LEMMA Destroying ==
    ASSUME XferType, NEW X, xfer' = Destroyed(X)
    PROVE  /\ xfer' \in [Xfers -> [state : {"none", "running", "over"}, destroyed : BOOLEAN,
                                   client : {"none", "pending", "open", "closed"}]]
           /\ \A x \in Xfers : /\ xfer'[x].state = xfer[x].state /\ xfer'[x].client = xfer[x].client
                               /\ xfer'[x].destroyed = (x \in X \/ xfer[x].destroyed)
<1>1. ASSUME NEW x \in Xfers
      PROVE  /\ xfer'[x] \in [state : {"none", "running", "over"}, destroyed : BOOLEAN,
                              client : {"none", "pending", "open", "closed"}]
             /\ xfer'[x].state = xfer[x].state /\ xfer'[x].client = xfer[x].client
             /\ xfer'[x].destroyed = (x \in X \/ xfer[x].destroyed)
  <2>1. CASE x \in X
    <3>1. xfer'[x] = [xfer[x] EXCEPT !.destroyed = TRUE]
      BY <2>1 DEF Destroyed
    <3>. QED BY <2>1, <3>1, ZenonT(60) DEF XferType
  <2>2. CASE x \notin X
    <3>1. xfer'[x] = xfer[x]
      BY <2>2 DEF Destroyed
    <3>. QED BY <2>2, <3>1 DEF XferType
  <2>. QED BY <2>1, <2>2
<1>2. xfer' = [x \in Xfers |-> xfer'[x]]
  BY DEF Destroyed
<1>. QED BY <1>1, <1>2

\* A kill keeps what is known of sessions and transfers.  The websockets of the
\* sessions that it takes out of the table may have closed in the same step.
LEMMA Killing ==
    ASSUME TableType, FileType, XferType, Begun, OwnedTerms, OwnedFiles, OwnedXfers,
           NEW I \in SUBSET Ids, KillAll(I), UNCHANGED <<file, xws>>,
           \A t \in Terms : term'[t].state # "up" => term'[t].ws = "none",
           \A t \in Terms \ I : t \in registered => term'[t].ws = term[t].ws,
           \A f \in (Files \cap registered) \ I : \A s \in Socks :
              sock[s].file = f /\ sock[s].server = "open" => sock'[s].file = f /\ sock'[s].server = "open"
    PROVE  /\ TableType' /\ FileType' /\ XferType'
           /\ Begun' /\ OwnedTerms' /\ OwnedFiles' /\ OwnedXfers'
<1>1. /\ registered' = registered \ I /\ killed' = killed \cup I
      /\ xfer' = Destroyed(LostWith(I))
      /\ transfers' = [f \in Files |-> IF f \in I THEN {} ELSE transfers[f]]
  BY DEF KillAll
<1>2. TableType' /\ FileType'
  BY <1>1 DEF TableType, FileType
<1>3. XferType'
  BY <1>1, Destroying DEF XferType
<1>4. \A x \in Xfers : /\ xfer'[x].state = xfer[x].state /\ xfer'[x].client = xfer[x].client
                       /\ ~xfer'[x].destroyed => ~xfer[x].destroyed /\ x \notin LostWith(I)
  BY <1>1, Destroying
<1>5. Begun'
  BY <1>1, <1>4 DEF Begun
<1>6. OwnedTerms' /\ OwnedFiles'
  BY <1>1 DEF OwnedTerms, OwnedFiles
<1>7. OwnedXfers'
  <2>. SUFFICES ASSUME NEW x \in Xfers, xfer'[x].state = "running", ~xfer'[x].destroyed
                PROVE  xws'[x] = "open" /\ FileOf[x] \in registered' /\ x \in transfers'[FileOf[x]]
    BY DEF OwnedXfers
  <2>1. xws[x] = "open" /\ FileOf[x] \in registered /\ x \in transfers[FileOf[x]] /\ x \notin LostWith(I)
    BY <1>4 DEF OwnedXfers
  <2>2. FileOf[x] \in Files
    BY RegistryAssumption
  <2>3. FileOf[x] \notin I
    BY <2>1, <2>2 DEF LostWith
  <2>. QED BY <1>1, <2>1, <2>2, <2>3
<1>. QED BY <1>2, <1>3, <1>5, <1>6, <1>7

-----------------------------------------------------------------------------
(* Terminals and their commands.                                           *)

\* A terminal is created, fails, is attached.
LEMMA TermBegins ==
    ASSUME RegistryIInv, NEW t \in Terms, CreateTerm(t) \/ TermUp(t) \/ TermFails(t) \/ Attach(t)
    PROVE  RegistryIInv'
<1>. USE DEF RegistryIInv
<1>1. TableType /\ TermType /\ FileType /\ XferType /\ SockType /\ CmdType
  BY Types
<1>2. UNCHANGED <<killed, file, transfers, xfer, xws, workerVars, cmd>>
  BY DEF CreateTerm, TermUp, TermFails, Attach
<1>3. /\ TermType' /\ TableType'
      /\ \A u \in Terms \ {t} : term'[u] = term[u]
      /\ registered \subseteq registered' /\ registered' \subseteq registered \cup {t}
      /\ term'[t].ws \in {term[t].ws, "open"} /\ (term'[t].ws = "open" => term[t].ws = "open" \/ term'[t].state = "up")
      /\ term'[t].state = "up" \/ term[t].state # "up"
      /\ t \in registered' => t \in registered \/ term[t].ws = "none"
  BY <1>1 DEF CreateTerm, TermUp, TermFails, Attach, TermType, TableType, Ids, Begun
<1>4. Begun' /\ OwnedTerms' /\ OwnedFiles' /\ OwnedXfers'
  <2>1. t \notin Files
    BY RegistryAssumption
  <2>2. Begun'
    BY <1>2, <1>3, <2>1 DEF Begun
  <2>3. OwnedTerms'
    BY <1>2, <1>3 DEF OwnedTerms
  <2>4. OwnedFiles' /\ OwnedXfers'
    BY <1>2, <1>3, <2>1 DEF OwnedFiles, OwnedXfers, workerVars
  <2>. QED BY <2>2, <2>3, <2>4
<1>. QED BY <1>1, <1>2, <1>3, <1>4, TypesNext, FileKept, XferKept, SockKept, CmdKept

\* Its shell ends or its websocket closes: it is killed, if somebody listens.
LEMMA TermEnds ==
    ASSUME RegistryIInv, NEW t \in Terms, ShellEnds(t) \/ TermWsCloses(t)
    PROVE  RegistryIInv'
<1>. USE DEF RegistryIInv
<1>1. TableType /\ TermType /\ FileType /\ XferType /\ SockType /\ CmdType
  BY Types
<1>2. UNCHANGED <<file, xws, workerVars, cmd>> /\ UNCHANGED sock
  BY DEF ShellEnds, TermWsCloses, workerVars
<1>3. /\ TermType'
      /\ \A u \in Terms \ {t} : term'[u] = term[u]
      /\ term'[t].state = term[t].state
      /\ term'[t].ws = term[t].ws \/ (term[t].ws = "open" /\ OnClose(t))
  BY <1>1, ZenonT(60) DEF ShellEnds, TermWsCloses, TermType
<1>4. \A u \in Terms : term'[u].state # "up" => term'[u].ws = "none"
  BY <1>3 DEF Begun
<1>5. CASE OnClose(t)
  <2>1. KillAll({t}) /\ {t} \in SUBSET Ids
    BY <1>5 DEF OnClose, Cleaned, Ids
  <2>2. TableType' /\ FileType' /\ XferType' /\ Begun' /\ OwnedTerms' /\ OwnedFiles' /\ OwnedXfers'
    BY <1>1, <1>2, <1>3, <1>4, <2>1, Killing
  <2>. QED BY <1>1, <1>2, <1>3, <2>2, TypesNext, SockKept, CmdKept
<1>6. CASE UNCHANGED <<registered, killed, transfers, xfer>> /\ term'[t].ws = term[t].ws
  <2>1. Begun' /\ OwnedTerms' /\ OwnedFiles' /\ OwnedXfers'
    BY <1>2, <1>3, <1>4, <1>6 DEF Begun, OwnedTerms, OwnedFiles, OwnedXfers
  <2>. QED BY <1>1, <1>2, <1>3, <1>6, <2>1, TypesNext, TableKept, FileKept, XferKept, SockKept, CmdKept
<1>. QED BY <1>1, <1>3, <1>5, <1>6 DEF ShellEnds, TermWsCloses, TermType

\* A command is answered once.
LEMMA Commands ==
    ASSUME RegistryIInv, NEW t \in Terms,
           ExecCmd(t) \/ ExecOpened(t) \/ ExecRefused(t) \/ ExecTimeout(t) \/ ExecCloses(t)
    PROVE  RegistryIInv'
<1>. USE DEF RegistryIInv
<1>1. TableType /\ TermType /\ FileType /\ XferType /\ SockType /\ CmdType
  BY Types
<1>2. UNCHANGED sessionVars /\ UNCHANGED workerVars
  BY DEF ExecCmd, ExecOpened, ExecRefused, ExecTimeout, ExecCloses
<1>3. UNCHANGED <<registered, killed, term, file, transfers, xfer, xws, sock>>
  BY <1>2 DEF sessionVars, workerVars
<1>4. cmd[t].state # "over" =>
        /\ Answer(t) \in [Terms -> [state : {"none", "opening", "running", "over"},
                                    timer : BOOLEAN, chan : BOOLEAN, answers : 0 .. 1]]
        /\ Answer(t)[t].state = "over" /\ \A u \in Terms \ {t} : Answer(t)[u] = cmd[u]
  <2>. SUFFICES ASSUME cmd[t].state # "over"
                PROVE  /\ Answer(t) \in [Terms -> [state : {"none", "opening", "running", "over"},
                                                   timer : BOOLEAN, chan : BOOLEAN, answers : 0 .. 1]]
                       /\ Answer(t)[t].state = "over" /\ \A u \in Terms \ {t} : Answer(t)[u] = cmd[u]
    OBVIOUS
  <2>1. cmd[t].answers + 1 \in 0 .. 1
    BY DEF Once
  <2>. QED BY <1>1, <2>1, ZenonT(60) DEF Answer, CmdType
<1>5. CmdType' /\ Once'
  <2>1. CASE ExecCmd(t) \/ ExecRefused(t)
    BY <1>1, <1>4, <2>1 DEF ExecCmd, ExecRefused, CmdType, Once
  <2>2. CASE ExecOpened(t)
    <3>1. PICK timed \in BOOLEAN :
             cmd' = [cmd EXCEPT ![t].state = "running", ![t].timer = timed, ![t].chan = TRUE]
      BY <2>2 DEF ExecOpened
    <3>. QED BY <1>1, <2>2, <3>1, ZenonT(60) DEF ExecOpened, CmdType, Once
  <2>3. CASE ExecTimeout(t)
    BY <1>1, <1>4, <2>3 DEF ExecTimeout, Settle, CmdType, Once
  <2>4. CASE ExecCloses(t)
    <3>. DEFINE after == Settle(t)
    <3>1. /\ after \in [Terms -> [state : {"none", "opening", "running", "over"},
                                  timer : BOOLEAN, chan : BOOLEAN, answers : 0 .. 1]]
          /\ \A u \in Terms : after[u].state # "over" => after[u].answers = 0
      BY <1>1, <1>4 DEF Settle, CmdType, Once
    <3>. HIDE DEF after
    <3>2. cmd' = [after EXCEPT ![t].chan = FALSE]
      BY <2>4 DEF ExecCloses, after
    <3>. QED BY <3>1, <3>2 DEF CmdType, Once
  <2>. QED BY <2>1, <2>2, <2>3, <2>4
<1>6. Begun' /\ OwnedTerms' /\ OwnedFiles' /\ OwnedXfers'
  BY <1>3 DEF Begun, OwnedTerms, OwnedFiles, OwnedXfers
<1>. QED BY <1>1, <1>2, <1>3, <1>5, <1>6, TypesNext, TableKept, TermKept, FileKept, XferKept, SockKept

-----------------------------------------------------------------------------
(* The worker.                                                             *)

\* The worker opens and closes websockets.
LEMMA Worker ==
    ASSUME RegistryIInv, NEW s \in Socks, CreateWs(s) \/ WsOpens(s) \/ WsRefused(s) \/ WsClosing(s) \/ WsClosed(s)
    PROVE  RegistryIInv'
<1>. USE DEF RegistryIInv
<1>1. TableType /\ TermType /\ FileType /\ XferType /\ SockType /\ CmdType
  BY Types
<1>2. UNCHANGED <<registered, killed, term, file, transfers, xfer, xws, cmd>>
  BY DEF CreateWs, WsOpens, WsRefused, WsClosing, WsClosed, sessionVars
<1>3. /\ SockType'
      /\ \A r \in Socks \ {s} : sock'[r] = sock[r]
      /\ sock'[s].file = sock[s].file /\ sock'[s].server \in {sock[s].server, "open"}
  BY <1>1, RegistryAssumption DEF CreateWs, WsOpens, WsRefused, WsClosing, WsClosed, ClosedInsts, SockType
<1>4. OwnedFiles'
  <2>1. \A r \in Socks : sock'[r].file = sock[r].file /\ (sock[r].server = "open" => sock'[r].server = "open")
    BY <1>3
  <2>. QED BY <1>2, <2>1 DEF OwnedFiles
<1>5. Begun' /\ OwnedTerms' /\ OwnedXfers'
  BY <1>2 DEF Begun, OwnedTerms, OwnedXfers
<1>6. Named'
  <2>. DEFINE ById == \A f \in Files : insts[f] \in Socks => sock[insts[f]].file = f
  <2>5. ById'
    <3>. SUFFICES ASSUME NEW f \in Files, insts'[f] \in Socks PROVE sock'[insts'[f]].file = f
      OBVIOUS
    <3>1. insts'[f] = insts[f] \/ (insts'[f] = s /\ sock[s].file = f)
      BY <1>1, RegistryAssumption DEF CreateWs, WsOpens, WsRefused, WsClosing, WsClosed, ClosedInsts, SockType
    <3>2. \A r \in Socks : sock'[r].file = sock[r].file
      BY <1>3
    <3>. QED BY <3>1, <3>2 DEF Named
  <2>1. CASE CreateWs(s) \/ WsClosing(s)
    BY <1>1, <2>1, <2>5 DEF CreateWs, WsClosing, SockType, Named
  <2>2. CASE WsOpens(s)
    BY <1>1, <2>2, <2>5, RegistryAssumption DEF WsOpens, IsDup, SockType, Named
  <2>3. CASE WsRefused(s)
    <3>1. refused' # 0 /\ sock'[s].browser = "closed"
      BY <1>1, <2>3, RegistryAssumption DEF WsRefused, SockType
    <3>. QED BY <1>3, <2>5, <3>1 DEF Named
  <2>4. CASE WsClosed(s)
    <3>1. /\ sock'[s].browser = "closed" /\ UNCHANGED refused
          /\ insts' = IF sock[s].dup THEN insts ELSE [insts EXCEPT ![sock[s].file] = NoSock]
          /\ sock[s].browser = "closing"
      BY <1>1, <2>4 DEF WsClosed, ClosedInsts, SockType
    <3>2. \A r \in Socks : sock'[r].dup => sock'[r].browser \in {"closing", "closed"}
      BY <1>3, <3>1 DEF Named
    <3>3. ASSUME refused' = 0, NEW r \in Socks, sock'[r].browser \in {"open", "closing"}, ~sock'[r].dup
          PROVE  insts'[sock'[r].file] = r
      <4>1. r # s /\ sock'[r] = sock[r] /\ insts[sock[r].file] = r
        BY <1>3, <3>1, <3>3 DEF Named
      <4>2. CASE sock[s].dup
        BY <3>1, <4>1, <4>2
      <4>3. CASE ~sock[s].dup
        <5>1. insts[sock[s].file] = s
          BY <3>1, <3>3, <4>3 DEF Named
        <5>2. sock[r].file # sock[s].file
          BY <4>1, <5>1
        <5>. QED BY <1>1, <3>1, <4>1, <4>3, <5>2 DEF SockType
      <4>. QED BY <4>2, <4>3
    <3>. QED BY <2>5, <3>2, <3>3 DEF Named
  <2>. QED BY <2>1, <2>2, <2>3, <2>4
<1>. QED BY <1>1, <1>2, <1>3, <1>4, <1>5, <1>6, TypesNext, TableKept, TermKept, FileKept, XferKept, CmdKept

-----------------------------------------------------------------------------
(* File sessions.                                                          *)

\* A file session is created, connects, is connected or refused.
LEMMA FileBegins ==
    ASSUME RegistryIInv, NEW f \in Files,
           (\E kind \in {"sftp", "ftp"} : SftpNew(f, kind)) \/ Connect(f) \/ Connected(f) \/ ConnectFails(f)
    PROVE  RegistryIInv'
<1>. USE DEF RegistryIInv
<1>1. TableType /\ TermType /\ FileType /\ XferType /\ SockType /\ CmdType
  BY Types
<1>2. UNCHANGED <<killed, term, xfer, xws, workerVars, cmd>> /\ UNCHANGED sock
  BY DEF SftpNew, Connect, Connected, ConnectFails, workerVars
<1>3. f \notin Terms
  BY RegistryAssumption
<1>4. /\ FileType' /\ TableType'
      /\ \A g \in Files \ {f} : file'[g] = file[g] /\ transfers'[g] = transfers[g]
      /\ registered' \in {registered, registered \cup {f}}
  BY <1>1 DEF SftpNew, Connect, Connected, ConnectFails, FileType, TableType, Ids
<1>5. /\ file'[f].kind # "none" /\ (f \notin killed => f \in registered')
      /\ file[f].connect = "ready" => UNCHANGED file /\ UNCHANGED transfers
      /\ file[f].connect = "none" \/ UNCHANGED transfers
  <2>1. ASSUME NEW kind \in {"sftp", "ftp"}, SftpNew(f, kind)
        PROVE  file'[f].kind = kind /\ file'[f].connect = file[f].connect /\ file[f].kind = "none"
    BY <1>1, <2>1 DEF SftpNew, FileType
  <2>2. CASE \E kind \in {"sftp", "ftp"} : SftpNew(f, kind)
    <3>1. f \in registered' /\ UNCHANGED transfers
      BY <2>2 DEF SftpNew
    <3>2. file'[f].kind # "none" /\ file[f].connect = "none"
      BY <1>1, <2>1, <2>2 DEF Begun, FileType
    <3>. QED BY <3>1, <3>2
  <2>3. CASE Connect(f)
    BY <1>1, <2>3 DEF Connect, Begun, FileType
  <2>4. CASE Connected(f)
    BY <1>1, <2>4 DEF Connected, Begun, FileType
  <2>5. CASE ConnectFails(f)
    BY <1>1, <2>5 DEF ConnectFails, Begun, FileType
  <2>. QED BY <2>2, <2>3, <2>4, <2>5
<1>6. \A x \in Xfers : xfer[x].state # "none" \/ xfer[x].client # "none" =>
         file'[FileOf[x]].connect = "ready" /\ transfers'[FileOf[x]] = transfers[FileOf[x]]
  <2>. SUFFICES ASSUME NEW x \in Xfers, xfer[x].state # "none" \/ xfer[x].client # "none"
                PROVE  file'[FileOf[x]].connect = "ready" /\ transfers'[FileOf[x]] = transfers[FileOf[x]]
    OBVIOUS
  <2>1. FileOf[x] \in Files /\ file[FileOf[x]].connect = "ready"
    BY RegistryAssumption DEF Begun
  <2>. QED BY <1>4, <1>5, <2>1
<1>7. Begun'
  BY <1>2, <1>4, <1>5, <1>6 DEF Begun
<1>8. OwnedTerms'
  BY <1>2, <1>3, <1>4 DEF OwnedTerms
<1>9. OwnedFiles'
  <2>1. CASE registered' = registered
    BY <1>2, <2>1 DEF OwnedFiles
  <2>2. CASE \E kind \in {"sftp", "ftp"} : SftpNew(f, kind)
    <3>1. \E s \in Socks : insts[f] = s /\ sock[s].server = "open"
      BY <2>2 DEF SftpNew
    <3>2. \E s \in Socks : sock[s].file = f /\ sock[s].server = "open"
      BY <3>1 DEF Named
    <3>. QED BY <1>2, <1>4, <3>2 DEF OwnedFiles
  <2>3. CASE Connected(f)
    <3>1. f \notin killed => f \in registered
      BY <1>1, <2>3 DEF Connected, Begun
    <3>. QED BY <1>2, <1>4, <3>1 DEF OwnedFiles
  <2>. QED BY <2>1, <2>2, <2>3 DEF Connect, ConnectFails
<1>10. OwnedXfers'
  BY <1>2, <1>4, <1>6 DEF OwnedXfers
<1>. QED BY <1>1, <1>2, <1>4, <1>7, <1>8, <1>9, <1>10, TypesNext, TermKept, XferKept, SockKept, CmdKept

\* The close event of a websocket at the server, or the browser's sftp-destroy.
LEMMA FileEnds ==
    ASSUME RegistryIInv, NEW s \in Socks, FileWsCloses(s) \/ SftpDestroy(s)
    PROVE  RegistryIInv'
<1>. USE DEF RegistryIInv
<1>1. TableType /\ TermType /\ FileType /\ XferType /\ SockType /\ CmdType
  BY Types
<1>2. /\ UNCHANGED <<term, file, xws, insts, refused, cmd>>
      /\ KillAll({sock[s].file} \cap registered) /\ {sock[s].file} \cap registered \in SUBSET Ids
  BY <1>1 DEF FileWsCloses, SftpDestroy, KillRegistered, TableType
<1>3. /\ SockType'
      /\ \A r \in Socks \ {s} : sock'[r] = sock[r]
      /\ sock'[s].file = sock[s].file /\ sock'[s].dup = sock[s].dup
      /\ sock'[s].browser = sock[s].browser \/ (sock[s].browser = "open" /\ sock'[s].browser = "closing")
  BY <1>1, <1>2 DEF FileWsCloses, SftpDestroy, SockType
<1>4. Named'
  BY <1>2, <1>3 DEF Named
<1>5. \A f \in (Files \cap registered) \ ({sock[s].file} \cap registered) : \A r \in Socks :
         sock[r].file = f /\ sock[r].server = "open" => sock'[r].file = f /\ sock'[r].server = "open"
  BY <1>3
<1>6. TableType' /\ FileType' /\ XferType' /\ Begun' /\ OwnedTerms' /\ OwnedFiles' /\ OwnedXfers'
  <2>1. \A t \in Terms : term'[t].state # "up" => term'[t].ws = "none"
    BY <1>2 DEF Begun
  <2>. QED BY <1>1, <1>2, <1>5, <2>1, Killing
<1>. QED BY <1>1, <1>2, <1>3, <1>4, <1>6, TypesNext, TermKept, CmdKept

-----------------------------------------------------------------------------
(* Transfers.                                                              *)

\* A transfer begins, runs and ends.
LEMMA XferRuns ==
    ASSUME RegistryIInv, NEW x \in Xfers,
           XferNew(x) \/ XferNewLost(x) \/ FtpClientOpens(x) \/ FtpClientFails(x) \/ XferEnds(x)
    PROVE  RegistryIInv'
<1>. USE DEF RegistryIInv
<1>1. TableType /\ TermType /\ FileType /\ XferType /\ SockType /\ CmdType
  BY Types
<1>2. UNCHANGED <<registered, killed, term, file, workerVars, cmd>> /\ UNCHANGED sock
  BY DEF XferNew, XferNewLost, FtpClientOpens, FtpClientFails, XferEnds, workerVars
<1>3. FileOf[x] \in Files
  BY RegistryAssumption
<1>4. CASE XferNew(x)
  <2>1. /\ xws' = [xws EXCEPT ![x] = "open"] /\ file[FileOf[x]].connect = "ready" /\ FileOf[x] \in registered
        /\ xfer' = [xfer EXCEPT ![x].state = "running",
                                ![x].client = IF file[FileOf[x]].kind = "ftp" THEN "pending" ELSE "none"]
        /\ transfers' = [transfers EXCEPT ![FileOf[x]] = @ \cup {x}]
    BY <1>4 DEF XferNew
  <2>2. XferType' /\ FileType'
    BY <1>1, <1>2, <2>1, ZenonT(60) DEF XferType, FileType
  <2>3. /\ \A y \in Xfers \ {x} : xfer'[y] = xfer[y] /\ xws'[y] = xws[y]
        /\ xws'[x] = "open" /\ x \in transfers'[FileOf[x]]
        /\ \A f \in Files : transfers[f] \subseteq transfers'[f]
    BY <1>1, <1>3, <2>1 DEF XferType, FileType
  <2>4. Begun' /\ OwnedTerms' /\ OwnedFiles'
    BY <1>2, <2>1, <2>3, ZenonT(60) DEF Begun, OwnedTerms, OwnedFiles
  <2>5. OwnedXfers'
    <3>. SUFFICES ASSUME NEW y \in Xfers, xfer'[y].state = "running", ~xfer'[y].destroyed
                  PROVE  xws'[y] = "open" /\ FileOf[y] \in registered' /\ y \in transfers'[FileOf[y]]
      BY DEF OwnedXfers
    <3>1. CASE y = x
      BY <1>2, <2>1, <2>3, <3>1
    <3>2. CASE y # x
      <4>1. xws[y] = "open" /\ FileOf[y] \in registered /\ y \in transfers[FileOf[y]] /\ FileOf[y] \in Files
        BY <2>3, <3>2, RegistryAssumption DEF OwnedXfers
      <4>. QED BY <1>2, <2>3, <3>2, <4>1
    <3>. QED BY <3>1, <3>2
  <2>. QED BY <1>1, <1>2, <2>2, <2>4, <2>5, TypesNext, TableKept, TermKept, SockKept, CmdKept
<1>5. CASE XferNewLost(x)
  <2>1. xws' = [xws EXCEPT ![x] = "open"] /\ UNCHANGED <<transfers, xfer>>
    BY <1>5 DEF XferNewLost
  <2>2. XferType' /\ FileType'
    BY <1>1, <1>2, <2>1 DEF XferType, FileType
  <2>3. \A y \in Xfers : xws'[y] \in {xws[y], "open"}
    BY <1>1, <2>1 DEF XferType
  <2>4. Begun' /\ OwnedTerms' /\ OwnedFiles' /\ OwnedXfers'
    BY <1>2, <2>1, <2>3 DEF Begun, OwnedTerms, OwnedFiles, OwnedXfers
  <2>. QED BY <1>1, <1>2, <2>2, <2>4, TypesNext, TableKept, TermKept, SockKept, CmdKept
<1>6. CASE FtpClientOpens(x) \/ FtpClientFails(x) \/ XferEnds(x)
  <2>1. UNCHANGED <<transfers, xws>>
    BY <1>6 DEF FtpClientOpens, FtpClientFails, XferEnds
  <2>2. XferType'
    BY <1>1, <1>6, <2>1 DEF FtpClientOpens, FtpClientFails, XferEnds, AfterCopy, XferType
  <2>3. \A y \in Xfers : /\ xfer'[y].destroyed = xfer[y].destroyed
                         /\ xfer'[y].state = "running" => xfer[y].state = "running"
                         /\ xfer'[y].state # "none" \/ xfer'[y].client # "none"
                            => xfer[y].state # "none" \/ xfer[y].client # "none"
    BY <1>1, <1>6 DEF FtpClientOpens, FtpClientFails, XferEnds, XferType
  <2>4. FileType'
    BY <1>1, <1>2, <2>1 DEF FileType
  <2>5. Begun' /\ OwnedTerms' /\ OwnedFiles' /\ OwnedXfers'
    BY <1>2, <2>1, <2>3 DEF Begun, OwnedTerms, OwnedFiles, OwnedXfers
  <2>. QED BY <1>1, <1>2, <2>2, <2>4, <2>5, TypesNext, TableKept, TermKept, SockKept, CmdKept
<1>. QED BY <1>4, <1>5, <1>6

\* A transfer is destroyed, or its websocket closes.
LEMMA XferStops ==
    ASSUME RegistryIInv, NEW x \in Xfers, XferDestroy(x) \/ XferWsCloses(x)
    PROVE  RegistryIInv'
<1>. USE DEF RegistryIInv
<1>1. TableType /\ TermType /\ FileType /\ XferType /\ SockType /\ CmdType
  BY Types
<1>. DEFINE found == IF FileOf[x] \in registered THEN {x} \cap transfers[FileOf[x]] ELSE {}
<1>2. /\ UNCHANGED <<registered, killed, term, file, workerVars, cmd>> /\ UNCHANGED sock
      /\ transfers' = [transfers EXCEPT ![FileOf[x]] = @ \ found] /\ xfer' = Destroyed(found)
      /\ xws' \in {xws, [xws EXCEPT ![x] = "closed"]}
  BY DEF XferDestroy, XferWsCloses, DestroyTransfer, workerVars
<1>3. FileOf[x] \in Files /\ found \in SUBSET {x} /\ (found # {x} =>
          ~(FileOf[x] \in registered /\ x \in transfers[FileOf[x]]))
  BY RegistryAssumption
<1>. HIDE DEF found
<1>4. /\ xws' \in [Xfers -> {"none", "open", "closed"}]
      /\ \A y \in Xfers \ {x} : xws'[y] = xws[y]
  BY <1>1, <1>2 DEF XferType
<1>5. XferType' /\ FileType'
  <2>1. XferType'
    BY <1>1, <1>2, <1>4, Destroying DEF XferType
  <2>2. transfers' \in [Files -> SUBSET Xfers]
    BY <1>1, <1>2 DEF FileType
  <2>. QED BY <1>1, <1>2, <2>1, <2>2 DEF FileType
<1>6. \A y \in Xfers : /\ xfer'[y].state = xfer[y].state /\ xfer'[y].client = xfer[y].client
                       /\ ~xfer'[y].destroyed => ~xfer[y].destroyed /\ y \notin found
  BY <1>1, <1>2, Destroying
<1>7. \A f \in Files : transfers[f] \ {x} \subseteq transfers'[f]
  BY <1>1, <1>2, <1>3 DEF FileType
<1>8. Begun' /\ OwnedTerms' /\ OwnedFiles'
  BY <1>2, <1>6 DEF Begun, OwnedTerms, OwnedFiles
<1>9. OwnedXfers'
  <2>. SUFFICES ASSUME NEW y \in Xfers, xfer'[y].state = "running", ~xfer'[y].destroyed
                PROVE  xws'[y] = "open" /\ FileOf[y] \in registered' /\ y \in transfers'[FileOf[y]]
    BY DEF OwnedXfers
  <2>1. /\ xws[y] = "open" /\ FileOf[y] \in registered /\ y \in transfers[FileOf[y]]
        /\ FileOf[y] \in Files /\ y \notin found
    BY <1>6, RegistryAssumption DEF OwnedXfers
  <2>2. y # x
    BY <1>3, <2>1
  <2>. QED BY <1>2, <1>4, <1>7, <2>1, <2>2
<1>. QED BY <1>1, <1>2, <1>5, <1>8, <1>9, TypesNext, TableKept, TermKept, SockKept, CmdKept

-----------------------------------------------------------------------------
(* The invariants.                                                         *)

LEMMA RegistryInitially == RegistryInit => RegistryIInv
<1>. SUFFICES ASSUME RegistryInit PROVE RegistryIInv
  OBVIOUS
<1>1. RegistryTypeOK
  <2>1. TableType /\ TermType /\ FileType
    BY DEF RegistryInit, TableType, TermType, FileType
  <2>2. XferType /\ CmdType
    BY 0 \in 0 .. 1 DEF RegistryInit, XferType, CmdType
  <2>3. sock \in [Socks -> [file : Files, browser : {"none", "connecting", "open", "closing", "closed"},
                           server : {"none", "open", "closed"}, dup : BOOLEAN]]
    <3>1. \A s \in Socks : sock[s] \in [file : Files, browser : {"none"}, server : {"none"}, dup : {FALSE}]
      BY DEF RegistryInit
    <3>2. sock = [s \in Socks |-> sock[s]]
      BY DEF RegistryInit
    <3>. QED BY <3>1, <3>2
  <2>4. insts \in [Files -> Socks \cup {NoSock}] /\ refused \in 0 .. MaxRefused
    BY RegistryAssumption DEF RegistryInit
  <2>. QED BY <2>1, <2>2, <2>3, <2>4, Types DEF SockType
<1>2. Begun /\ OwnedTerms /\ OwnedFiles /\ OwnedXfers
  BY DEF RegistryInit, Begun, OwnedTerms, OwnedFiles, OwnedXfers
<1>3. Named /\ Once
  <2>1. \A s \in Socks : sock[s].browser = "none" /\ sock[s].dup = FALSE
    BY DEF RegistryInit
  <2>. QED BY <2>1, RegistryAssumption DEF RegistryInit, Named, Once
<1>. QED BY <1>1, <1>2, <1>3 DEF RegistryIInv

LEMMA EveryStep == RegistryIInv /\ [RegistryNext]_registryVars => RegistryIInv'
<1>. SUFFICES ASSUME RegistryIInv, [RegistryNext]_registryVars PROVE RegistryIInv'
  OBVIOUS
<1>1. ASSUME NEW t \in Terms, CreateTerm(t) \/ TermUp(t) \/ TermFails(t) \/ Attach(t) PROVE RegistryIInv'
  BY <1>1, TermBegins
<1>2. ASSUME NEW t \in Terms, ShellEnds(t) \/ TermWsCloses(t) PROVE RegistryIInv'
  BY <1>2, TermEnds
<1>3. ASSUME NEW t \in Terms,
             ExecCmd(t) \/ ExecOpened(t) \/ ExecRefused(t) \/ ExecTimeout(t) \/ ExecCloses(t) PROVE RegistryIInv'
  BY <1>3, Commands
<1>4. ASSUME NEW s \in Socks,
             CreateWs(s) \/ WsOpens(s) \/ WsRefused(s) \/ WsClosing(s) \/ WsClosed(s) PROVE RegistryIInv'
  BY <1>4, Worker
<1>5. ASSUME NEW s \in Socks, FileWsCloses(s) \/ SftpDestroy(s) PROVE RegistryIInv'
  BY <1>5, FileEnds
<1>6. ASSUME NEW f \in Files,
             (\E kind \in {"sftp", "ftp"} : SftpNew(f, kind)) \/ Connect(f) \/ Connected(f) \/ ConnectFails(f)
      PROVE  RegistryIInv'
  BY <1>6, FileBegins
<1>7. ASSUME NEW x \in Xfers,
             XferNew(x) \/ XferNewLost(x) \/ FtpClientOpens(x) \/ FtpClientFails(x) \/ XferEnds(x) PROVE RegistryIInv'
  BY <1>7, XferRuns
<1>8. ASSUME NEW x \in Xfers, XferDestroy(x) \/ XferWsCloses(x) PROVE RegistryIInv'
  BY <1>8, XferStops
<1>9. CASE UNCHANGED registryVars
  <2>1. UNCHANGED <<registered, killed, term, file, transfers, xfer, xws, sock, workerVars, cmd>>
    BY <1>9 DEF registryVars, sessionVars, workerVars
  <2>2. Begun' /\ OwnedTerms' /\ OwnedFiles' /\ OwnedXfers'
    BY <2>1 DEF RegistryIInv, Begun, OwnedTerms, OwnedFiles, OwnedXfers
  <2>. QED BY <2>1, <2>2, Types, TypesNext, TableKept, TermKept, FileKept, XferKept, SockKept, CmdKept DEF RegistryIInv
<1>. QED BY <1>1, <1>2, <1>3, <1>4, <1>5, <1>6, <1>7, <1>8, <1>9 DEF RegistryNext

LEMMA RegistryInvariant == RegistrySpec => []RegistryIInv
<1>. QED BY RegistryInitially, EveryStep, PTL DEF RegistrySpec

LEMMA Single == RegistryIInv => OneSocket
<1>. SUFFICES ASSUME RegistryIInv, refused = 0, NEW s \in Socks, NEW r \in Socks,
                     sock[s].browser = "open", sock[r].browser = "open", sock[s].file = sock[r].file
              PROVE  s = r
  BY DEF OneSocket
<1>1. insts[sock[s].file] = s /\ insts[sock[r].file] = r
  BY DEF RegistryIInv, Named
<1>. QED BY <1>1

\* For any terminals, file sessions, transfers and websockets: a terminal in the
\* table has not lost its websocket, a file session in it has one unless a connect
\* outlived its kill, a transfer at work is held by its session or was destroyed,
\* and the worker keeps one websocket for an id however its creations race.
THEOREM RegistryInvHolds == RegistrySpec => []RegistryInv
<1>1. RegistryIInv => RegistryInv
  BY Single DEF RegistryIInv, OwnedTerms, OwnedFiles, OwnedXfers, Owned, RegistryInv
<1>. QED BY <1>1, RegistryInvariant, PTL

-----------------------------------------------------------------------------
(* What one close takes along.                                             *)

LEMMA AtMostOne ==
    ASSUME NEW S, NEW a, S \subseteq {a}
    PROVE  Cardinality(S) <= 1
<1>1. CASE S = {}
  BY <1>1, FS_EmptySet
<1>2. CASE S = {a}
  BY <1>2, FS_Singleton
<1>. QED BY <1>1, <1>2

\* For any number of sessions, a step kills at most one of them: onClose calls
\* cleanAllSessions, which finds no session to kill.
THEOREM CloseIsLocalHolds == RegistrySpec => CloseIsLocal
<1>1. [RegistryNext]_registryVars => [Cardinality(killed' \ killed) <= 1]_registryVars
  <2>. SUFFICES ASSUME RegistryNext PROVE \E a : killed' \ killed \subseteq {a}
    BY AtMostOne
  <2>1. ASSUME NEW t \in Terms, ShellEnds(t) \/ TermWsCloses(t)
        PROVE  \E a : killed' \ killed \subseteq {a}
    BY <2>1 DEF ShellEnds, TermWsCloses, OnClose, Cleaned, KillAll
  <2>2. ASSUME NEW s \in Socks, FileWsCloses(s) \/ SftpDestroy(s)
        PROVE  \E a : killed' \ killed \subseteq {a}
    BY <2>2 DEF FileWsCloses, SftpDestroy, KillRegistered, KillAll
  <2>3. CASE UNCHANGED killed
    BY <2>3
  <2>4. ASSUME NEW t \in Terms, \/ CreateTerm(t) \/ TermUp(t) \/ TermFails(t) \/ Attach(t)
                                \/ ExecCmd(t) \/ ExecOpened(t) \/ ExecRefused(t) \/ ExecTimeout(t) \/ ExecCloses(t)
        PROVE  UNCHANGED killed
    BY <2>4 DEF CreateTerm, TermUp, TermFails, Attach, ExecCmd, ExecOpened, ExecRefused, ExecTimeout, ExecCloses,
               sessionVars
  <2>5. ASSUME NEW s \in Socks, CreateWs(s) \/ WsOpens(s) \/ WsRefused(s) \/ WsClosing(s) \/ WsClosed(s)
        PROVE  UNCHANGED killed
    BY <2>5 DEF CreateWs, WsOpens, WsRefused, WsClosing, WsClosed, sessionVars
  <2>6. ASSUME NEW f \in Files,
               (\E kind \in {"sftp", "ftp"} : SftpNew(f, kind)) \/ Connect(f) \/ Connected(f) \/ ConnectFails(f)
        PROVE  UNCHANGED killed
    BY <2>6 DEF SftpNew, Connect, Connected, ConnectFails
  <2>7. ASSUME NEW x \in Xfers, \/ XferNew(x) \/ XferNewLost(x) \/ FtpClientOpens(x) \/ FtpClientFails(x)
                                \/ XferEnds(x) \/ XferDestroy(x) \/ XferWsCloses(x)
        PROVE  UNCHANGED killed
    BY <2>7 DEF XferNew, XferNewLost, FtpClientOpens, FtpClientFails, XferEnds, XferDestroy, XferWsCloses
  <2>. QED BY <2>1, <2>2, <2>3, <2>4, <2>5, <2>6, <2>7 DEF RegistryNext
<1>. QED BY <1>1, PTL DEF RegistrySpec, CloseIsLocal

-----------------------------------------------------------------------------
(* McpServer.                                                              *)

\* What is under way for a task: its command is started once, and what a call asks of
\* a task, or has seen of its command, stays true of it.
Asked == {"status", "log", "cancel"}
OpSound(o) ==
    /\ op[o].kind = "run" => /\ op[o].task \in Task /\ status[op[o].task] = "none"
                             /\ job[op[o].task] = IF op[o].did THEN "running" ELSE "none"
    /\ op[o].kind \in Asked => op[o].task \in Task /\ status[op[o].task] \notin {"none", "lost"}
    /\ op[o].kind = "log" \/ (op[o].kind = "status" /\ op[o].saw = "done")
         => job[op[o].task] \in {"done", "swept"}
RunOnce == \A o, p \in Op :
    op[o].kind = "run" /\ op[p].kind = "run" /\ op[o].task = op[p].task => o = p

\* The table lists each task once, no more than it may hold.
Distinct == \A i, j \in DOMAIN order : order[i] = order[j] => i = j
Listed   == {order[i] : i \in DOMAIN order} = Kept
Sized    == Cardinality(Kept) <= MaxTasks

\* Its files are there as long as the task is.
FilesKept == \A t \in Kept : job[t] # "swept"

TaskInv ==
    /\ McpTypeOK /\ \A o \in Op : OpSound(o)
    /\ RunOnce /\ Distinct /\ Listed /\ Sized /\ FilesKept /\ CompleteIsDone

-----------------------------------------------------------------------------
(* The table of tasks.                                                     *)

\* Every set of positions has a first one.
LEMMA LeastOne ==
  ASSUME NEW S \in SUBSET Nat, S # {}
  PROVE  \E m \in S : \A k \in S : m <= k
<1>. PICK n \in S : TRUE
  OBVIOUS
<1>. DEFINE segments == {0 .. k : k \in {j \in S : j <= n}}
<1>1. segments \subseteq FiniteSubsetsOf(0 .. n)
  <2>. SUFFICES ASSUME NEW k \in S, k <= n PROVE 0 .. k \in FiniteSubsetsOf(0 .. n)
    OBVIOUS
  <2>1. IsFiniteSet(0 .. k)
    BY FS_Interval
  <2>. QED BY <2>1 DEF FiniteSubsetsOf
<1>2. segments # {}
  <2>1. 0 .. n \in segments
    OBVIOUS
  <2>. QED BY <2>1
<1>3. PICK A \in segments : \A B \in segments : <<B, A>> \notin StrictSubsetOrdering(0 .. n)
  <2>. HIDE DEF segments
  <2>. QED BY <1>1, <1>2, FS_StrictSubsetOrderingWellFounded, WFMin, Zenon
<1>4. PICK m \in S : m <= n /\ A = 0 .. m
  OBVIOUS
<1>5. ASSUME NEW k \in S, k < m PROVE FALSE
  <2>0. k \in Nat /\ m \in Nat /\ n \in Nat /\ k <= n
    <3>1. k \in Nat /\ m \in Nat /\ n \in Nat
      OBVIOUS
    <3>2. m <= n /\ k < m
      BY <1>4, <1>5
    <3>. HIDE DEF segments
    <3>. QED BY <3>1, <3>2
  <2>1. 0 .. k \in segments
    BY <2>0
  <2>2. 0 .. k \subseteq 0 .. m /\ 0 .. k # 0 .. m
    BY <1>5, m \in 0 .. m, m \notin 0 .. k
  <2>3. 0 .. k \in SUBSET (0 .. n) /\ 0 .. m \in SUBSET (0 .. n)
    BY <1>4, <2>0
  <2>. QED BY <2>1, <2>2, <2>3, <1>3, <1>4 DEF StrictSubsetOrdering
<1>. QED BY <1>5

LEMMA McpInitially == McpInit => TaskInv
<1>. SUFFICES ASSUME McpInit PROVE TaskInv
  OBVIOUS
<1>1. Kept = {} /\ order = <<>> /\ DOMAIN order = {}
  BY DEF McpInit, Kept, Terminal
<1>2. Sized
  BY <1>1, FS_EmptySet, McpAssumption DEF Sized
<1>3. McpTypeOK
  BY McpAssumption DEF McpInit, McpTypeOK, Free, Terminal
<1>4. \A o \in Op : OpSound(o) /\ op[o].kind # "run"
  BY DEF McpInit, OpSound, Free, Asked
<1>. QED BY <1>1, <1>2, <1>3, <1>4 DEF TaskInv, RunOnce, Distinct, Listed, FilesKept, CompleteIsDone, McpInit

\* What the table no longer lists: one task, the others in their order.
LEMMA WithoutLists ==
    ASSUME McpTypeOK, Distinct, NEW n \in DOMAIN order
    PROVE  /\ Without(order[n]) \in Seq(Task)
           /\ \A i, j \in DOMAIN Without(order[n]) : Without(order[n])[i] = Without(order[n])[j] => i = j
           /\ {Without(order[n])[i] : i \in DOMAIN Without(order[n])} = {order[i] : i \in DOMAIN order} \ {order[n]}
<1>. DEFINE low == SubSeq(order, 1, n - 1)
            high == SubSeq(order, n + 1, Len(order))
            rest == low \o high
<1>1. order \in Seq(Task) /\ n \in 1 .. Len(order) /\ DOMAIN order = 1 .. Len(order)
  BY DEF McpTypeOK
<1>2. Without(order[n]) = rest
  <2>1. (CHOOSE i \in DOMAIN order : order[i] = order[n]) = n
    BY DEF Distinct
  <2>. QED BY <2>1 DEF Without
<1>3. /\ low \in Seq(Task) /\ Len(low) = n - 1
      /\ \A i \in 1 .. n - 1 : low[i] = order[i]
  BY <1>1, SubSeqProperties
<1>4. /\ high \in Seq(Task) /\ Len(high) = Len(order) - n
      /\ \A i \in 1 .. Len(order) - n : high[i] = order[n + i]
  BY <1>1, SubSeqProperties
<1>. HIDE DEF low, high
<1>5. /\ rest \in Seq(Task) /\ Len(rest) = Len(order) - 1 /\ DOMAIN rest = 1 .. Len(order) - 1
      /\ \A i \in 1 .. Len(order) - 1 : rest[i] = IF i < n THEN order[i] ELSE order[i + 1]
  <2>1. /\ rest \in Seq(Task) /\ Len(rest) = Len(low) + Len(high)
        /\ \A i \in 1 .. Len(low) + Len(high) : rest[i] = IF i <= Len(low) THEN low[i] ELSE high[i - Len(low)]
    BY <1>3, <1>4, ConcatProperties
  <2>2. Len(low) + Len(high) = Len(order) - 1
    BY <1>1, <1>3, <1>4
  <2>3. ASSUME NEW i \in 1 .. Len(order) - 1 PROVE rest[i] = IF i < n THEN order[i] ELSE order[i + 1]
    <3>1. CASE i < n
      BY <1>1, <1>3, <2>1, <2>2, <3>1
    <3>2. CASE ~(i < n)
      <4>1. i - (n - 1) \in 1 .. Len(order) - n /\ n + (i - (n - 1)) = i + 1
        BY <1>1, <3>2
      <4>2. rest[i] = high[i - (n - 1)]
        BY <1>1, <1>3, <2>1, <2>2, <3>2
      <4>. QED BY <1>4, <3>2, <4>1, <4>2
    <3>. QED BY <3>1, <3>2
  <2>. HIDE DEF rest
  <2>. QED BY <2>1, <2>2, <2>3
<1>. HIDE DEF rest
<1>6. \A i, j \in DOMAIN rest : rest[i] = rest[j] => i = j
  <2>. SUFFICES ASSUME NEW i \in 1 .. Len(order) - 1, NEW j \in 1 .. Len(order) - 1, rest[i] = rest[j]
                PROVE  i = j
    BY <1>5
  <2>. DEFINE a == IF i < n THEN i ELSE i + 1
              b == IF j < n THEN j ELSE j + 1
  <2>1. a \in DOMAIN order /\ b \in DOMAIN order /\ order[a] = order[b]
    BY <1>1, <1>5
  <2>2. a = b
    <3>. HIDE DEF a, b
    <3>. QED BY <2>1 DEF Distinct
  <2>. QED BY <1>1, <2>2
<1>7. {rest[i] : i \in DOMAIN rest} = {order[i] : i \in DOMAIN order} \ {order[n]}
  <2>1. ASSUME NEW i \in DOMAIN rest PROVE rest[i] \in {order[k] : k \in DOMAIN order} \ {order[n]}
    BY <1>1, <1>5, <2>1 DEF Distinct
  <2>2. ASSUME NEW k \in DOMAIN order, k # n PROVE \E i \in DOMAIN rest : rest[i] = order[k]
    <3>1. CASE k < n
      BY <1>1, <1>5, <2>2, <3>1
    <3>2. CASE k > n
      <4>1. k - 1 \in DOMAIN rest /\ ~(k - 1 < n) /\ (k - 1) + 1 = k
        BY <1>1, <1>5, <2>2, <3>2
      <4>. QED BY <1>5, <4>1
    <3>. QED BY <1>1, <2>2, <3>1, <3>2
  <2>. QED BY <2>1, <2>2
<1>8. rest \in Seq(Task)
  BY <1>5
<1>. DEFINE less == Without(order[n])
<1>9. less = rest
  BY <1>2
<1>. HIDE DEF less
<1>10. /\ less \in Seq(Task)
       /\ \A i, j \in DOMAIN less : less[i] = less[j] => i = j
       /\ {less[i] : i \in DOMAIN less} = {order[i] : i \in DOMAIN order} \ {order[n]}
  BY <1>6, <1>7, <1>8, <1>9
<1>. QED BY <1>10 DEF less

\* The victim of a full table is in it.
LEMMA VictimListed ==
    ASSUME McpTypeOK, order # <<>>
    PROVE  \E n \in DOMAIN order : Victim = order[n]
<1>. DEFINE ended == {i \in DOMAIN order : status[order[i]] \in Terminal}
            among == IF ended = {} THEN DOMAIN order ELSE ended
<1>1. among \subseteq DOMAIN order /\ among # {} /\ among \in SUBSET Nat
  BY DEF McpTypeOK
<1>. HIDE DEF ended
<1>2. \E i \in among : \A j \in among : i <= j
  <2>. HIDE DEF among
  <2>. QED BY <1>1, LeastOne
<1>3. (CHOOSE i \in among : \A j \in among : i <= j) \in among
  <2>. HIDE DEF among
  <2>. QED BY <1>2
<1>4. Victim = order[CHOOSE i \in among : \A j \in among : i <= j]
  BY DEF Victim, ended
<1>. HIDE DEF among
<1>. QED BY <1>1, <1>3, <1>4

-----------------------------------------------------------------------------
(* The steps.                                                              *)

\* A call is what it was while its task is.
LEMMA OpStays ==
    ASSUME NEW o \in Op, OpSound(o), op'[o] = op[o],
           op[o].kind = "run" => /\ status'[op[o].task] = status[op[o].task]
                                 /\ job'[op[o].task] = job[op[o].task],
           op[o].kind \in Asked =>
               /\ status[op[o].task] \notin {"none", "lost"} => status'[op[o].task] \notin {"none", "lost"}
               /\ job[op[o].task] \in {"done", "swept"} => job'[op[o].task] \in {"done", "swept"}
    PROVE  OpSound(o)'
  BY DEF OpSound, Asked

\* What is listed in Kept and what is not.
LEMMA KeptIs == \A t \in Task : t \in Kept <=> status[t] \in {"working", "completed", "failed", "cancelled"}
  BY DEF Kept, Terminal

\* The widget starts, listens and has stopped, the browser reconnects.
LEMMA QuietStep ==
    ASSUME TaskInv, UNCHANGED <<op, status, order, job>>,
           life' \in {"off", "starting", "up", "stopping"},
           socket' \in 1 .. MaxSockets, handlerOn' \in 0 .. MaxSockets
    PROVE  TaskInv'
<1>1. McpTypeOK'
  BY DEF TaskInv, McpTypeOK
<1>2. \A o \in Op : OpSound(o)'
  BY OpStays DEF TaskInv
<1>3. Kept' = Kept
  BY DEF Kept
<1>. QED BY <1>1, <1>2, <1>3 DEF TaskInv, RunOnce, Distinct, Listed, Sized, FilesKept, CompleteIsDone

LEMMA StopStep ==
    ASSUME TaskInv, Stop, life' \in {"off", "starting", "up", "stopping"}
    PROVE  TaskInv'
<1>1. McpTypeOK'
  BY McpAssumption DEF TaskInv, McpTypeOK, Stop, Rejected, Free, Terminal
<1>2. \A t \in Task : status'[t] \in {"none", "gone", "lost"}
  BY DEF TaskInv, McpTypeOK, Stop, Kept, Terminal
<1>3. Kept' = {}
  BY <1>2 DEF Kept, Terminal
<1>4. \A o \in Op : OpSound(o)' /\ op'[o].kind = "none"
  BY DEF Stop, Rejected, Free, OpSound, Asked
<1>5. Sized'
  BY <1>3, FS_EmptySet, McpAssumption DEF Sized
<1>6. order' = <<>> /\ DOMAIN order' = {}
  BY DEF Stop
<1>. QED BY <1>1, <1>2, <1>3, <1>4, <1>5, <1>6 DEF TaskInv, RunOnce, Distinct, Listed, FilesKept, CompleteIsDone

\* A call takes a free place.
LEMMA CallStep ==
    ASSUME TaskInv, NEW kind, NEW t, Call(kind, t),
           \/ kind = "tool" /\ t = "none"
           \/ kind = "run" /\ t \in Unused
           \/ kind \in {"status", "cancel"} /\ t \in Task /\ status[t] = "working"
    PROVE  TaskInv'
<1>1. PICK o \in Op : o = Place /\ ~Busy(o)
  BY DEF Call, Place
<1>2. /\ op' = [op EXCEPT ![o] = Request(kind, t)] /\ UNCHANGED <<status, order, job>>
      /\ life = "up" /\ UNCHANGED <<life, socket, handlerOn>>
  BY <1>1 DEF Call, table
<1>3. Request(kind, t) \in [kind : {"none", "tool", "run", "status", "log", "cancel"},
                      task : Task \cup {"none"}, socket : 0 .. MaxSockets, did : BOOLEAN,
                      saw : {"none", "running", "done", "killed", "swept"}]
  BY McpAssumption DEF Request, TaskInv, McpTypeOK, Unused
<1>4. McpTypeOK'
  BY <1>1, <1>2, <1>3 DEF TaskInv, McpTypeOK
<1>5. op'[o] = Request(kind, t) /\ \A p \in Op \ {o} : op'[p] = op[p]
  BY <1>1, <1>2 DEF TaskInv, McpTypeOK
<1>6. OpSound(o)'
  <2>1. op'[o].kind = kind /\ op'[o].task = t /\ ~op'[o].did /\ op'[o].saw = "none"
    BY <1>5 DEF Request
  <2>2. kind = "run" => t \in Task /\ status[t] = "none" /\ job[t] = "none"
    BY DEF Unused
  <2>3. kind \in Asked => kind # "log" /\ t \in Task /\ status[t] = "working"
    BY DEF Asked
  <2>4. kind \in {"tool", "run", "status", "cancel"}
    OBVIOUS
  <2>. QED BY <1>2, <2>1, <2>2, <2>3, <2>4 DEF OpSound, Asked
<1>7. \A p \in Op \ {o} : OpSound(p)'
  BY <1>2, <1>5, OpStays DEF TaskInv
<1>8. RunOnce'
  BY <1>5, <1>2 DEF TaskInv, RunOnce, Request, Unused
<1>9. Kept' = Kept
  BY <1>2 DEF Kept
<1>10. Distinct' /\ Listed' /\ Sized' /\ FilesKept' /\ CompleteIsDone'
  BY <1>2, <1>9 DEF TaskInv, Distinct, Listed, Sized, FilesKept, CompleteIsDone
<1>. QED BY <1>4, <1>6, <1>7, <1>8, <1>10 DEF TaskInv

\* The browser does what a call asks for.  A command that runs is that of one call,
\* which no task stands for yet.
LEMMA RendererStep ==
    ASSUME TaskInv, NEW o \in Op, Renderer(o)
    PROVE  TaskInv'
<1>. DEFINE t == op[o].task  kind == op[o].kind
<1>1. /\ op' = [op EXCEPT ![o] = [op[o] EXCEPT !.did = TRUE, !.saw = IF kind = "status" THEN job[t] ELSE "none"]]
      /\ ~op[o].did /\ UNCHANGED <<life, socket, handlerOn, status, order>>
  BY DEF Renderer, table, TaskInv, McpTypeOK
<1>2. \A p \in Op \ {o} : op'[p] = op[p]
  BY <1>1 DEF TaskInv, McpTypeOK
<1>3. /\ op'[o].kind = kind /\ op'[o].task = t /\ op'[o].did
      /\ op'[o].saw = IF kind = "status" THEN job[t] ELSE "none"
  BY <1>1 DEF TaskInv, McpTypeOK
<1>4. kind \in {"run", "cancel", "status", "log"} => t \in Task
  BY DEF TaskInv, OpSound, Asked
<1>5. \/ kind = "run" /\ job' = [job EXCEPT ![t] = "running"]
      \/ kind = "cancel" /\ job' = [job EXCEPT ![t] = IF @ = "running" THEN "killed" ELSE @]
      \/ kind \notin {"run", "cancel"} /\ job' = job
  BY DEF Renderer
<1>6. /\ \A u \in Task : u # t => job'[u] = job[u]
      /\ kind = "run" => status[t] = "none" /\ job[t] = "none" /\ job'[t] = "running"
      /\ kind # "run" => \A u \in Task :
             job'[u] = job[u] \/ (kind = "cancel" /\ u = t /\ job[u] = "running" /\ job'[u] = "killed")
  BY <1>1, <1>4, <1>5 DEF TaskInv, McpTypeOK, OpSound
<1>7. McpTypeOK'
  <2>1. job' \in [Task -> {"none", "running", "done", "killed", "swept"}]
    BY <1>5 DEF TaskInv, McpTypeOK
  <2>2. [op[o] EXCEPT !.did = TRUE, !.saw = IF kind = "status" THEN job[t] ELSE "none"]
           \in [kind : {"none", "tool", "run", "status", "log", "cancel"},
               task : Task \cup {"none"}, socket : 0 .. MaxSockets, did : BOOLEAN,
               saw : {"none", "running", "done", "killed", "swept"}]
    <3>1. op[o] \in [kind : {"none", "tool", "run", "status", "log", "cancel"},
               task : Task \cup {"none"}, socket : 0 .. MaxSockets, did : BOOLEAN,
               saw : {"none", "running", "done", "killed", "swept"}]
      BY DEF TaskInv, McpTypeOK
    <3>2. (IF kind = "status" THEN job[t] ELSE "none") \in {"none", "running", "done", "killed", "swept"}
      BY <1>4 DEF TaskInv, McpTypeOK
    <3>. QED BY <3>1, <3>2
  <2>. QED BY <1>1, <2>1, <2>2 DEF TaskInv, McpTypeOK
<1>8. OpSound(o)'
  BY <1>1, <1>3, <1>4, <1>6 DEF TaskInv, OpSound, Asked
<1>9. ASSUME NEW p \in Op \ {o} PROVE OpSound(p)'
  <2>1. OpSound(p) /\ op'[p] = op[p]
    BY <1>2 DEF TaskInv
  <2>2. CASE op[p].kind = "run"
    <3>1. op[p].task \in Task /\ status[op[p].task] = "none"
      BY <2>1, <2>2 DEF OpSound
    <3>2. op[p].task # t \/ kind \notin {"run", "cancel"}
      BY <2>2, <3>1 DEF TaskInv, OpSound, RunOnce, Asked
    <3>3. job'[op[p].task] = job[op[p].task]
      BY <1>5, <1>6, <3>1, <3>2
    <3>. QED BY <1>1, <2>1, <2>2, <3>3, OpStays DEF Asked
  <2>3. CASE op[p].kind \in Asked
    <3>1. op[p].task \in Task /\ status[op[p].task] # "none"
      BY <2>1, <2>3 DEF OpSound
    <3>2. job[op[p].task] \in {"done", "swept"} => job'[op[p].task] \in {"done", "swept"}
      BY <1>6, <3>1
    <3>. QED BY <1>1, <2>1, <2>3, <3>2, OpStays DEF Asked
  <2>4. CASE op[p].kind # "run" /\ op[p].kind \notin Asked
    BY <2>1, <2>4, OpStays
  <2>. QED BY <2>2, <2>3, <2>4
<1>10. RunOnce'
  BY <1>2, <1>3 DEF TaskInv, RunOnce
<1>11. Kept' = Kept
  BY <1>1 DEF Kept
<1>12. FilesKept' /\ CompleteIsDone'
  BY <1>1, <1>6, <1>11 DEF TaskInv, FilesKept, CompleteIsDone, Kept, Terminal
<1>. QED BY <1>1, <1>7, <1>8, <1>9, <1>10, <1>11, <1>12 DEF TaskInv, Distinct, Listed, Sized

LEMMA JobEndsStep ==
    ASSUME TaskInv, NEW t \in Task, JobEnds(t)
    PROVE  TaskInv'
<1>1. /\ UNCHANGED <<life, socket, handlerOn, op, status, order>> /\ job[t] = "running" /\ t \in Kept
      /\ job' = [job EXCEPT ![t] = "done"]
  BY DEF JobEnds, table
<1>2. job'[t] = "done" /\ \A u \in Task : u # t => job'[u] = job[u]
  BY <1>1 DEF TaskInv, McpTypeOK
<1>3. McpTypeOK'
  BY <1>1 DEF TaskInv, McpTypeOK
<1>4. ASSUME NEW o \in Op PROVE OpSound(o)'
  BY <1>1, <1>2, OpStays DEF TaskInv, OpSound, Kept, Terminal
<1>5. Kept' = Kept
  BY <1>1 DEF Kept
<1>. QED BY <1>1, <1>2, <1>3, <1>4, <1>5 DEF TaskInv, RunOnce, Distinct, Listed, Sized, FilesKept, CompleteIsDone

LEMMA SweepStep ==
    ASSUME TaskInv, NEW t \in Task, Sweep(t)
    PROVE  TaskInv'
<1>1. /\ UNCHANGED <<life, socket, handlerOn, op>> /\ status[t] \in Terminal
      /\ status' = [status EXCEPT ![t] = "gone"] /\ job' = [job EXCEPT ![t] = "swept"]
      /\ order' = Without(t)
  BY DEF Sweep, Swept
<1>2. /\ status'[t] = "gone" /\ job'[t] = "swept"
      /\ \A u \in Task : u # t => job'[u] = job[u] /\ status'[u] = status[u]
  BY <1>1 DEF TaskInv, McpTypeOK
<1>3. PICK n \in DOMAIN order : order[n] = t
  BY <1>1 DEF TaskInv, Listed, Kept
<1>4. /\ order' \in Seq(Task) /\ Distinct' /\ {order'[i] : i \in DOMAIN order'} = Kept \ {t}
  <2>1. McpTypeOK /\ Distinct /\ {order[i] : i \in DOMAIN order} = Kept
    BY DEF TaskInv, Listed
  <2>2. order' = Without(order[n])
    BY <1>1, <1>3
  <2>3. /\ Without(order[n]) \in Seq(Task)
        /\ \A i, j \in DOMAIN Without(order[n]) : Without(order[n])[i] = Without(order[n])[j] => i = j
        /\ {Without(order[n])[i] : i \in DOMAIN Without(order[n])} = {order[i] : i \in DOMAIN order} \ {order[n]}
    BY <2>1, WithoutLists, Zenon
  <2>. DEFINE rest == Without(order[n])
  <2>4. /\ order' = rest /\ rest \in Seq(Task)
        /\ \A i, j \in DOMAIN rest : rest[i] = rest[j] => i = j
        /\ {rest[i] : i \in DOMAIN rest} = Kept \ {t}
    BY <1>3, <2>1, <2>2, <2>3
  <2>. HIDE DEF rest
  <2>. QED BY <2>4 DEF Distinct
<1>5. McpTypeOK'
  BY <1>1, <1>4 DEF TaskInv, McpTypeOK
<1>6. ASSUME NEW o \in Op PROVE OpSound(o)'
  BY <1>1, <1>2, OpStays DEF TaskInv, OpSound, Terminal
<1>7. Kept' = Kept \ {t}
  BY <1>2 DEF Kept, Terminal
<1>8. Sized'
  <2>1. IsFiniteSet(Kept) /\ Kept' \subseteq Kept
    BY <1>7, McpAssumption, FS_Subset DEF Kept
  <2>2. Cardinality(Kept') <= Cardinality(Kept) /\ Cardinality(Kept) \in Nat /\ Cardinality(Kept') \in Nat
    BY <2>1, FS_Subset, FS_CardinalityType
  <2>. QED BY <2>2, McpAssumption DEF TaskInv, Sized
<1>. QED BY <1>1, <1>2, <1>4, <1>5, <1>6, <1>7, <1>8 DEF TaskInv, RunOnce, Listed, FilesKept, CompleteIsDone

\* A call ends, or a refresh that saw its command done goes on to read what it wrote.
LEMMA CallEnds ==
    ASSUME TaskInv, NEW o \in Op, NEW next,
           op' = [op EXCEPT ![o] = next],
           next = Free \/ (next = Request("log", op[o].task) /\ op[o].kind = "status" /\ op[o].saw = "done"),
           UNCHANGED <<life, socket, handlerOn, order, job>>,
           \/ status' = status
           \/ op[o].kind \in Asked /\ status' = Entered(op[o].task, "failed")
           \/ op[o].kind \in Asked /\ status' = Entered(op[o].task, "cancelled")
           \/ op[o].kind = "log" /\ status' = Entered(op[o].task, "completed")
           \/ op[o].kind = "cancel" /\ status' = Marked(op[o].task)
    PROVE  TaskInv'
<1>. DEFINE t == op[o].task
<1>1. op[o].kind \in Asked \/ status' = status
  BY DEF Asked
<1>2. op[o].kind \in Asked => t \in Task /\ status[t] \notin {"none", "lost"}
  BY DEF TaskInv, OpSound
<1>3. status' # status => /\ status' \in [Task -> Terminal \cup {"none", "working", "gone", "lost"}]
                          /\ \A u \in Task : u # t => status'[u] = status[u]
                          /\ t \in Task /\ t \in Kept /\ status'[t] \in Terminal
                          /\ status'[t] = "completed" /\ status[t] # "completed"
                               => op[o].kind = "log" /\ status[t] = "working"
  <2>. SUFFICES ASSUME status' # status
                PROVE  /\ status' \in [Task -> Terminal \cup {"none", "working", "gone", "lost"}]
                       /\ \A u \in Task : u # t => status'[u] = status[u]
                       /\ t \in Task /\ t \in Kept /\ status'[t] \in Terminal
                       /\ status'[t] = "completed" /\ status[t] # "completed"
                             => op[o].kind = "log" /\ status[t] = "working"
    OBVIOUS
  <2>1. t \in Task /\ status[t] \notin {"none", "lost"}
    BY <1>1, <1>2
  <2>2. status \in [Task -> Terminal \cup {"none", "working", "gone", "lost"}]
    BY DEF TaskInv, McpTypeOK
  <2>3. PICK s \in {"failed", "cancelled", "completed"} :
           \/ status' = [status EXCEPT ![t] = IF @ = "working" THEN s ELSE @] /\ (s = "completed" => op[o].kind = "log")
           \/ status' = [status EXCEPT ![t] = IF @ = "gone" THEN @ ELSE s] /\ s = "cancelled"
    BY DEF Entered, Marked
  <2>4. \A u \in Task : u # t => status'[u] = status[u]
    BY <2>1, <2>2, <2>3
  <2>5. status[t] # "gone"
    BY <2>1, <2>2, <2>3
  <2>6. t \in Kept
    BY <2>1, <2>2, <2>5 DEF Kept
  <2>7. status'[t] = s /\ (s = "completed" => op[o].kind = "log" /\ status[t] = "working")
    BY <2>1, <2>2, <2>3, <2>5
  <2>8. status' \in [Task -> Terminal \cup {"none", "working", "gone", "lost"}]
    BY <2>1, <2>2, <2>3 DEF Terminal
  <2>. QED BY <2>1, <2>4, <2>6, <2>7, <2>8 DEF Terminal
<1>4. Kept' = Kept
  BY <1>3 DEF Kept
<1>5. /\ op'[o] = next /\ \A p \in Op \ {o} : op'[p] = op[p]
      /\ next \in [kind : {"none", "tool", "run", "status", "log", "cancel"},
                      task : Task \cup {"none"}, socket : 0 .. MaxSockets, did : BOOLEAN,
                      saw : {"none", "running", "done", "killed", "swept"}]
  <2>1. /\ socket \in 0 .. MaxSockets /\ 0 \in 0 .. MaxSockets /\ t \in Task \cup {"none"}
    BY McpAssumption DEF TaskInv, McpTypeOK
  <2>2. /\ op'[o] = next /\ \A p \in Op \ {o} : op'[p] = op[p]
    BY DEF TaskInv, McpTypeOK
  <2>3. Free \in [kind : {"none", "tool", "run", "status", "log", "cancel"},
                      task : Task \cup {"none"}, socket : 0 .. MaxSockets, did : BOOLEAN,
                      saw : {"none", "running", "done", "killed", "swept"}]
    BY <2>1 DEF Free
  <2>4. Request("log", t) \in [kind : {"none", "tool", "run", "status", "log", "cancel"},
                      task : Task \cup {"none"}, socket : 0 .. MaxSockets, did : BOOLEAN,
                      saw : {"none", "running", "done", "killed", "swept"}]
    BY <2>1 DEF Request
  <2>. QED BY <2>2, <2>3, <2>4
<1>6. McpTypeOK'
  BY <1>3, <1>5 DEF TaskInv, McpTypeOK
<1>7. \A u \in Task : /\ status[u] \notin {"none", "lost"} => status'[u] \notin {"none", "lost"}
                      /\ status[u] = "none" => status'[u] = "none"
  BY <1>3 DEF Terminal, Kept
<1>8. OpSound(o)'
  <2>1. CASE next = Free
    BY <2>1, <1>5 DEF OpSound, Free, Asked
  <2>2. CASE next # Free
    BY <2>2, <1>5, <1>7 DEF OpSound, Request, Asked, TaskInv
  <2>. QED BY <2>1, <2>2
<1>9. ASSUME NEW p \in Op \ {o} PROVE OpSound(p)'
  BY <1>5, <1>7, OpStays DEF TaskInv, OpSound
<1>10. RunOnce'
  BY <1>5 DEF TaskInv, RunOnce, Free, Request
<1>11. CompleteIsDone'
  <2>1. ASSUME NEW u \in Task, status'[u] = "completed", status[u] # "completed" PROVE job[u] = "done"
    BY <1>3, <2>1 DEF TaskInv, OpSound, FilesKept
  <2>. QED BY <2>1 DEF TaskInv, CompleteIsDone
<1>. QED BY <1>4, <1>6, <1>8, <1>9, <1>10, <1>11 DEF TaskInv, Distinct, Listed, Sized, FilesKept

\* A command has started: its task enters the table, in the place of another if need be.
LEMMA CreateStep ==
    ASSUME TaskInv, NEW o \in Op, op[o].kind = "run", op[o].did, Create(op[o].task),
           op' = [op EXCEPT ![o] = Free], UNCHANGED <<life, socket, handlerOn>>
    PROVE  TaskInv'
<1>. DEFINE t == op[o].task
<1>1. t \in Task /\ status[t] = "none" /\ job[t] = "running" /\ t \notin Kept
  BY DEF TaskInv, OpSound, Kept, Terminal
<1>2. /\ op'[o] = Free /\ \A p \in Op \ {o} : op'[p] = op[p]
  BY DEF TaskInv, McpTypeOK
<1>3. op' \in [Op -> [kind : {"none", "tool", "run", "status", "log", "cancel"},
                      task : Task \cup {"none"}, socket : 0 .. MaxSockets, did : BOOLEAN,
                      saw : {"none", "running", "done", "killed", "swept"}]]
  BY McpAssumption DEF TaskInv, McpTypeOK, Free
<1>4. RunOnce'
  BY <1>2 DEF TaskInv, RunOnce, Free
<1>5. ASSUME NEW p \in Op, p # o, op[p].kind = "run" PROVE op[p].task # t
  BY <1>5 DEF TaskInv, RunOnce
<1>6. IsFiniteSet(Kept) /\ Cardinality(Kept) \in Nat
  BY McpAssumption, FS_Subset, FS_CardinalityType DEF Kept
<1>7. OpSound(o)'
  BY <1>2 DEF OpSound, Free, Asked
<1>8. CASE Cardinality(Kept) < MaxTasks
  <2>1. /\ status' = [status EXCEPT ![t] = "working"] /\ order' = Append(order, t) /\ job' = job
    BY <1>8 DEF Create
  <2>2. status'[t] = "working" /\ \A u \in Task : u # t => status'[u] = status[u]
    BY <1>1, <2>1 DEF TaskInv, McpTypeOK
  <2>3. /\ order' \in Seq(Task) /\ DOMAIN order' = 1 .. Len(order) + 1 /\ DOMAIN order = 1 .. Len(order)
        /\ \A i \in 1 .. Len(order) : order'[i] = order[i]
        /\ order'[Len(order) + 1] = t /\ Len(order) \in Nat
    BY <1>1, <2>1, AppendProperties DEF TaskInv, McpTypeOK
  <2>4. \A i \in 1 .. Len(order) : order[i] # t
    BY <1>1, <2>3 DEF TaskInv, Listed
  <2>5. Distinct'
    BY <2>3, <2>4 DEF TaskInv, Distinct
  <2>6. Kept' = Kept \cup {t}
    BY <1>1, <2>2 DEF Kept, Terminal
  <2>7. {order'[i] : i \in DOMAIN order'} = {order[i] : i \in DOMAIN order} \cup {t}
    BY <2>3
  <2>8. Sized'
    <3>1. Cardinality(Kept') = Cardinality(Kept) + 1
      BY <1>1, <1>6, <2>6, FS_AddElement
    <3>. QED BY <1>6, <1>8, <3>1, McpAssumption DEF Sized
  <2>9. McpTypeOK'
    BY <1>3, <2>1, <2>3 DEF TaskInv, McpTypeOK
  <2>10. ASSUME NEW p \in Op \ {o} PROVE OpSound(p)'
    BY <1>1, <1>2, <1>5, <2>1, <2>2, OpStays DEF TaskInv, OpSound
  <2>11. FilesKept' /\ CompleteIsDone'
    BY <1>1, <2>1, <2>2, <2>6 DEF TaskInv, FilesKept, CompleteIsDone
  <2>. QED BY <1>4, <1>7, <2>5, <2>6, <2>7, <2>8, <2>9, <2>10, <2>11 DEF TaskInv, Listed
<1>9. CASE ~(Cardinality(Kept) < MaxTasks)
  <2>. DEFINE v == Victim
  <2>1. /\ status' = [status EXCEPT ![t] = "working", ![v] = "gone"] /\ order' = Append(Without(v), t)
        /\ job' = [job EXCEPT ![v] = "swept"]
    BY <1>9 DEF Create, Swept
  <2>2. order # <<>>
    <3>1. Kept # {}
      BY <1>9, McpAssumption, FS_EmptySet
    <3>2. DOMAIN order # {}
      BY <3>1 DEF TaskInv, Listed
    <3>. QED BY <3>2
  <2>3. PICK n \in DOMAIN order : v = order[n]
    BY <2>2, VictimListed DEF TaskInv
  <2>4. v \in Kept /\ v \in Task /\ v # t
    BY <1>1, <2>3 DEF TaskInv, Listed, Kept
  <2>. HIDE DEF v
  <2>5. /\ status'[t] = "working" /\ status'[v] = "gone" /\ job'[v] = "swept" /\ job'[t] = job[t]
        /\ \A u \in Task : u \notin {t, v} => status'[u] = status[u] /\ job'[u] = job[u]
    BY <1>1, <2>1, <2>4 DEF TaskInv, McpTypeOK
  <2>. DEFINE rest == Without(v)
  <2>6. /\ rest \in Seq(Task) /\ \A i, j \in DOMAIN rest : rest[i] = rest[j] => i = j
        /\ {rest[i] : i \in DOMAIN rest} = Kept \ {v}
    <3>1. McpTypeOK /\ Distinct /\ {order[i] : i \in DOMAIN order} = Kept
      BY DEF TaskInv, Listed
    <3>2. /\ Without(order[n]) \in Seq(Task)
          /\ \A i, j \in DOMAIN Without(order[n]) : Without(order[n])[i] = Without(order[n])[j] => i = j
          /\ {Without(order[n])[i] : i \in DOMAIN Without(order[n])} = {order[i] : i \in DOMAIN order} \ {order[n]}
      BY <3>1, WithoutLists, Zenon
    <3>3. rest = Without(order[n])
      BY <2>3
    <3>. QED BY <2>3, <3>1, <3>2, <3>3
  <2>. HIDE DEF rest
  <2>7. /\ order' \in Seq(Task) /\ DOMAIN order' = 1 .. Len(rest) + 1 /\ DOMAIN rest = 1 .. Len(rest)
        /\ \A i \in 1 .. Len(rest) : order'[i] = rest[i]
        /\ order'[Len(rest) + 1] = t /\ Len(rest) \in Nat
    <3>1. order' = Append(rest, t)
      BY <2>1 DEF rest
    <3>. QED BY <1>1, <2>6, <3>1, AppendProperties
  <2>8. \A i \in 1 .. Len(rest) : rest[i] # t
    BY <1>1, <2>6, <2>7
  <2>9. Distinct'
    BY <2>6, <2>7, <2>8 DEF Distinct
  <2>10. Kept' = (Kept \ {v}) \cup {t}
    BY <1>1, <2>4, <2>5 DEF Kept, Terminal
  <2>11. {order'[i] : i \in DOMAIN order'} = {rest[i] : i \in DOMAIN rest} \cup {t}
    BY <2>7
  <2>12. Sized'
    <3>1. Cardinality(Kept \ {v}) = Cardinality(Kept) - 1 /\ IsFiniteSet(Kept \ {v})
      BY <1>6, <2>4, FS_RemoveElement
    <3>2. Cardinality(Kept') = Cardinality(Kept \ {v}) + 1
      BY <1>1, <2>10, <3>1, FS_AddElement
    <3>. QED BY <1>6, <3>1, <3>2 DEF TaskInv, Sized
  <2>13. McpTypeOK'
    BY <1>3, <2>1, <2>7 DEF TaskInv, McpTypeOK
  <2>14. ASSUME NEW p \in Op \ {o} PROVE OpSound(p)'
    BY <1>1, <1>2, <1>5, <2>4, <2>5, OpStays DEF TaskInv, OpSound, Kept, Terminal
  <2>15. FilesKept' /\ CompleteIsDone'
    <3>1. ASSUME NEW u \in Kept' PROVE job'[u] # "swept"
      <4>1. u \in Task /\ (u = t \/ (u \in Kept /\ u # v))
        BY <1>1, <2>10, <3>1 DEF Kept
      <4>. QED BY <1>1, <2>5, <4>1 DEF TaskInv, FilesKept
    <3>2. ASSUME NEW u \in Task, status'[u] = "completed" PROVE job'[u] = "done"
      <4>1. u \notin {t, v}
        BY <2>5, <3>2
      <4>. QED BY <2>5, <3>2, <4>1 DEF TaskInv, CompleteIsDone
    <3>. QED BY <3>1, <3>2 DEF FilesKept, CompleteIsDone
  <2>. QED BY <1>4, <1>7, <2>6, <2>9, <2>10, <2>11, <2>12, <2>13, <2>14, <2>15 DEF TaskInv, Listed
<1>. QED BY <1>8, <1>9

LEMMA AnsweredStep ==
    ASSUME TaskInv, NEW o \in Op, Answered(o)
    PROVE  TaskInv'
<1>. DEFINE t == op[o].task  kind == op[o].kind
<1>1. CASE kind = "run"
  BY <1>1, CreateStep DEF Answered
<1>2. CASE kind # "run"
  <2>. DEFINE next == IF kind = "status" /\ Finished(op[o].saw) THEN Request("log", t) ELSE Free
  <2>1. op' = [op EXCEPT ![o] = next] /\ UNCHANGED <<life, socket, handlerOn, order, job>>
    BY <1>2 DEF Answered
  <2>2. next = Free \/ (next = Request("log", t) /\ kind = "status" /\ op[o].saw = "done")
    BY DEF Finished
  <2>3. \/ status' = status
        \/ kind \in Asked /\ status' = Entered(t, "failed")
        \/ kind \in Asked /\ status' = Entered(t, "cancelled")
        \/ kind = "log" /\ status' = Entered(t, "completed")
        \/ kind = "cancel" /\ status' = Marked(t)
    BY <1>2 DEF Answered, Asked
  <2>. HIDE DEF next
  <2>. QED BY <2>1, <2>2, <2>3, CallEnds
<1>. QED BY <1>1, <1>2

LEMMA FailedStep ==
    ASSUME TaskInv, NEW o \in Op, Failed(o)
    PROVE  TaskInv'
<1>1. \/ status' = status
      \/ op[o].kind \in Asked /\ status' = Entered(op[o].task, "failed")
      \/ op[o].kind = "cancel" /\ status' = Marked(op[o].task)
  BY DEF Failed, Asked
<1>2. op' = [op EXCEPT ![o] = Free] /\ UNCHANGED <<life, socket, handlerOn, order, job>>
  BY DEF Failed
<1>. QED BY <1>1, <1>2, CallEnds

LEMMA McpStep == TaskInv /\ [McpNext]_mcpVars => TaskInv'
<1>. SUFFICES ASSUME TaskInv, [McpNext]_mcpVars PROVE TaskInv'
  OBVIOUS
<1>1. CASE Start \/ Listening \/ Stopped \/ Reconnect
  BY <1>1, QuietStep, McpAssumption DEF Start, Listening, Stopped, Reconnect, table, TaskInv, McpTypeOK
<1>2. CASE StartFails \/ StopWidget \/ Cleanup
  BY <1>2, StopStep DEF StartFails, StopWidget, Cleanup
<1>3. CASE Tool \/ Run
  BY <1>3, CallStep DEF Tool, Run
<1>4. ASSUME NEW o \in Op, Renderer(o) \/ Answered(o) \/ Failed(o) PROVE TaskInv'
  BY <1>4, RendererStep, AnsweredStep, FailedStep
<1>5. ASSUME NEW t \in Task, Get(t) \/ Cancel(t) PROVE TaskInv'
  BY <1>5, CallStep DEF Get, Cancel, Cancellable
<1>6. ASSUME NEW t \in Task, JobEnds(t) \/ Sweep(t) PROVE TaskInv'
  BY <1>6, JobEndsStep, SweepStep
<1>7. CASE UNCHANGED mcpVars
  BY <1>7, QuietStep DEF mcpVars, TaskInv, McpTypeOK
<1>. QED BY <1>1, <1>2, <1>3, <1>4, <1>5, <1>6, <1>7 DEF McpNext

LEMMA TaskInvHolds == McpSpec => []TaskInv
<1>. QED BY McpInitially, McpStep, PTL DEF McpSpec

\* For any number of handlers, commands and tasks: the table is what the states of
\* the tasks say, keeps to its size, and a task that is reported complete stands for
\* a command that has ended.
THEOREM McpInvHolds == McpSpec => []McpInv
<1>1. TaskInv => McpInv
  <2>. SUFFICES ASSUME TaskInv PROVE Len(order) = Cardinality(Kept)
    BY DEF TaskInv, McpInv, TableSound, Listed, Sized
  <2>1. order \in [1 .. Len(order) -> Kept] /\ Len(order) \in Nat
    BY DEF TaskInv, McpTypeOK, Listed
  <2>2. ExistsBijection(1 .. Len(order), Kept)
    <3>1. \A i, j \in 1 .. Len(order) : order[i] = order[j] => i = j
      BY <2>1 DEF TaskInv, Distinct
    <3>2. \A t \in Kept : \E i \in 1 .. Len(order) : order[i] = t
      BY <2>1 DEF TaskInv, Listed
    <3>3. order \in Bijection(1 .. Len(order), Kept)
      BY <2>1, <3>1, <3>2 DEF Bijection, Injection, Surjection, IsInjective
    <3>. QED BY <3>3 DEF ExistsBijection
  <2>. QED BY <2>1, <2>2, FS_CountingElements, FS_NatBijection, FS_CardinalityType
<1>. QED BY <1>1, TaskInvHolds, PTL

\* For any number of handlers, commands and tasks: what a task ended with stays, or is
\* overtaken by a cancel that began while it was working.
THEOREM OutcomeStaysHolds == McpSpec => OutcomeStays
<1>. DEFINE Stays == \A t \in Task : status[t] \in Terminal /\ status'[t] # status[t] =>
          \/ status'[t] \in {"gone", "lost"}
          \/ status'[t] = "cancelled" /\ \E o \in Op : op[o].kind = "cancel" /\ op[o].task = t
<1>1. TaskInv /\ [McpNext]_mcpVars => [Stays]_mcpVars
  <2>. SUFFICES ASSUME TaskInv, McpNext, NEW t \in Task, status[t] \in Terminal, status'[t] # status[t]
                PROVE  \/ status'[t] \in {"gone", "lost"}
                       \/ status'[t] = "cancelled" /\ \E o \in Op : op[o].kind = "cancel" /\ op[o].task = t
    BY DEF mcpVars
  <2>1. status \in [Task -> Terminal \cup {"none", "working", "gone", "lost"}]
    BY DEF TaskInv, McpTypeOK
  <2>2. CASE StartFails \/ StopWidget \/ Cleanup
    BY <2>1, <2>2 DEF StartFails, StopWidget, Cleanup, Stop, Kept
  <2>3. CASE UNCHANGED status
    BY <2>3
  <2>4. ASSUME NEW o \in Op, Answered(o), op[o].kind = "run"
        PROVE  status'[t] = "gone"
    <3>1. op[o].task # t
      BY <2>4 DEF TaskInv, OpSound, Terminal
    <3>. QED BY <2>1, <2>4, <3>1 DEF Answered, Create
  <2>5. ASSUME NEW o \in Op, (Answered(o) /\ op[o].kind # "run") \/ Failed(o)
        PROVE  status'[t] = "cancelled" /\ op[o].kind = "cancel" /\ op[o].task = t
    BY <2>1, <2>5 DEF Answered, Failed, Entered, Marked, Terminal
  <2>6. ASSUME NEW u \in Task, Sweep(u) PROVE status'[t] = "gone"
    BY <2>1, <2>6 DEF Sweep
  <2>7. CASE Start \/ Listening \/ Stopped \/ Reconnect \/ Tool \/ Run
    BY <2>7 DEF Start, Listening, Stopped, Reconnect, Tool, Run, Call, table
  <2>8. ASSUME NEW o \in Op, Renderer(o) PROVE UNCHANGED status
    BY <2>8 DEF Renderer, table
  <2>9. ASSUME NEW u \in Task, Get(u) \/ Cancel(u) \/ JobEnds(u) PROVE UNCHANGED status
    BY <2>9 DEF Get, Cancel, JobEnds, Call, table
  <2>. QED BY <2>2, <2>3, <2>4, <2>5, <2>6, <2>7, <2>8, <2>9 DEF McpNext
<1>. QED BY <1>1, TaskInvHolds, PTL DEF McpSpec, OutcomeStays
=============================================================================
