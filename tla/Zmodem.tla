------------------------------- MODULE Zmodem -------------------------------
(***************************************************************************)
(* A ZMODEM session of a terminal (server/zmodem.js): the detection of a   *)
(* header in ordinary output, the choice of a directory or of files, the   *)
(* transfer with the library's receiver or sender as an environment that   *)
(* reports events, the watchdog, every way to end, and the window in which *)
(* the output of a dying peer is swallowed.                                *)
(*                                                                         *)
(* What the terminal emits while no session is active is a sequence of     *)
(* classes of bytes, followed to the browser by their positions.           *)
(***************************************************************************)
EXTENDS Naturals, Sequences

CONSTANTS
    Wires,      \* the outputs a behaviour may begin with
    MaxChunks,  \* bound on the chunks that reach active sessions
    MaxCarry,   \* MAX_BUFFERED_BYTES, in chunks
    MaxFiles,   \* bound on the files of a behaviour
    Window      \* NOISE_SUPPRESS_MS, in units of its last 50 ms

ASSUME ZmodemAssumption ==
    /\ MaxChunks \in Nat /\ MaxCarry \in Nat \ {0} /\ MaxFiles \in Nat /\ Window \in Nat \ {0}
    /\ \A w \in Wires : w \in Seq({"t", "*", "Z", "B", "0", "1", "5"})

VARIABLES
    wire,       \* what the terminal emits outside sessions
    pos,        \* the number of its bytes that have arrived
    tail,       \* length of idleScanTail
    shown,      \* the positions sent to the browser, in order
    zmodemState, \* this.state, or "none" after destroySession
    watchdog,   \* the watchdog that is armed
    carry,      \* chunks in the carry buffer
    window,     \* what is left of the noise window
    stream,     \* downloadStream, by the number of its file
    ending,     \* streams that were ended and are being flushed
    open,       \* streams whose file is open
    fd,         \* uploadFd is open
    files,      \* pendingFiles from currentFileIndex on
    made,       \* files begun so far
    chunks,     \* chunks that reached active sessions so far
    late        \* an ended stream has failed

wireVars == <<wire, pos, tail, shown>>
fileVars == <<stream, ending, open, fd, files, made>>
zmodemVars == <<wireVars, zmodemState, watchdog, carry, window, fileVars, chunks, late>>

ZmodemActive == {"receiving", "sending", "waiting_save_path", "waiting_files"}

ZmodemTypeOK ==
    /\ wire \in Wires /\ pos \in 0 .. Len(wire) /\ tail \in 0 .. 4
    /\ shown \in Seq(1 .. Len(wire))
    /\ zmodemState \in ZmodemActive \cup {"idle", "none"}
    /\ watchdog \in {"off", "USER_ACTION", "TRANSFER", "HANDSHAKE"}
    /\ carry \in 0 .. MaxCarry /\ window \in 0 .. Window
    /\ stream \in 0 .. MaxFiles /\ open \subseteq 1 .. MaxFiles /\ ending \subseteq open
    /\ fd \in BOOLEAN /\ files \in 0 .. MaxFiles /\ made \in 0 .. MaxFiles
    /\ chunks \in 0 .. MaxChunks /\ late \in BOOLEAN

ZmodemInit ==
    /\ wire \in Wires /\ pos = 0 /\ tail = 0 /\ shown = <<>>
    /\ zmodemState = "idle" /\ watchdog = "off" /\ carry = 0 /\ window = 0
    /\ stream = 0 /\ ending = {} /\ open = {} /\ fd = FALSE /\ files = 0 /\ made = 0
    /\ chunks = 0 /\ late = FALSE

-----------------------------------------------------------------------------
(* Ending.                                                                 *)

\* (Mutant) endSession leaves the upload descriptor to the next file.
ReleasedFd == fd

\* uploadFd after endSession.
EndedFd == FALSE

\* endSession: streams and descriptors are released, the state is reset.  Unless
\* the protocol closed properly the noise window begins.  The stream that is
\* destroyed is gone; the ones that were ended before go on flushing.
EndWith(clean, lost) ==
    /\ zmodemState' = "idle" /\ watchdog' = "off"
    /\ carry' = 0 /\ tail' = 0 /\ files' = 0
    /\ stream' = 0 /\ open' = open \ {lost} /\ fd' = EndedFd
    /\ window' = IF clean THEN window ELSE Window

EndZmodem(clean) == EndWith(clean, stream) /\ UNCHANGED ending

\* abort, which differs in the cancel sequence only.
Abort == EndZmodem(FALSE)

-----------------------------------------------------------------------------
(* Idle: detection.                                                        *)

Header == <<"*", "*", "Z", "B">>

\* scanBuffer between two positions of the wire: where a header of a known kind
\* lies completely.
Hits(from, to) ==
    {i \in from .. to : /\ i + 5 <= to
                        /\ \A j \in 1 .. 4 : wire[i + j - 1] = Header[j]
                        /\ wire[i + 4] = "0" /\ wire[i + 5] \in {"0", "1", "5"}}

First(S) == CHOOSE i \in S : \A j \in S : i <= j

\* partialHeaderLength tries up to five bytes, but compares them with a header of
\* four, which five never equal.
Partial(from, to) ==
    LET fits == {k \in 1 .. 5 : /\ k <= to - from + 1 /\ k <= Len(Header)
                                /\ \A j \in 1 .. k : wire[to - k + j] = Header[j]}
    IN  CHOOSE k \in fits \cup {0} : \A l \in fits : l <= k

Positions(from, to) == [i \in 1 .. (IF to < from THEN 0 ELSE to - from + 1) |-> from + i - 1]

\* (Mutant) The displayed tail of the previous chunk is displayed again.
FromTail == pos - tail + 1

\* The first byte that has not been displayed.
FromNew == pos + 1

\* The chunk from the header onwards is carried until the user has chosen.
Carried ==
    /\ watchdog' = "USER_ACTION" /\ carry' = 1 /\ tail' = 0
    /\ UNCHANGED <<window, fileVars, chunks, late>>

\* The remote sends files, and a directory is asked for.
StartReceiver == zmodemState' = "waiting_save_path" /\ Carried

\* The remote receives files, which the user has to choose.
StartSender == zmodemState' = "waiting_files" /\ Carried

\* startSessionFromHit
Start(kind) == (kind = "0" /\ StartReceiver) \/ (kind = "1" /\ StartSender)

\* A chunk of n bytes outside the noise window.
IdleChunk(n) ==
    LET hits == Hits(pos - tail + 1, pos + n) IN
    /\ zmodemState = "idle" /\ window = 0 /\ pos + n <= Len(wire)
    /\ pos' = pos + n
    /\ UNCHANGED wire
    /\ \/ \* no header: the output websocket shows the chunk itself
          /\ hits = {}
          /\ shown' = shown \o Positions(pos + 1, pos + n)
          /\ tail' = Partial(pos - tail + 1, pos + n)
          /\ UNCHANGED <<zmodemState, watchdog, carry, window, fileVars, chunks, late>>
       \/ \* a stray ZSKIP: the chunk is dropped
          /\ hits # {} /\ wire[First(hits) + 5] = "5"
          /\ tail' = 0
          /\ UNCHANGED <<shown, zmodemState, watchdog, carry, window, fileVars, chunks, late>>
       \/ \* what precedes the header is shown, and a session begins
          /\ hits # {} /\ wire[First(hits) + 5] # "5"
          /\ shown' = shown \o Positions(FromNew, First(hits) - 1)
          /\ Start(wire[First(hits) + 5])

\* A chunk that comes at the very end of the window makes it begin again, however
\* often it has done so.
Swallowed == window' = IF window = 1 THEN Window ELSE window

\* A chunk within the window: it is swallowed, or it ends in a prompt, which is shown
\* and closes the window.
NoisyChunk(n) ==
    /\ zmodemState = "idle" /\ window > 0 /\ pos + n <= Len(wire)
    /\ pos' = pos + n
    /\ \/ Swallowed /\ UNCHANGED shown
       \/ window' = 0 /\ shown' = shown \o Positions(pos + 1, pos + n)
    /\ UNCHANGED <<wire, tail, zmodemState, watchdog, carry, fileVars, chunks, late>>

\* A chunk within the window of which the wire has no record: what the dying peer
\* has still to say, or any program that goes on writing.  Nothing bounds it.
Debris ==
    /\ zmodemState = "idle" /\ window > 0
    /\ Swallowed
    /\ UNCHANGED <<wireVars, zmodemState, watchdog, carry, fileVars, chunks, late>>

Tick ==
    /\ window > 0
    /\ window' = window - 1
    /\ UNCHANGED <<wireVars, zmodemState, watchdog, carry, fileVars, chunks, late>>

-----------------------------------------------------------------------------
(* Waiting for the user.                                                   *)

\* A chunk of an active session, of which the wire has no record.
Chunk == chunks < MaxChunks /\ chunks' = chunks + 1 /\ UNCHANGED <<wire, pos, shown, late>>

\* bufferPending, with its limit.
BufferPending ==
    /\ zmodemState \in {"waiting_save_path", "waiting_files"}
    /\ Chunk
    /\ IF carry = MaxCarry
       THEN Abort /\ UNCHANGED made
       ELSE carry' = carry + 1 /\ UNCHANGED <<tail, zmodemState, watchdog, window, fileVars>>

\* setSavePath: what was carried is replayed; the events it yields are steps of
\* their own (Receive).
SetSavePath ==
    /\ zmodemState = "waiting_save_path"
    /\ zmodemState' = "receiving" /\ watchdog' = "TRANSFER" /\ carry' = 0
    /\ UNCHANGED <<wireVars, window, fileVars, chunks, late>>

\* sendFile: the next file is offered, unless the library refuses it.
\* finishSender: no file is left, and the closing handshake begins.
SendNext(n) ==
    \/ n > 0 /\ fd' = FALSE /\ files' = n /\ watchdog' = "TRANSFER"
       /\ UNCHANGED <<tail, zmodemState, carry, window, stream, open>>
    \/ n > 0 /\ Abort
    \/ n = 0 /\ files' = 0 /\ watchdog' = "HANDSHAKE"
       /\ UNCHANGED <<tail, zmodemState, carry, window, stream, open, fd>>

\* setSendFiles with n files: the replay of the carried ZRINIT may already end the
\* session (an error, a refusal); then there is no sender to offer a file to.
SetSendFiles(n) ==
    /\ zmodemState = "waiting_files" /\ made + n <= MaxFiles
    /\ \/ /\ zmodemState' = "sending" /\ carry' = 0 /\ made' = made + n /\ files' = n
          /\ watchdog' = IF n = 0 THEN "HANDSHAKE" ELSE "TRANSFER"
          /\ UNCHANGED <<tail, window, stream, open, fd>>
       \/ Abort /\ UNCHANGED made
    /\ UNCHANGED <<wire, pos, shown, ending, chunks, late>>

-----------------------------------------------------------------------------
(* Receiving and sending.                                                  *)

\* handleData arms the watchdog before it looks at the data.
Rearmed == "TRANSFER"

\* A chunk without an event, or with data of the file received.
Data ==
    /\ zmodemState \in {"receiving", "sending"} /\ Chunk
    /\ watchdog' = Rearmed
    /\ UNCHANGED <<tail, zmodemState, carry, window, fileVars>>

\* FileStart: the output file is created.
ReceiveFileStart ==
    /\ zmodemState = "receiving" /\ stream = 0 /\ made < MaxFiles /\ Chunk
    /\ made' = made + 1
    /\ \/ /\ stream' = made + 1 /\ open' = open \cup {made + 1} /\ watchdog' = Rearmed
          /\ UNCHANGED <<tail, zmodemState, carry, window, ending, fd, files>>
       \/ Abort \* it cannot be created; the pump then fails on the missing receiver

\* FileComplete: the stream is ended, and flushes on its own from here.
ReceiveFileComplete ==
    /\ zmodemState = "receiving" /\ stream # 0 /\ Chunk
    /\ stream' = 0 /\ ending' = ending \cup {stream} /\ watchdog' = Rearmed
    /\ UNCHANGED <<tail, zmodemState, carry, window, open, fd, files, made>>

\* sendFileData: the file is opened on the first request and closed after the last
\* read; a read may fail.
SendData ==
    /\ zmodemState = "sending" /\ files > 0 /\ Chunk
    /\ \/ /\ fd' \in BOOLEAN /\ watchdog' = Rearmed
          /\ UNCHANGED <<tail, zmodemState, carry, window, stream, open, files>>
       \/ Abort
    /\ UNCHANGED <<ending, made>>

\* FileComplete of the sender: the next file, or the end of the session.
SendFileComplete ==
    /\ zmodemState = "sending" /\ files > 0 /\ Chunk
    /\ SendNext(files - 1)
    /\ UNCHANGED <<ending, made>>

\* SessionComplete of either side.
SessionComplete ==
    /\ zmodemState = "receiving" \/ (zmodemState = "sending" /\ files = 0)
    /\ Chunk
    /\ EndZmodem(TRUE) /\ UNCHANGED made

\* A run of CAN bytes, split over chunks or not: the peer was killed.
PeerCancels ==
    /\ zmodemState \in {"receiving", "sending"} /\ Chunk
    /\ Abort /\ UNCHANGED made

\* A protocol error, or a ZSKIP for the file being sent.
PeerAborts ==
    /\ zmodemState \in {"receiving", "sending"} /\ Chunk
    /\ Abort /\ UNCHANGED made

-----------------------------------------------------------------------------
(* Timers, the user, the file system, the terminal.                        *)

\* (Mutant) The watchdog ends transfers only, not a session that waits for the user.
WatchesTransfers == zmodemState \in {"receiving", "sending"}

\* The watchdog ends every session that is not idle.
Watches == zmodemState \in ZmodemActive

WatchdogFires ==
    /\ watchdog # "off" /\ Watches
    /\ Abort
    /\ UNCHANGED <<wire, pos, shown, made, chunks, late>>

\* cancel, which the browser may also send when nothing is active.
CancelZmodem ==
    /\ zmodemState \in ZmodemActive \cup {"idle"}
    /\ Abort
    /\ UNCHANGED <<wire, pos, shown, made, chunks, late>>

\* handleUserInput: Ctrl-C on its way to the peer ends the session.
UserInterrupts ==
    /\ zmodemState \in ZmodemActive
    /\ Abort
    /\ UNCHANGED <<wire, pos, shown, made, chunks, late>>

\* An ended stream has written everything.
StreamFinishes(i) ==
    /\ i \in ending
    /\ ending' = ending \ {i} /\ open' = open \ {i}
    /\ UNCHANGED <<wireVars, zmodemState, watchdog, carry, window, stream, fd, files, made, chunks, late>>

\* The error handler of a stream forgets downloadStream and aborts, whichever
\* stream failed and whatever is going on by then.
StreamFails(i) ==
    /\ i = stream \/ i \in ending
    /\ zmodemState # "none"
    /\ EndWith(FALSE, i)
    /\ ending' = ending \ {i}
    /\ late' = (late \/ i # stream)
    /\ UNCHANGED <<wire, pos, shown, made, chunks>>

\* destroySession, when the terminal closes.
DestroyZmodem ==
    /\ zmodemState # "none"
    /\ zmodemState' = "none" /\ watchdog' = "off" /\ carry' = 0 /\ tail' = 0 /\ files' = 0
    /\ stream' = 0 /\ open' = open \ {stream} /\ fd' = EndedFd /\ window' = 0
    /\ UNCHANGED <<wire, pos, shown, ending, made, chunks, late>>

-----------------------------------------------------------------------------
\* What reaches the session: the data of the terminal, the messages and the keys of
\* the user, by way of ZmodemManager; timers and streams.
ZmodemNext ==
    \/ \E n \in 1 .. Len(wire) : IdleChunk(n) \/ NoisyChunk(n)
    \/ Debris \/ Tick \/ BufferPending \/ SetSavePath
    \/ \E n \in 0 .. MaxFiles : SetSendFiles(n)
    \/ Data \/ ReceiveFileStart \/ ReceiveFileComplete
    \/ SendData \/ SendFileComplete \/ SessionComplete \/ PeerCancels \/ PeerAborts
    \/ WatchdogFires \/ CancelZmodem \/ UserInterrupts \/ DestroyZmodem
    \/ \E i \in 1 .. MaxFiles : StreamFinishes(i) \/ StreamFails(i)

\* Timers fire and time passes.
ZmodemSpec == ZmodemInit /\ [][ZmodemNext]_zmodemVars /\ WF_zmodemVars(WatchdogFires) /\ WF_zmodemVars(Tick)

-----------------------------------------------------------------------------
(* Properties.                                                             *)

\* "Every state transition arms a timer": a session is watched while it is active,
\* whatever it is waiting for, and no timer outlives it.
Watched == watchdog # "off" <=> zmodemState \in ZmodemActive

\* endSession releases everything: without an active session no descriptor is open,
\* no stream is written to, and the files still open are being flushed.  A stream
\* that fails after its end takes the reference to another one away.
Released ==
    zmodemState \notin ZmodemActive =>
        /\ ~fd /\ stream = 0 /\ carry = 0 /\ files = 0
        /\ late \/ open = ending

ZmodemInv == ZmodemTypeOK /\ Watched /\ Released

\* Ordinary output reaches the browser in order and never twice, however a header,
\* or what looks like the beginning of one, is split over chunks.
ShownInOrder == \A i, j \in 1 .. Len(shown) : i < j => shown[i] < shown[j]

\* A session does not freeze the terminal: once the peer is silent it ends, whatever
\* it was waiting for, and the output is displayed again, unless the user cancels for
\* ever, or output for ever comes at the very end of a window and renews it.  The
\* window has no cap, although the comments on it say that it has.
DisplayRecovers ==
    \/ []<><<CancelZmodem>>_zmodemVars \/ []<><<Debris>>_zmodemVars
    \/ zmodemState \in ZmodemActive \/ window > 0 ~> zmodemState \notin ZmodemActive /\ window = 0
=============================================================================
