------------------------------- MODULE Trzsz -------------------------------
(***************************************************************************)
(* A trzsz session of a terminal (server/trzsz.js).  Each trigger in the   *)
(* output starts a coroutine (an async function) that does its handshake,  *)
(* waits for the user, copies, and waits for the remote program to say     *)
(* that it is done.  Between two awaits everything else may happen: data,  *)
(* a cancel, the completion timer, the end of the terminal, another        *)
(* trigger.  The coroutines share the fields of one session object; they   *)
(* look at this.state and this.transfer, never at a transfer of their own. *)
(*                                                                         *)
(* TrzszTransfer is a library: an await on it rejects at any time, or      *)
(* never; one that needs data of the remote program (recvConfig, sendFiles,*)
(* recvFiles) resolves only while the session hands that transfer the      *)
(* data.  sendAction only writes: it is part of the trigger.               *)
(***************************************************************************)
EXTENDS Naturals, FiniteSets

CONSTANT MaxRuns   \* the bound on triggers

ASSUME TrzszAssumption == MaxRuns \in Nat \ {0}

Runs == 1 .. MaxRuns   \* the coroutines

VARIABLES
    trzszState, \* this.state
    transfer,   \* the run that created this.transfer, or 0
    pending,    \* the run whose completion message waits in _pendingComplete, or 0
    timer,      \* _completionTimeout has not fired
    waiter,     \* the run that _filesResolve ("send") or _savePathResolve ("receive") wakes
    chosen,     \* pendingFiles or savePath is set
    readers,    \* the run whose readers fileReaders lists, or 0
    cancelling, \* _cancelling
    stopping,   \* cancel awaits stopTransferring: "no", or whether a session was active
    suppress,   \* _cancelSuppressUntil: off, running with its timer, without it
    gone,       \* destroySession has run
    stolen,     \* (history) a send that outlived its session has made another one idle
    run         \* by run: kind, the await it is at, its file, its completion messages

session == <<trzszState, transfer, pending, timer, waiter, chosen, readers>>
trzszVars == <<session, cancelling, stopping, suppress, gone, stolen, run>>

Kinds == {"send", "receive"}
TrzszActive(kind) == IF kind = "send" THEN "sending" ELSE "receiving"

TrzszTypeOK ==
    /\ trzszState \in {"idle", "sending", "receiving"}
    /\ transfer \in Runs \cup {0} /\ pending \in Runs \cup {0} /\ readers \in Runs \cup {0}
    /\ timer \in BOOLEAN /\ cancelling \in BOOLEAN /\ gone \in BOOLEAN /\ stolen \in BOOLEAN
    /\ waiter \in [Kinds -> Runs \cup {0}] /\ chosen \in [Kinds -> BOOLEAN]
    /\ stopping \in {"no", "active", "idle"} /\ suppress \in {"off", "timed", "left"}
    /\ run \in [Runs -> [kind : Kinds \cup {"none"},
                         at : {"none", "config", "wait", "open", "copy", "close", "exit", "shut", "done"},
                         on : Runs \cup {0}, file : {"none", "opening", "open", "late", "closed"},
                         told : 0 .. 1]]

TrzszInit ==
    /\ trzszState = "idle" /\ transfer = 0 /\ pending = 0 /\ timer = FALSE /\ readers = 0
    /\ waiter = [k \in Kinds |-> 0] /\ chosen = [k \in Kinds |-> FALSE]
    /\ cancelling = FALSE /\ stopping = "no" /\ suppress = "off" /\ gone = FALSE /\ stolen = FALSE
    /\ run = [r \in Runs |-> [kind |-> "none", at |-> "none", on |-> 0, file |-> "none", told |-> 0]]

-----------------------------------------------------------------------------
(* endSession.                                                             *)

\* (Mutant) endSession leaves the readers to the garbage collector.
FileKept(r) == run[r].file

\* A reader is closed; one whose open is still awaited has nothing to close yet.
FileClosed(r) == CASE run[r].file = "open" -> "closed"
                   [] run[r].file = "opening" -> "late"
                   [] OTHER -> run[r].file

\* What endSession does to the runs: the readers it lists are closed, and the run
\* that waits for files is woken with none, finds the session idle and returns.
\* The promise of a run that waits for a save path stays as it is.
RunEnded(r) == [run[r] EXCEPT !.file = IF r = readers THEN FileClosed(r) ELSE @,
                              !.at = IF r = waiter["send"] THEN "done" ELSE @]

\* (Mutant) endSession leaves the promise of the files for whoever chooses next.
WaiterKept == waiter

\* The promises after endSession.
WaiterWoken == [waiter EXCEPT !["send"] = 0]

\* The fields after endSession; runs says what becomes of the coroutines.
EndTrzsz ==
    /\ trzszState' = "idle" /\ transfer' = 0 /\ pending' = 0 /\ timer' = FALSE /\ readers' = 0
    /\ waiter' = WaiterWoken
    /\ chosen' = [k \in Kinds |-> FALSE]

\* endSession clears the timer of the suppression, but not its end.
SuppressLeft == IF suppress = "timed" THEN "left" ELSE suppress

Ended == [r \in Runs |-> RunEnded(r)]

\* The end of a session told complete: the message goes to the browser first.
EndTold ==
    /\ EndTrzsz
    /\ run' = [Ended EXCEPT ![pending].told = IF gone THEN @ ELSE @ + 1]
    /\ suppress' = SuppressLeft

\* (Mutant) The timer gives up on a session that is idle.
OverdueActive == pending # 0 /\ trzszState # "idle"

\* The completion still waits when its timer fires.
Overdue == pending # 0

\* The completion timer sends what is still waiting, and ends the session.
TimerFires ==
    /\ timer
    /\ \/ Overdue /\ EndTold
       \/ ~Overdue /\ timer' = FALSE
          /\ UNCHANGED <<trzszState, transfer, pending, waiter, chosen, readers, suppress, run>>
    /\ UNCHANGED <<cancelling, stopping, gone, stolen>>

-----------------------------------------------------------------------------
(* Output of the terminal.                                                 *)

\* handleData comes to look at the chunk: the suppression is over, or its end has
\* passed although the timer was cleared.
Listening == ~gone /\ suppress # "timed"

\* The remote program announces the end of a copy.
Success ==
    /\ Listening /\ pending # 0
    /\ EndTrzsz
    /\ run' = [Ended EXCEPT ![pending].told = @ + 1]
    /\ suppress' = "off"
    /\ UNCHANGED <<cancelling, stopping, gone, stolen>>

\* ... or where it saved the file: the session ends, without the message.
Saved ==
    /\ Listening /\ pending # 0
    /\ EndTrzsz /\ run' = Ended
    /\ suppress' = "off"
    /\ UNCHANGED <<cancelling, stopping, gone, stolen>>

\* A chunk is searched for a trigger only when no session takes it.
Triggered == trzszState = "idle" /\ (pending = 0 \/ transfer = 0)

\* A trigger: startReceiver, or createTransfer and startUploadProcess.
Trigger(r, kind) ==
    /\ Listening /\ Triggered
    /\ run[r].kind = "none" /\ \A q \in Runs : q < r => run[q].kind # "none"
    /\ trzszState' = TrzszActive(kind) /\ transfer' = r
    /\ cancelling' = FALSE /\ suppress' = "off"
    /\ run' = [run EXCEPT ![r].kind = kind, ![r].at = "config", ![r].on = r]
    /\ UNCHANGED <<pending, timer, waiter, chosen, readers, stopping, gone, stolen>>

-----------------------------------------------------------------------------
(* The coroutines.                                                         *)

\* The catch blocks.  During the handshake of a receive the session is ended; later,
\* and for a send, a cancelled run only returns.
Catch(r) ==
    /\ \/ /\ cancelling /\ (run[r].kind = "send" \/ run[r].at \in {"copy", "close", "exit"})
          /\ run' = [run EXCEPT ![r].at = "done"]
          /\ UNCHANGED <<session, suppress>>
       \/ /\ ~(cancelling /\ (run[r].kind = "send" \/ run[r].at \in {"copy", "close", "exit"}))
          /\ EndTrzsz
          /\ run' = [Ended EXCEPT ![r].at = "done"]
          /\ suppress' = SuppressLeft
    /\ UNCHANGED <<cancelling, stopping, gone, stolen>>

\* Data reach the transfer that run r called.
Fed(r) == run[r].on = transfer

\* Run q goes on with what the user chose, unless this.state says otherwise: a send
\* opens its files, a receive calls recvFiles.
GoOn(q, S) ==
    IF S[q].kind = "none" \/ trzszState # TrzszActive(S[q].kind) THEN [S EXCEPT ![q].at = "done"]
    ELSE IF S[q].kind = "send" THEN [S EXCEPT ![q].at = "open", ![q].file = "opening"]
    ELSE [S EXCEPT ![q].at = "copy", ![q].on = transfer]

\* The readers of the session after run q went on.
ReadersOf(q) == IF run[q].kind = "send" /\ trzszState = "sending" THEN q ELSE readers

\* recvConfig is done: the user has chosen already, or the run waits for it.
Configured(r) ==
    LET k == run[r].kind IN
    /\ run[r].at = "config" /\ Fed(r)
    /\ \/ chosen[k] /\ run' = GoOn(r, run) /\ readers' = ReadersOf(r) /\ UNCHANGED waiter
       \/ ~chosen[k] /\ waiter' = [waiter EXCEPT ![k] = r] /\ run' = [run EXCEPT ![r].at = "wait"]
          /\ UNCHANGED readers
    /\ UNCHANGED <<trzszState, transfer, pending, timer, chosen, cancelling, stopping, suppress, gone, stolen>>

\* setSendFiles, setSavePath: the run whose promise is still there goes on, even if
\* it belongs to a session that has ended.
Choose(k) ==
    /\ ~gone /\ ~chosen[k]
    /\ chosen' = [chosen EXCEPT ![k] = TRUE]
    /\ IF waiter[k] = 0
       THEN UNCHANGED <<waiter, run, readers>>
       ELSE /\ waiter' = [waiter EXCEPT ![k] = 0]
            /\ run' = GoOn(waiter[k], run) /\ readers' = ReadersOf(waiter[k])
    /\ UNCHANGED <<trzszState, transfer, pending, timer, cancelling, stopping, suppress, gone, stolen>>

\* The files of a send are open.  Without a transfer the call that follows throws.
Opened(r) ==
    /\ run[r].at = "open" /\ run[r].file \in {"opening", "late"} /\ transfer # 0
    /\ run' = [run EXCEPT ![r].at = "copy", ![r].on = transfer,
                           ![r].file = IF @ = "opening" THEN "open" ELSE @]
    /\ UNCHANGED <<session, cancelling, stopping, suppress, gone, stolen>>

\* The copy of a send is done: the completion waits for the remote program, and
\* the timer is armed.
Sent(r) ==
    /\ run[r].kind = "send" /\ run[r].at = "copy" /\ Fed(r)
    /\ pending' = r /\ timer' = TRUE
    /\ run' = [run EXCEPT ![r].at = "exit"]
    /\ UNCHANGED <<trzszState, transfer, waiter, chosen, readers, cancelling, stopping, suppress, gone, stolen>>

\* clientExit is done: the readers are closed, of this session or another.
SendExits(r) ==
    /\ run[r].kind = "send" /\ run[r].at = "exit"
    /\ run' = [q \in Runs |-> [run[q] EXCEPT !.at = IF q = r THEN "shut" ELSE @,
                                             !.file = IF q = readers THEN FileClosed(q) ELSE @]]
    /\ UNCHANGED <<session, cancelling, stopping, suppress, gone, stolen>>

\* They are closed: the session is idle, if it is this one or another.
SendReturns(r) ==
    /\ run[r].kind = "send" /\ run[r].at = "shut"
    /\ trzszState' = "idle"
    /\ stolen' = (stolen \/ (trzszState # "idle" /\ transfer # run[r].on))
    /\ run' = [run EXCEPT ![r].at = "done"]
    /\ UNCHANGED <<transfer, pending, timer, waiter, chosen, readers, cancelling, stopping, suppress, gone>>

\* recvFiles is done; the writers are closed.
Received(r) ==
    /\ run[r].kind = "receive" /\ run[r].at = "copy" /\ Fed(r)
    /\ run' = [run EXCEPT ![r].at = "close"]
    /\ UNCHANGED <<session, cancelling, stopping, suppress, gone, stolen>>

\* They are: the completion waits, the timer is armed, the state is idle.  When the
\* session was ended in between, the call of clientExit throws: a cancelled run
\* returns and leaves the completion to the timer.
Closed(r) ==
    /\ run[r].at = "close"
    /\ \/ /\ transfer # 0 \/ cancelling
          /\ trzszState' = "idle" /\ pending' = r /\ timer' = TRUE
          /\ run' = [run EXCEPT ![r].at = IF transfer # 0 THEN "exit" ELSE "done"]
          /\ UNCHANGED <<transfer, waiter, chosen, readers, suppress>>
       \/ /\ transfer = 0 /\ ~cancelling
          /\ EndTrzsz /\ run' = [Ended EXCEPT ![r].at = "done"]
          /\ suppress' = SuppressLeft
    /\ UNCHANGED <<cancelling, stopping, gone, stolen>>

ReceiveReturns(r) ==
    /\ run[r].kind = "receive" /\ run[r].at = "exit"
    /\ run' = [run EXCEPT ![r].at = "done"]
    /\ UNCHANGED <<session, cancelling, stopping, suppress, gone, stolen>>

\* An await rejects, or the call after it finds no transfer.
Fails(r) ==
    /\ run[r].at \in {"config", "open", "copy", "close", "exit", "shut"}
    /\ Catch(r)

-----------------------------------------------------------------------------
(* Cancel and the end of the terminal.                                     *)

\* cancel: the transfer is told to stop, which takes a while.
CancelTrzsz ==
    /\ ~gone /\ stopping = "no" /\ transfer # 0
    /\ cancelling' = TRUE
    /\ stopping' = IF trzszState = "idle" THEN "idle" ELSE "active"
    /\ UNCHANGED <<session, suppress, gone, run, stolen>>

\* cancel goes on after stopTransferring and ends the session there is by then.  If
\* one was active before, output is suppressed for a second.
CancelEnds ==
    /\ stopping # "no"
    /\ EndTrzsz /\ run' = Ended
    /\ suppress' = IF stopping = "active" THEN "timed" ELSE SuppressLeft
    /\ stopping' = "no"
    /\ UNCHANGED <<cancelling, gone, stolen>>

\* cancel without a transfer.
CancelIdle ==
    /\ ~gone /\ stopping = "no" /\ transfer = 0
    /\ cancelling' = TRUE
    /\ EndTrzsz /\ run' = Ended
    /\ suppress' = SuppressLeft
    /\ UNCHANGED <<stopping, gone, stolen>>

SuppressEnds ==
    /\ suppress = "timed"
    /\ suppress' = "off"
    /\ UNCHANGED <<session, cancelling, stopping, gone, run, stolen>>

DestroyTrzsz ==
    /\ ~gone
    /\ gone' = TRUE
    /\ EndTrzsz /\ run' = Ended
    /\ suppress' = SuppressLeft
    /\ UNCHANGED <<cancelling, stopping, stolen>>

-----------------------------------------------------------------------------
Step(r) == \/ Configured(r) \/ Opened(r) \/ Sent(r) \/ SendExits(r) \/ SendReturns(r)
           \/ Received(r) \/ Closed(r) \/ ReceiveReturns(r) \/ Fails(r)

\* What reaches a session, by way of TrzszManager: the output of the terminal and the
\* messages of the browser; and its timers and coroutines.
TrzszNext ==
    \/ TimerFires \/ Success \/ Saved
    \/ \E r \in Runs : Step(r) \/ \E k \in Kinds : Trigger(r, k)
    \/ \E k \in Kinds : Choose(k)
    \/ CancelTrzsz \/ CancelEnds \/ CancelIdle \/ SuppressEnds \/ DestroyTrzsz

\* Timers fire and stopTransferring returns; the library, the remote program and
\* the user owe nothing.
TrzszSpec ==
    /\ TrzszInit /\ [][TrzszNext]_trzszVars
    /\ WF_trzszVars(TimerFires) /\ WF_trzszVars(CancelEnds) /\ WF_trzszVars(SuppressEnds)

-----------------------------------------------------------------------------
(* Properties.                                                             *)

\* A session that ended holds nothing: without a transfer no reader is listed, and
\* an open file belongs to the readers listed.  (A file that opens after the end of
\* its session is lost; and so is one whose readers another send replaces, once a
\* session was made idle by a send of an earlier one.)
FilesOwned ==
    /\ transfer = 0 => readers = 0
    /\ \A r \in Runs : run[r].file = "open" => readers = r \/ stolen

\* Output is handed to this.transfer whenever the state says so: it is there.
HasTransfer == trzszState # "idle" => transfer # 0

TrzszInv == TrzszTypeOK /\ FilesOwned /\ HasTransfer

\* A send never copies into the transfer of a later session: the one that waits for
\* the user's files is woken when its session ends.  (The exceptions of the code are
\* left out: a send whose files open after the end of its session; one that waits in
\* a session that was made idle without an end; and a receive, whose promise of a
\* save path survives.)
SendsOwn ==
    \A r \in Runs : run[r].kind = "send" /\ run[r].at \in {"config", "copy"} =>
                    run[r].on = r \/ run[r].file = "late" \/ stolen

\* A completion that waits is always resolved: told or dropped, and the terminal is
\* given back.
CompletionResolved == pending # 0 ~> pending = 0
=============================================================================
