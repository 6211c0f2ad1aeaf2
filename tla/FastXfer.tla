------------------------------ MODULE FastXfer ------------------------------
(***************************************************************************)
(* One file transfer of the SFTP panel: class Transfer of                  *)
(* src/app/server/transfer.js, from its constructor to its last callback,  *)
(* with the websocket handlers that pause, resume and destroy it.          *)
(*                                                                         *)
(* A transfer opens a channel of its own, then runs the chain              *)
(*   open source -> stat -> open destination -> (chmod) -> copy -> close   *)
(* where every arrow is a callback, so a destroy (client or lost           *)
(* websocket) and the kill it schedules 200 ms later may fall between any  *)
(* two of them.  While copying, up to `concurrency` chunks are in flight,  *)
(* each owning one slot of a single read buffer.                           *)
(*                                                                         *)
(* Bytes are modelled by their offset: buf[b] and dst[p] hold the source   *)
(* offset whose byte they contain, so a correct copy is the identity.  A   *)
(* write to a local file may be short; the code does not look at how much  *)
(* was written, and `short` remembers what such a write left out.  A       *)
(* request on a channel that is already closed is never answered: whoever  *)
(* waits for it is "mute".                                                 *)
(***************************************************************************)
EXTENDS Integers, Sequences, FiniteSets

CONSTANTS
  FileSize,     (* attrs.size as stat reports it                           *)
  ChunkSize,    (* options.chunkSize, 32768 by default                     *)
  Concurrency,  (* options.concurrency, 64 by default                      *)
  Kinds,        (* "file", "scp" (no SFTP subsystem), "dir" (folder)       *)
  ShrunkTo      (* lengths to which the source may shrink after stat       *)

ASSUME XferAssumption ==
  /\ FileSize \in Nat
  /\ ChunkSize \in Nat \ {0}
  /\ Concurrency \in Nat \ {0}
  /\ Kinds \subseteq {"file", "scp", "dir"}

ASSUME ShrunkAssumption == ShrunkTo \subseteq Nat

VARIABLES
  kind,       (* which of the three engines initTransfer picks             *)
  dir,        (* "download": the source is SFTP; "upload": it is local fs  *)
  pc,         (* the callback of the open chain that is pending            *)
  own,        (* the transfer's own SFTP channel                           *)
  chanUp,     (* the SSH connection under the SFTP side is alive           *)
  ends,       (* this.src and this.dst are set (kill makes them null)      *)
  handle,     (* [src, dst]: is th.srcHandle / th.dstHandle set            *)
  file,       (* [src, dst]: the OS or server file behind the handle       *)
  job,        (* slot -> the chunk it carries                              *)
  next,       (* pdst: first offset not handed to a slot yet               *)
  total,      (* bytes acknowledged by writes                              *)
  hadError,   (* the closure's flag: onerror ran                           *)
  toClose,    (* sides whose close callback is pending                     *)
  closeErr,   (* the close ends in onError rather than onEnd               *)
  pausing, destroyed, killTimer,
  ws,         (* this.ws is set                                            *)
  msgs,       (* final messages sent to the client                         *)
  buf, dst,   (* contents of the read buffer and of the destination file   *)
  short,      (* history: offsets that short writes left out               *)
  srcLen      (* current length of the source                              *)

chain == <<kind, dir, pc, own, chanUp, ends, handle, file>>
copy  == <<job, next, total, buf, dst, short, srcLen>>
final == <<hadError, toClose, closeErr, ws, msgs>>
ctl   == <<pausing, destroyed, killTimer>>
vars  == <<chain, copy, final, ctl>>

Sides   == {"src", "dst"}
Offsets == 0 .. FileSize - 1
None    == -1
Least(a, b) == IF a <= b THEN a ELSE b

-----------------------------------------------------------------------------
(* Buffer layout.                                                          *)

\* "Use less memory where possible": slots are dropped until the buffer is no
\* larger than the file; a single slot is cut to the file's size.
SlotCount == IF Concurrency * ChunkSize <= FileSize \/ Concurrency = 1
             THEN Concurrency
             ELSE IF ChunkSize <= FileSize THEN FileSize \div ChunkSize ELSE 1
BufSize   == Least(SlotCount * ChunkSize, FileSize)
Slots     == 1 .. SlotCount

ChunkAt(pos) == IF pos + ChunkSize > FileSize THEN FileSize - pos ELSE ChunkSize

\* psrc of startReads.
BufAt(i) == (i - 1) * ChunkSize

\* A slot: st says which callback it waits for ("mute": one that never comes); the bytes [pos, pos+len) of
\* the file go through the buffer at [off, off+len); nb is what read returned.
Job(st, off, pos, len, nb) ==
  [st |-> st, off |-> off, pos |-> pos, len |-> len, nb |-> nb]
Idle == Job("idle", 0, 0, 0, 0)

\* The side of the transfer that lives on the SFTP server.
SftpSide == IF dir = "download" THEN "src" ELSE "dst"

\* Calls on a side can succeed: the local one always, the SFTP one while its
\* channel is open.
Reach(s) == s = SftpSide => chanUp /\ own # "ended"

\* A request to a side.  ssh2 ignores one made on a channel that is not open; those
\* it was given before the channel closed are answered with an error.
Ask(s, step) == IF Reach(s) THEN step ELSE "mute"

\* How many of nb bytes a write puts in place when it reports no error: SFTP writes
\* are whole, a local fs.write may be short.
Written(nb) == IF dir = "download" /\ nb > 0 THEN 1 .. nb ELSE {nb}

-----------------------------------------------------------------------------
Init ==
  /\ kind \in Kinds
  /\ dir \in {"download", "upload"}
  /\ pc = IF kind = "file" THEN "chan" ELSE "scp"
  /\ own = "none"
  /\ chanUp = TRUE
  /\ ends = TRUE
  /\ handle = [s \in Sides |-> FALSE]
  /\ file = [s \in Sides |-> "none"]
  /\ job = [i \in Slots |-> Idle]
  /\ next = 0
  /\ total = 0
  /\ hadError = FALSE
  /\ toClose = {}
  /\ closeErr = FALSE
  /\ pausing = FALSE
  /\ destroyed = FALSE
  /\ killTimer = "off"
  /\ ws = TRUE
  /\ msgs = <<>>
  /\ buf = [b \in 0 .. BufSize - 1 |-> None]
  /\ dst = [p \in Offsets |-> None]
  /\ short = {}
  /\ srcLen = FileSize

-----------------------------------------------------------------------------
(* What the handlers share.                                                *)

\* onEnd / onError: the message is lost once destroy has dropped this.ws.
Send(m) == msgs' = IF ws THEN Append(msgs, m) ELSE msgs

\* onError in the open chain: report, and leave whatever is open open.
Fail == Send("err") /\ pc' = "stop"

\* canCloseSrc / canCloseDst, for the handles set in h.
Closable(h) == {s \in Sides : h[s] /\ Reach(s)}

\* onerror of the copy closure: close what can be closed, then report.
OnError(h, failed) ==
  /\ hadError' = TRUE
  /\ toClose' = Closable(h)
  /\ closeErr' = failed
  /\ IF Closable(h) = {} THEN Send(IF failed THEN "err" ELSE "end")
                         ELSE UNCHANGED msgs

\* Mutants: the destroy check forgotten; no timer while paused.
SingleReadAlways(off, pos, len) ==
  IF hadError THEN Idle
  ELSE Job(IF pausing THEN "paused" ELSE Ask("src", "read"), off, pos, len, 0)
SingleReadLost(off, pos, len) ==
  IF destroyed \/ hadError \/ pausing THEN Idle ELSE Job(Ask("src", "read"), off, pos, len, 0)

\* singleRead: nothing after a destroy or an error, a 2 ms timer while paused.
SingleRead(off, pos, len) ==
  IF destroyed \/ hadError THEN Idle
  ELSE Job(IF pausing THEN "paused" ELSE Ask("src", "read"), off, pos, len, 0)

-----------------------------------------------------------------------------
(* The chain of callbacks that opens the transfer.                         *)

\* conn.sftp answers: the transfer gets its own channel, src and dst are set
\* (again, if kill has nulled them) and fastXfer opens the source.
ChannelOpened ==
  /\ pc = "chan" /\ chanUp
  /\ own' = "open"
  /\ ends' = TRUE
  /\ pc' = "open"
  /\ UNCHANGED <<kind, dir, chanUp, handle, file, copy, final, ctl>>

\* conn.sftp fails: fall back to the shared channel; after kill this.src is
\* null and src.open throws inside the async function.
ChannelFailed ==
  /\ pc = "chan"
  /\ pc' = IF ends THEN Ask("src", "open") ELSE "stop"
  /\ UNCHANGED <<kind, dir, own, chanUp, ends, handle, file, copy, final, ctl>>

\* onSrcOpen: a destroyed transfer drops the handle it was just given.
SourceOpened ==
  /\ pc = "open" /\ Reach("src")
  /\ file' = [file EXCEPT !["src"] = "open"]
  /\ handle' = [handle EXCEPT !["src"] = ~destroyed]
  /\ pc' = IF destroyed THEN "stop" ELSE "stat"
  /\ UNCHANGED <<kind, dir, own, chanUp, ends, copy, final, ctl>>

SourceOpenFailed ==
  /\ pc = "open"
  /\ Fail
  /\ UNCHANGED <<kind, dir, own, chanUp, ends, handle, file, copy, ctl,
                 hadError, toClose, closeErr, ws>>

\* tryStat with attributes: it does not look at onDestroy, so it opens (and
\* truncates) the destination; after kill dst is null and the call throws.
Statted ==
  /\ pc \in {"stat", "stat2"} /\ Reach("src")
  /\ pc' = IF ends THEN Ask("dst", "openDst") ELSE "stop"
  /\ UNCHANGED <<kind, dir, own, chanUp, ends, handle, file, copy, final, ctl>>

\* fstat fails: an SFTP source is asked again by path; after kill src is null,
\* which is not fs, and src.stat throws.
FstatFailed ==
  /\ pc = "stat"
  /\ ~ends \/ dir = "download"
  /\ pc' = IF ends THEN Ask("src", "stat2") ELSE "stop"
  /\ UNCHANGED <<kind, dir, own, chanUp, ends, handle, file, copy, final, ctl>>

StatFailed ==
  /\ \/ pc = "stat" /\ ends /\ dir = "upload"
     \/ pc = "stat2"
  /\ Fail
  /\ UNCHANGED <<kind, dir, own, chanUp, ends, handle, file, copy, ctl,
                 hadError, toClose, closeErr, ws>>

\* startReads: one chunk per slot, laid side by side in file and buffer.
StartReads ==
  /\ job' = [i \in Slots |->
               LET pos == (i - 1) * ChunkSize IN SingleRead(BufAt(i), pos, ChunkAt(pos))]
  /\ next' = BufSize
  /\ pc' = "copy"
  /\ UNCHANGED <<total, buf, dst, short, srcLen>>

\* onDstOpen: drop the handle after a destroy, end at once on an empty file,
\* give up when the buffer cannot be allocated, else change the mode when one
\* was asked for, or start reading.
DestOpened ==
  /\ pc = "openDst" /\ Reach("dst")
  /\ file' = [file EXCEPT !["dst"] = "open"]
  /\ handle' = [handle EXCEPT !["dst"] = ~destroyed]
  /\ UNCHANGED <<kind, dir, own, chanUp, ends, ws, ctl>>
  /\ \/ /\ destroyed
        /\ pc' = "stop"
        /\ UNCHANGED <<copy, hadError, toClose, closeErr, msgs>>
     \/ /\ ~destroyed /\ FileSize = 0
        /\ OnError(handle', FALSE)
        /\ pc' = "stop"
        /\ UNCHANGED copy
     \/ /\ ~destroyed /\ FileSize > 0
        /\ Fail
        /\ UNCHANGED <<copy, hadError, toClose, closeErr>>
     \/ /\ ~destroyed /\ FileSize > 0
        /\ pc' = "chmod"
        /\ UNCHANGED <<copy, hadError, toClose, closeErr, msgs>>
     \/ /\ ~destroyed /\ FileSize > 0
        /\ StartReads
        /\ UNCHANGED <<hadError, toClose, closeErr, msgs>>

DestOpenFailed ==
  /\ pc = "openDst"
  /\ Fail
  /\ UNCHANGED <<kind, dir, own, chanUp, ends, handle, file, copy, ctl,
                 hadError, toClose, closeErr, ws>>

\* fchmod answers, or it failed and chmod did (its error is ignored); a chmod asked
\* after the channel was lost is not answered.
ChmodDone ==
  /\ pc = "chmod"
  /\ \/ StartReads
     \/ ~Reach("dst") /\ pc' = "mute" /\ UNCHANGED copy
  /\ UNCHANGED <<kind, dir, own, chanUp, ends, handle, file, final, ctl>>

-----------------------------------------------------------------------------
(* Copying.                                                                *)

\* src.read answers with nb bytes, fewer than asked when the server splits the
\* read or the source has become shorter; the slot's bytes go to dst.write.
ReadDone(i) ==
  LET j == job[i] IN
  /\ j.st = "read" /\ Reach("src")
  /\ \E nb \in (IF j.pos < srcLen THEN 1 .. Least(j.len, srcLen - j.pos) ELSE {0}) :
       /\ buf' = [b \in DOMAIN buf |->
                    IF b \in j.off .. j.off + nb - 1 THEN j.pos + (b - j.off) ELSE buf[b]]
       /\ job' = [job EXCEPT ![i] = IF hadError \/ destroyed THEN Idle
                                    ELSE Job(Ask("dst", "write"), j.off, j.pos, j.len, nb)]
  /\ UNCHANGED <<chain, next, total, dst, short, srcLen, final, ctl>>

\* A failed read or write reports once, and even after a destroy.
OpFailed(i) ==
  /\ job[i].st \in {"read", "write"}
  /\ job' = [job EXCEPT ![i] = Idle]
  /\ IF hadError THEN UNCHANGED <<hadError, toClose, closeErr, msgs>>
                 ELSE OnError(handle, TRUE)
  /\ UNCHANGED <<chain, next, total, buf, dst, short, srcLen, ws, ctl>>

\* The rest of a split read.
Rest(j) == SingleRead(j.off, j.pos + j.nb, j.len - j.nb)

\* total += nb.  Mutant: the length asked for is counted.
CountedAsked(j) == total + j.len
Counted(j)      == total + j.nb

\* total === fsize.
Complete(count) == count = FileSize

\* writeCb: the rest of a short read, the end, nothing left, or the next chunk.
\* It counts nb bytes whatever the write returned, so that a short write counts as
\* whole and its rest is never written.
WriteDone(i) ==
  LET j     == job[i]
      count == Counted(j)
      Take(slot) == job' = [job EXCEPT ![i] = slot]
  IN
  /\ j.st = "write" /\ Reach("dst")
  /\ \E w \in Written(j.nb) :
       /\ dst' = [p \in Offsets |->
                    IF p \in j.pos .. j.pos + w - 1 THEN buf[j.off + (p - j.pos)] ELSE dst[p]]
       /\ short' = short \cup (j.pos + w .. j.pos + j.nb - 1)
  /\ \/ /\ hadError
        /\ Take(Idle)
        /\ UNCHANGED <<total, next, hadError, toClose, closeErr, msgs>>
     \/ /\ ~hadError
        /\ total' = count
        /\ \/ /\ j.nb < j.len
              /\ Take(Rest(j))
              /\ UNCHANGED <<next, hadError, toClose, closeErr, msgs>>
           \/ /\ j.nb = j.len /\ Complete(count)
              /\ Take(Idle)
              /\ OnError(handle, FALSE)
              /\ UNCHANGED next
           \/ /\ j.nb = j.len /\ ~Complete(count) /\ next >= FileSize
              /\ Take(Idle)
              /\ UNCHANGED <<next, hadError, toClose, closeErr, msgs>>
           \/ /\ j.nb = j.len /\ ~Complete(count) /\ next < FileSize
              /\ Take(SingleRead(j.off, next, ChunkAt(next)))
              /\ next' = next + ChunkAt(next)
              /\ UNCHANGED <<hadError, toClose, closeErr, msgs>>
  /\ UNCHANGED <<chain, buf, srcLen, ws, ctl>>

\* The 2 ms timer of a paused slot calls singleRead again.
Poll(i) ==
  /\ job[i].st = "paused"
  /\ job' = [job EXCEPT ![i] = SingleRead(job[i].off, job[i].pos, job[i].len)]
  /\ UNCHANGED <<chain, next, total, buf, dst, short, srcLen, final, ctl>>

\* --left === 0.  Mutant: the first close reports.
AnyClosed(left) == Cardinality(left) <= 1
AllClosed(left) == left = {}

\* src.close / dst.close answers; the last one reports.
CloseDone(s) ==
  /\ s \in toClose
  /\ toClose' = toClose \ {s}
  /\ file' = [file EXCEPT ![s] = "closed"]
  /\ handle' = [handle EXCEPT ![s] = FALSE]
  /\ IF AllClosed(toClose') THEN Send(IF closeErr THEN "err" ELSE "end") ELSE UNCHANGED msgs
  /\ UNCHANGED <<kind, dir, pc, own, chanUp, ends, copy, hadError, closeErr, ws, ctl>>

\* ssh2ScpTransfer / ssh2ScpFolderTransfer: the library's engine resolves
\* (possibly because destroy stopped it) or throws.
EngineDone ==
  /\ pc = "scp"
  /\ \E m \in {"end", "err"} : Send(m)
  /\ pc' = "stop"
  /\ UNCHANGED <<kind, dir, own, chanUp, ends, handle, file, copy, ctl,
                 hadError, toClose, closeErr, ws>>

-----------------------------------------------------------------------------
(* The client, the connection and the source file.                         *)

Pause  == ~destroyed /\ pausing' = TRUE
          /\ UNCHANGED <<chain, copy, final, destroyed, killTimer>>
Resume == ~destroyed /\ pausing' = FALSE
          /\ UNCHANGED <<chain, copy, final, destroyed, killTimer>>

\* destroy, called once: whoever calls it (the client, the transfer's
\* websocket closing, the SFTP session's kill) deletes the registry entry.
Destroy ==
  /\ ~destroyed
  /\ destroyed' = TRUE
  /\ killTimer' = "armed"
  /\ ws' = FALSE
  /\ job' = [i \in Slots |-> IF job[i].st = "paused" THEN Idle ELSE job[i]]
  /\ UNCHANGED <<chain, next, total, buf, dst, short, srcLen, hadError, toClose, closeErr,
                 msgs, pausing>>

\* What kill frees.  Mutant: the destination's handle is forgotten.
KillsSource(s) == ends /\ handle[s] /\ s = "src"
Kills(s)       == (ends /\ handle[s]) \/ (s = SftpSide /\ own = "open")

\* kill, 200 ms later: closes the handles it still knows and the transfer's
\* own channel (the server then frees what was open on it), forgets them all.
Kill ==
  /\ killTimer = "armed"
  /\ killTimer' = "fired"
  /\ own' = IF own = "open" THEN "ended" ELSE own
  /\ file' = [s \in Sides |->
       IF file[s] = "open" /\ Kills(s) THEN "closed" ELSE file[s]]
  /\ ends' = FALSE
  /\ handle' = [s \in Sides |-> FALSE]
  /\ UNCHANGED <<kind, dir, pc, chanUp, copy, final, pausing, destroyed>>

\* The SSH connection drops: its channels close, the server frees its files.
ChannelLost ==
  /\ chanUp
  /\ chanUp' = FALSE
  /\ own' = IF own = "open" THEN "ended" ELSE own
  /\ file' = [file EXCEPT ![SftpSide] = IF @ = "open" THEN "closed" ELSE @]
  /\ UNCHANGED <<kind, dir, pc, ends, handle, copy, final, ctl>>

\* Another program shortens the source while it is being copied.
Truncate ==
  /\ kind = "file"
  /\ \E len \in ShrunkTo : len < srcLen /\ srcLen' = len
  /\ UNCHANGED <<chain, job, next, total, buf, dst, short, final, ctl>>

-----------------------------------------------------------------------------
OpenChain == \/ ChannelOpened \/ ChannelFailed \/ SourceOpened \/ SourceOpenFailed
             \/ Statted \/ FstatFailed \/ StatFailed \/ DestOpened \/ DestOpenFailed
             \/ ChmodDone \/ EngineDone
Slot(i)   == ReadDone(i) \/ WriteDone(i) \/ OpFailed(i) \/ Poll(i)

Next == \/ OpenChain
        \/ \E i \in Slots : Slot(i)
        \/ \E s \in Sides : CloseDone(s)
        \/ Pause \/ Resume \/ Destroy \/ Kill \/ ChannelLost \/ Truncate

\* fs and ssh2 answer every call they were given on an open channel, one way or the
\* other, and timers fire.  Nothing obliges the client, the network or the other program.
Fairness == /\ WF_vars(OpenChain)
            /\ \A i \in Slots : WF_vars(Slot(i))
            /\ \A s \in Sides : WF_vars(CloseDone(s))
            /\ WF_vars(Kill)

Spec     == Init /\ [][Next]_vars
FairSpec == Spec /\ Fairness

-----------------------------------------------------------------------------
(* Properties.                                                             *)

Taken(i)    == job[i].st # "idle"
Acked(p)    == dst[p] = p \/ p \in short
AllAcked    == \A p \in Offsets : Acked(p)
AllIdle     == \A i \in Slots : ~Taken(i)
Reported(m) == \E k \in DOMAIN msgs : msgs[k] = m
Mute        == pc = "mute" \/ \E i \in Slots : job[i].st = "mute"

\* What every variable of a transfer can hold.
TypeChain ==
  /\ kind \in Kinds /\ dir \in {"download", "upload"}
  /\ pc \in {"chan", "open", "stat", "stat2", "openDst", "chmod", "copy", "scp", "stop",
             "mute"}
  /\ own \in {"none", "open", "ended"}
  /\ chanUp \in BOOLEAN /\ ends \in BOOLEAN
  /\ handle \in [Sides -> BOOLEAN]
  /\ file \in [Sides -> {"none", "open", "closed"}]
TypeCopy ==
  /\ job \in [Slots -> [st : {"idle", "paused", "read", "write", "mute"},
                        off : Nat, pos : Nat, len : Nat, nb : Nat]]
  /\ next \in Nat /\ total \in Nat
  /\ buf \in [0 .. BufSize - 1 -> Offsets \cup {None}]
  /\ dst \in [Offsets -> Offsets \cup {None}]
  /\ short \subseteq Offsets
  /\ srcLen \in Nat
TypeFinal ==
  /\ hadError \in BOOLEAN /\ closeErr \in BOOLEAN /\ ws \in BOOLEAN
  /\ toClose \subseteq Sides
  /\ msgs \in Seq({"end", "err"})
TypeCtl ==
  /\ pausing \in BOOLEAN /\ destroyed \in BOOLEAN
  /\ killTimer \in {"off", "armed", "fired"}
TypeOK == TypeChain /\ TypeCopy /\ TypeFinal /\ TypeCtl

\* When the client is told that a file's transfer ended, every byte of the source is
\* in its place in the destination, whatever the order in which the reads and writes
\* of the slots were answered and however reads were split: all bytes of an upload,
\* and of a download all but those that a short write of the local file left out,
\* which writeCb takes for written.
EndMeansCopied ==
  kind = "file" /\ Reported("end") =>
    \A p \in Offsets : dst[p] = p \/ (dir = "download" /\ p \in short)

\* No two chunks in flight share a byte of the read buffer or of the file, and
\* none leaves either: a slot never reads over bytes another is still writing.
SlotsDisjoint ==
  \A i \in Slots : Taken(i) =>
    /\ job[i].off + job[i].len <= BufSize
    /\ job[i].pos + job[i].len <= next
    /\ \A k \in Slots \ {i} : Taken(k) =>
         /\ \/ job[i].off + job[i].len <= job[k].off
            \/ job[k].off + job[k].len <= job[i].off
         /\ \/ job[i].pos + job[i].len <= job[k].pos
            \/ job[k].pos + job[k].len <= job[i].pos

\* What the client may be told and when: a transfer implements FileCopy.  A copy by
\* one of the scp engines is whole when the engine says so.
Told == IF msgs = <<>> THEN "none" ELSE IF Len(msgs) = 1 THEN msgs[1] ELSE "twice"
CopiedNow ==
  IF kind = "file" THEN {p \in Offsets : dst[p] = p}
  ELSE IF Reported("end") THEN Offsets ELSE {}

Abstract == INSTANCE FileCopy WITH
  Bytes <- Offsets, copied <- CopiedNow, skipped <- short, held <- (\E s \in Sides : file[s] = "open"),
  outcome <- Told, watched <- ws

\* Every step of a transfer copies towards the whole file, tells the only outcome
\* (success with every byte copied or left out by a short write, and both files
\* closed) or is none of the client's business.
Copies == Abstract!Spec

\* The files are closed after a complete copy only when no slot still has an
\* operation on them.
SuccessIsQuiet == kind = "file" /\ hadError /\ ~closeErr => AllIdle

\* A destroyed transfer starts no read and no write, a paused one no read.
StopsStarting ==
  [][\A i \in Slots :
       /\ destroyed /\ job'[i].st # "idle" => job'[i] = job[i]
       /\ pausing /\ job'[i].st = "read" => job'[i] = job[i]]_vars

\* If the client eventually leaves the transfer running and the source keeps its
\* size, the transfer reports an outcome or is destroyed, unless it asks something of
\* a channel that is already closed: resumed after the connection was lost, say, it
\* waits for an answer that never comes and stays without an outcome.
Progress ==
  <>[]~pausing /\ [](srcLen = FileSize) => <>(msgs # <<>> \/ destroyed \/ Mute)

\* A destination that is open when the transfer is destroyed gets closed.
KillFrees == destroyed /\ handle["dst"] ~> file["dst"] # "open"

-----------------------------------------------------------------------------
(* The inductive invariant behind EndMeansCopied, SlotsDisjoint and        *)
(* SuccessIsQuiet.                                                         *)

InChunk(i, p) == job[i].pos <= p /\ p < job[i].pos + job[i].len

\* Each slot keeps to its part of the buffer and to offsets handed out.
Layout ==
  \A i \in Slots : Taken(i) =>
    /\ job[i].off = BufAt(i)
    /\ job[i].len \in 1 .. ChunkSize
    /\ job[i].off + job[i].len <= BufSize
    /\ job[i].pos + job[i].len <= next
    /\ job[i].nb <= job[i].len

\* The chunks in flight are disjoint parts of the file.
ChunksApart ==
  \A i, k \in Slots : i # k /\ Taken(i) /\ Taken(k) =>
    \/ job[i].pos + job[i].len <= job[k].pos
    \/ job[k].pos + job[k].len <= job[i].pos

\* What a slot is writing is what it read.
Loaded ==
  \A i \in Slots : job[i].st = "write" =>
    \A b \in job[i].off .. job[i].off + job[i].nb - 1 :
       buf[b] = job[i].pos + (b - job[i].off)

\* Offsets that were written, or left out by a short write, and belong to no chunk in
\* flight.
Passed == {p \in Offsets : /\ p < next /\ Acked(p)
                           /\ \A i \in Slots : Taken(i) => ~InChunk(i, p)}
Counting == ~hadError => total <= Cardinality(Passed)

\* Where in the chain of callbacks copying and closing can be under way.
Phases ==
  /\ next <= FileSize
  /\ pc # "copy" => AllIdle
  /\ pc \notin {"copy", "stop"} => total = 0 /\ ~hadError
  /\ pc = "scp" => kind # "file"
  /\ pc = "chmod" => FileSize > 0
  /\ toClose # {} => hadError

Ending ==
  /\ kind = "file" /\ hadError /\ ~closeErr => AllAcked /\ AllIdle
  /\ kind = "file" /\ Reported("end") => hadError /\ ~closeErr
  /\ dir = "upload" => short = {}

\* All of the above: total never exceeds the offsets that were written or left out, so
\* it reaches the file's size only when no other is missing and nothing in flight.
CopyInv == TypeOK /\ Layout /\ ChunksApart /\ Loaded /\ Counting /\ Phases /\ Ending

-----------------------------------------------------------------------------
(* What the refinement of FileCopy rests on besides CopyInv.               *)

\* One message at most, after which nothing is left to close or to copy; who still
\* listens has not given the transfer up.
ToldOnce ==
  /\ ws => ~destroyed /\ killTimer = "off"
  /\ Len(msgs) <= 1
  /\ msgs # <<>> => toClose = {} /\ (pc = "stop" \/ (pc = "copy" /\ hadError))

\* The files that are open: the server's only behind a live channel; with a listener
\* all of them behind a handle, and among those being closed once closing began.
FilesHeld ==
  /\ \A s \in Sides : file[s] = "open" =>
       /\ Reach(s)
       /\ ws => handle[s]
       /\ ws /\ hadError => s \in toClose
       /\ ~Reported("end")
       /\ kind = "file"
  /\ ws /\ pc \in {"chmod", "copy"} /\ ~hadError => handle["dst"]
  /\ kind # "file" => pc \in {"scp", "stop"} /\ toClose = {}

\* What holds in every state of a copy: the counting above, a complete copy at the
\* end, disjoint slots, a quiet close, one outcome and no file forgotten.
FastXferInv ==
  CopyInv /\ EndMeansCopied /\ ToldOnce /\ FilesHeld /\ SlotsDisjoint /\ SuccessIsQuiet

=============================================================================
