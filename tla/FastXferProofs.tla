-------------------------- MODULE FastXferProofs --------------------------
(* Proofs about one transfer (FastXfer), for every file size, chunk size,  *)
(* number of slots and source that may or may not shrink: CopyInv is       *)
(* inductive, hence the end is reported only when nothing but what short   *)
(* local writes left out is missing (nothing at all in an upload), slots   *)
(* never share bytes and files are closed with nothing in flight; and the  *)
(* transfer implements FileCopy, by RefInv.                                *)
EXTENDS FastXfer, FiniteSetTheorems, SequenceTheorems, TLAPS

USE XferAssumption DEF None

-----------------------------------------------------------------------------
(* The read buffer's layout.                                               *)

\* Multiplication by a chunk size keeps the order of naturals.
LEMMA MulMono == \A a, b, c \in Nat : a <= b => a * c <= b * c
  OBVIOUS

\* The quotient, times the divisor, does not exceed the dividend.
LEMMA DivMul == \A a \in Nat, b \in Nat \ {0} : a \div b \in Nat /\ (a \div b) * b <= a
  OBVIOUS

\* onDstOpen's loop leaves at least one slot, a buffer no larger than the file,
\* and a whole chunk of buffer per slot unless one slot holds the whole file.
LEMMA BufferFits ==
  /\ SlotCount \in Nat \ {0}
  /\ BufSize \in Nat /\ BufSize <= FileSize
  /\ \/ BufSize = SlotCount * ChunkSize
     \/ SlotCount = 1 /\ BufSize = FileSize /\ FileSize < ChunkSize
PROOF
<1>1. Concurrency * ChunkSize \in Nat
  OBVIOUS
<1>2. CASE Concurrency * ChunkSize <= FileSize
  BY <1>1, <1>2 DEF SlotCount, BufSize, Least
<1>3. CASE Concurrency * ChunkSize > FileSize /\ Concurrency = 1
  BY <1>3 DEF SlotCount, BufSize, Least
<1>4. CASE Concurrency * ChunkSize > FileSize /\ Concurrency # 1 /\ ChunkSize <= FileSize
  <2>1. SlotCount = FileSize \div ChunkSize
    BY <1>1, <1>4 DEF SlotCount
  <2>2. SlotCount \in Nat /\ SlotCount * ChunkSize <= FileSize
    BY <2>1, DivMul
  <2>3. SlotCount # 0
    BY <2>1, <1>4
  <2> QED
    BY <2>2, <2>3 DEF BufSize, Least
<1>5. CASE Concurrency * ChunkSize > FileSize /\ Concurrency # 1 /\ ChunkSize > FileSize
  <2>1. SlotCount = 1
    BY <1>1, <1>5 DEF SlotCount
  <2> QED
    BY <2>1, <1>5 DEF BufSize, Least
<1> QED
  BY <1>1, <1>2, <1>3, <1>4, <1>5

\* Each slot has its own part of the buffer.
LEMMA BufferParts ==
  \A i \in Slots :
    /\ BufAt(i) \in Nat
    /\ \/ BufAt(i) + ChunkSize <= BufSize
       \/ SlotCount = 1 /\ BufSize = FileSize /\ BufAt(i) = 0
    /\ \A k \in Slots : i < k => BufAt(i) + ChunkSize <= BufAt(k)
PROOF
<1> SUFFICES ASSUME NEW i \in Slots
             PROVE  /\ BufAt(i) \in Nat
                    /\ \/ BufAt(i) + ChunkSize <= BufSize
                       \/ SlotCount = 1 /\ BufSize = FileSize /\ BufAt(i) = 0
                    /\ \A k \in Slots : i < k => BufAt(i) + ChunkSize <= BufAt(k)
  OBVIOUS
<1>1. SlotCount \in Nat /\ i \in Nat /\ 1 <= i /\ i <= SlotCount
  BY BufferFits DEF Slots
<1>2. (i - 1) * ChunkSize \in Nat /\ (i - 1) * ChunkSize + ChunkSize = i * ChunkSize
  BY <1>1
<1>3. i * ChunkSize <= SlotCount * ChunkSize
  BY <1>1, MulMono
<1>4. ASSUME NEW k \in Slots, i < k
      PROVE  BufAt(i) + ChunkSize <= BufAt(k)
  <2>1. k - 1 \in Nat /\ i <= k - 1
    BY <1>1, <1>4 DEF Slots
  <2>2. i * ChunkSize <= (k - 1) * ChunkSize
    BY <2>1, <1>1, MulMono
  <2> QED
    BY <2>2, <1>2 DEF BufAt
<1>5. \/ BufAt(i) + ChunkSize <= BufSize
      \/ SlotCount = 1 /\ BufSize = FileSize /\ BufAt(i) = 0
  BY <1>1, <1>2, <1>3, BufferFits DEF BufAt
<1> QED
  BY <1>2, <1>4, <1>5 DEF BufAt

-----------------------------------------------------------------------------
(* Helpers of the handlers.                                                *)

Jobs == [st : {"idle", "paused", "read", "write", "mute"}, off : Nat, pos : Nat, len : Nat, nb : Nat]

\* singleRead returns a slot that is idle, or carries the chunk it was given.
LEMMA SingleReadShape ==
  ASSUME NEW off \in Nat, NEW pos \in Nat, NEW len \in Nat
  PROVE  LET j == SingleRead(off, pos, len) IN
         /\ j \in Jobs
         /\ j.nb = 0 /\ j.st # "write"
         /\ j.st # "idle" => j.off = off /\ j.pos = pos /\ j.len = len
  BY DEF SingleRead, Ask, Jobs, Job, Idle

\* A chunk handed out at an offset inside the file is not empty, is at most
\* ChunkSize long and ends inside the file.
LEMMA ChunkInFile ==
  ASSUME NEW pos \in Nat, pos < FileSize
  PROVE  ChunkAt(pos) \in 1 .. ChunkSize /\ pos + ChunkAt(pos) <= FileSize
  BY DEF ChunkAt

\* Sending a message keeps the log a log and adds at most that message.
LEMMA SendShape ==
  ASSUME NEW m \in {"end", "err"}, msgs \in Seq({"end", "err"}), Send(m)
  PROVE  /\ msgs' \in Seq({"end", "err"})
         /\ Reported("end")' => Reported("end") \/ m = "end"
  BY DEF Send, Reported

\* The copy's onerror: what it does to the outcome.
LEMMA OnErrorShape ==
  ASSUME NEW h, NEW failed \in BOOLEAN, msgs \in Seq({"end", "err"}), OnError(h, failed)
  PROVE  /\ hadError' = TRUE /\ closeErr' = failed /\ toClose' \subseteq Sides
         /\ msgs' \in Seq({"end", "err"})
         /\ Reported("end")' => Reported("end") \/ failed = FALSE
<1>1. toClose' \subseteq Sides
  BY DEF OnError, Closable
<1>2. msgs' = msgs \/ (failed = TRUE /\ Send("err")) \/ (failed = FALSE /\ Send("end"))
  BY DEF OnError
<1>3. /\ msgs' \in Seq({"end", "err"})
      /\ Reported("end")' => Reported("end") \/ failed = FALSE
  <2>1. CASE msgs' = msgs
    BY <2>1 DEF Reported
  <2>2. CASE failed = TRUE /\ Send("err")
    BY <2>2, SendShape
  <2>3. CASE failed = FALSE /\ Send("end")
    BY <2>3, SendShape
  <2> QED
    BY <1>2, <2>1, <2>2, <2>3
<1> QED
  BY <1>1, <1>3 DEF OnError

\* A file has as many offsets as its size.
LEMMA OffsetsFinite == IsFiniteSet(Offsets) /\ Cardinality(Offsets) = FileSize
  BY FS_Interval DEF Offsets

\* The offsets in place are a finite set no larger than the file.
LEMMA PassedFinite ==
  /\ IsFiniteSet(Passed) /\ Cardinality(Passed) \in Nat
  /\ Cardinality(Passed) >= FileSize => Passed = Offsets
<1>1. IsFiniteSet(Offsets) /\ Cardinality(Offsets) = FileSize
  BY OffsetsFinite
<1>2. Passed \subseteq Offsets
  BY DEF Passed
<1> QED
  BY <1>1, <1>2, FS_Subset, FS_CardinalityType

-----------------------------------------------------------------------------
(* Steps that leave the copy alone.                                        *)

\* Steps of the open chain, the client and the connection keep CopyInv: they
\* move neither bytes nor slots, and report no end of a file's copy.
LEMMA ChainKeepsInv ==
  ASSUME CopyInv, TypeOK',
         UNCHANGED <<kind, dir, job, next, total, buf, dst, short, hadError, toClose, closeErr>>,
         pc' = pc \/ (pc # "copy" /\ pc' \notin {"copy", "scp"}
                      /\ (pc' = "stop" \/ pc \notin {"copy", "stop"})),
         pc' = "chmod" => pc = "chmod" \/ FileSize > 0,
         Reported("end")' => Reported("end") \/ kind # "file"
  PROVE  CopyInv'
<1> USE DEF CopyInv
<1>1. Layout' /\ ChunksApart' /\ Loaded'
  BY DEF Layout, ChunksApart, Loaded, Taken
<1>2. Passed' = Passed
  BY DEF Passed, Acked, InChunk, Taken
<1>3. Counting'
  BY <1>2 DEF Counting
<1>4. AllIdle' = AllIdle /\ AllAcked' = AllAcked
  BY DEF AllIdle, AllAcked, Acked, Taken
<1>5. Phases'
  BY <1>4 DEF Phases
<1>6. Ending'
  BY <1>4 DEF Ending
<1> QED
  BY <1>1, <1>3, <1>5, <1>6

\* The open chain before the copy, and its failures.
LEMMA OpenStep ==
  ASSUME CopyInv,
         \/ ChannelOpened \/ ChannelFailed \/ SourceOpened \/ SourceOpenFailed
         \/ Statted \/ FstatFailed \/ StatFailed \/ DestOpenFailed
  PROVE  CopyInv'
<1> USE DEF chain, copy, final, ctl
<1>1. TypeOK
  BY DEF CopyInv
<1>2. CASE ChannelOpened
  <2>1. TypeOK'
    BY <1>1, <1>2 DEF TypeOK, TypeChain, TypeCopy, TypeFinal, TypeCtl, ChannelOpened
  <2> QED
    BY <1>2, <2>1, ChainKeepsInv DEF ChannelOpened, Reported
<1>3. CASE ChannelFailed
  <2>1. TypeOK'
    BY <1>1, <1>3 DEF TypeOK, TypeChain, TypeCopy, TypeFinal, TypeCtl, ChannelFailed, Ask
  <2> QED
    BY <1>3, <2>1, ChainKeepsInv DEF ChannelFailed, Reported, Ask
<1>4. CASE SourceOpened
  <2>1. TypeOK'
    BY <1>1, <1>4 DEF TypeOK, TypeChain, TypeCopy, TypeFinal, TypeCtl, SourceOpened, Sides
  <2> QED
    BY <1>4, <2>1, ChainKeepsInv DEF SourceOpened, Reported
<1>5. CASE Statted
  <2>1. TypeOK'
    BY <1>1, <1>5 DEF TypeOK, TypeChain, TypeCopy, TypeFinal, TypeCtl, Statted, Ask
  <2> QED
    BY <1>5, <2>1, ChainKeepsInv DEF Statted, Reported, Ask
<1>6. CASE FstatFailed
  <2>1. TypeOK'
    BY <1>1, <1>6 DEF TypeOK, TypeChain, TypeCopy, TypeFinal, TypeCtl, FstatFailed, Ask
  <2> QED
    BY <1>6, <2>1, ChainKeepsInv DEF FstatFailed, Reported, Ask
<1>7. CASE SourceOpenFailed \/ StatFailed \/ DestOpenFailed
  <2>1. /\ Send("err") /\ pc' = "stop" /\ pc # "copy"
        /\ UNCHANGED <<kind, dir, own, chanUp, ends, handle, file, copy, ctl,
                       hadError, toClose, closeErr, ws>>
    BY <1>7 DEF SourceOpenFailed, StatFailed, DestOpenFailed, Fail
  <2>2. msgs' \in Seq({"end", "err"}) /\ (Reported("end")' => Reported("end"))
    BY <1>1, <2>1, SendShape DEF TypeOK, TypeChain, TypeCopy, TypeFinal, TypeCtl
  <2>3. TypeOK'
    BY <1>1, <2>1, <2>2 DEF TypeOK, TypeChain, TypeCopy, TypeFinal, TypeCtl
  <2> QED
    BY <2>1, <2>2, <2>3, ChainKeepsInv
<1> QED
  BY <1>2, <1>3, <1>4, <1>5, <1>6, <1>7

\* The engines for SSH without SFTP and for folders report for other kinds.
LEMMA EngineStep == ASSUME CopyInv, EngineDone PROVE CopyInv'
<1> USE DEF chain, copy, final, ctl
<1>1. TypeOK /\ kind # "file"
  BY DEF CopyInv, Phases, EngineDone
<1>2. PICK m \in {"end", "err"} : Send(m)
  BY DEF EngineDone
<1>3. msgs' \in Seq({"end", "err"})
  BY <1>1, <1>2, SendShape DEF TypeOK, TypeChain, TypeCopy, TypeFinal, TypeCtl
<1>4. TypeOK'
  BY <1>1, <1>3 DEF TypeOK, TypeChain, TypeCopy, TypeFinal, TypeCtl, EngineDone
<1> QED
  BY <1>1, <1>4, ChainKeepsInv DEF EngineDone

\* Pausing, resuming, the kill timer, a lost connection, a shrinking source.
LEMMA OutsideStep ==
  ASSUME CopyInv, Pause \/ Resume \/ Kill \/ ChannelLost \/ Truncate
  PROVE  CopyInv'
<1> USE DEF chain, copy, final, ctl
<1>1. TypeOK
  BY DEF CopyInv
<1>2. UNCHANGED <<kind, dir, pc, job, next, total, buf, dst, short, hadError, toClose, closeErr, msgs>>
  BY DEF Pause, Resume, Kill, ChannelLost, Truncate
<1>3. TypeOK'
  <2>1. CASE Pause \/ Resume
    <3>1. TypeChain' /\ TypeCopy' /\ TypeFinal'
      BY <2>1, <1>1 DEF Pause, Resume, TypeOK, TypeChain, TypeCopy, TypeFinal
    <3>2. TypeCtl'
      BY <2>1, <1>1 DEF Pause, Resume, TypeOK, TypeCtl
    <3> QED
      BY <3>1, <3>2 DEF TypeOK
  <2>2. CASE Kill
    <3>1. TypeChain'
      BY <2>2, <1>1 DEF Kill, TypeOK, TypeChain
    <3>2. TypeCopy' /\ TypeFinal' /\ TypeCtl'
      BY <2>2, <1>1 DEF Kill, TypeOK, TypeCopy, TypeFinal, TypeCtl
    <3> QED
      BY <3>1, <3>2 DEF TypeOK
  <2>3. CASE ChannelLost
    <3>1. TypeChain'
      BY <2>3, <1>1 DEF ChannelLost, TypeOK, TypeChain, Sides, SftpSide
    <3>2. TypeCopy' /\ TypeFinal' /\ TypeCtl'
      BY <2>3, <1>1 DEF ChannelLost, TypeOK, TypeCopy, TypeFinal, TypeCtl
    <3> QED
      BY <3>1, <3>2 DEF TypeOK
  <2>4. CASE Truncate
    <3>1. TypeCopy'
      BY <2>4, <1>1, ShrunkAssumption DEF Truncate, TypeOK, TypeCopy
    <3>2. TypeChain' /\ TypeFinal' /\ TypeCtl'
      BY <2>4, <1>1 DEF Truncate, TypeOK, TypeChain, TypeFinal, TypeCtl
    <3> QED
      BY <3>1, <3>2 DEF TypeOK
  <2> QED
    BY <2>1, <2>2, <2>3, <2>4
<1> QED
  BY <1>2, <1>3, ChainKeepsInv DEF Reported

-----------------------------------------------------------------------------
(* Steps on the slots that move no byte of the destination.                *)

\* Slots that keep their chunk or give it up keep the layout and the count.
LEMMA KeepChunks ==
  ASSUME CopyInv, TypeOK', next' = next, dst' = dst, short' = short, total' = total, hadError' = hadError,
         \A i \in Slots : Taken(i)' =>
           /\ Taken(i) /\ job'[i].off = job[i].off /\ job'[i].pos = job[i].pos
           /\ job'[i].len = job[i].len /\ job'[i].nb <= job'[i].len
  PROVE  Layout' /\ ChunksApart' /\ Counting'
<1>1. Layout'
  BY DEF CopyInv, Layout, BufAt, BufSize, SlotCount, Least
<1>2. ChunksApart'
  BY DEF CopyInv, ChunksApart
<1>3. Passed \subseteq Passed'
  BY DEF Passed, Acked, InChunk
<1>4. TypeOK /\ Counting
  BY DEF CopyInv
<1>5. Passed' \subseteq Offsets /\ IsFiniteSet(Offsets)
  <2>1. Passed' \subseteq Offsets
    BY DEF Passed, Offsets
  <2>2. IsFiniteSet(Offsets)
    BY OffsetsFinite
  <2> QED
    BY <2>1, <2>2
<1>6. IsFiniteSet(Passed') /\ Cardinality(Passed') \in Nat
  BY <1>5, FS_Subset, FS_CardinalityType
<1>7. Cardinality(Passed) <= Cardinality(Passed')
  BY <1>3, <1>6, FS_Subset
<1>8. Cardinality(Passed) \in Nat
  BY PassedFinite
<1>9. Counting'
  BY <1>4, <1>6, <1>7, <1>8 DEF Counting, TypeOK, TypeChain, TypeCopy, TypeFinal, TypeCtl
<1> QED
  BY <1>1, <1>2, <1>9

\* The timer of a paused slot.
LEMMA PollStep == ASSUME CopyInv, NEW i \in Slots, Poll(i) PROVE CopyInv'
<1> USE DEF chain, copy, final, ctl
<1> DEFINE j == job[i]
<1>1. TypeOK /\ j \in Jobs /\ Taken(i) /\ j.st = "paused"
  BY DEF CopyInv, TypeOK, TypeChain, TypeCopy, TypeFinal, TypeCtl, Jobs, Poll, Taken
<1>2. job' = [job EXCEPT ![i] = SingleRead(j.off, j.pos, j.len)]
  BY DEF Poll
<1>3. /\ SingleRead(j.off, j.pos, j.len) \in Jobs
      /\ job'[i] \in Jobs /\ job'[i].nb = 0 /\ job'[i].st # "write"
      /\ job'[i].st # "idle" =>
           job'[i].off = j.off /\ job'[i].pos = j.pos /\ job'[i].len = j.len
  <2>1. j.off \in Nat /\ j.pos \in Nat /\ j.len \in Nat
    BY <1>1 DEF Jobs
  <2>2. job'[i] = SingleRead(j.off, j.pos, j.len)
    BY <1>1, <1>2 DEF TypeOK, TypeChain, TypeCopy, TypeFinal, TypeCtl
  <2>3. LET q == SingleRead(j.off, j.pos, j.len) IN
        /\ q \in Jobs /\ q.nb = 0 /\ q.st # "write"
        /\ q.st # "idle" => q.off = j.off /\ q.pos = j.pos /\ q.len = j.len
    <3> HIDE DEF j
    <3> QED
      BY <2>1, SingleReadShape
  <2> QED
    BY <2>2, <2>3
<1>4. TypeOK'
  BY <1>1, <1>2, <1>3 DEF TypeOK, TypeChain, TypeCopy, TypeFinal, TypeCtl, Poll, Jobs
<1>5. \A k \in Slots : Taken(k)' =>
        /\ Taken(k) /\ job'[k].off = job[k].off /\ job'[k].pos = job[k].pos
        /\ job'[k].len = job[k].len /\ job'[k].nb <= job'[k].len
  <2> SUFFICES ASSUME NEW k \in Slots, Taken(k)'
               PROVE  /\ Taken(k) /\ job'[k].off = job[k].off /\ job'[k].pos = job[k].pos
                      /\ job'[k].len = job[k].len /\ job'[k].nb <= job'[k].len
    OBVIOUS
  <2>1. CASE k = i
    <3>1. j.len \in 1 .. ChunkSize /\ j.nb \in Nat
      BY <1>1 DEF CopyInv, Layout, Jobs
    <3>2. 0 <= j.len
      BY <3>1, XferAssumption
    <3> QED
      BY <1>1, <1>3, <2>1, <3>2 DEF Taken
  <2>2. CASE k # i
    <3>1. job'[k] = job[k]
      BY <1>1, <1>2, <2>2 DEF TypeOK, TypeCopy
    <3> QED
      BY <2>2, <3>1 DEF Taken, CopyInv, Layout
  <2> QED
    BY <2>1, <2>2
<1>6. Layout' /\ ChunksApart' /\ Counting'
  BY <1>4, <1>5, KeepChunks DEF Poll
<1>7. Loaded'
  BY <1>1, <1>2, <1>3 DEF TypeOK, TypeChain, TypeCopy, TypeFinal, TypeCtl, CopyInv, Loaded, Poll
<1>8. Phases' /\ Ending'
  BY <1>1, <1>5 DEF CopyInv, Phases, Ending, AllIdle, Poll, AllAcked, Acked, Reported
<1> QED
  BY <1>4, <1>6, <1>7, <1>8 DEF CopyInv

\* Destroy clears the timers of paused slots and silences the transfer.
LEMMA DestroyStep == ASSUME CopyInv, Destroy PROVE CopyInv'
<1> USE DEF chain, copy, final, ctl
<1>1. TypeOK
  BY DEF CopyInv
<1>2. Idle \in Jobs /\ Idle.st = "idle"
  BY DEF Idle, Job, Jobs
<1>3. TypeOK'
  <2>1. job' \in [Slots -> Jobs]
    <3>1. job \in [Slots -> Jobs]
      BY <1>1 DEF TypeOK, TypeCopy, Jobs
    <3>2. job' = [i \in Slots |-> IF job[i].st = "paused" THEN Idle ELSE job[i]]
      BY DEF Destroy
    <3> QED
      BY <1>2, <3>1, <3>2
  <2>2. TypeCopy'
    <3>1. UNCHANGED <<next, total, buf, dst, short, srcLen>>
      BY DEF Destroy
    <3> QED
      BY <1>1, <2>1, <3>1 DEF TypeOK, TypeCopy, Jobs, BufSize, SlotCount
  <2>3. TypeChain'
    BY <1>1 DEF TypeOK, TypeChain, Destroy
  <2>4. TypeFinal' /\ TypeCtl'
    <3>1. /\ UNCHANGED <<hadError, toClose, closeErr, msgs, pausing>>
          /\ destroyed' = TRUE /\ killTimer' = "armed" /\ ws' = FALSE
      BY DEF Destroy
    <3> QED
      BY <1>1, <3>1 DEF TypeOK, TypeFinal, TypeCtl
  <2> QED
    BY <2>2, <2>3, <2>4 DEF TypeOK
<1>4. \A k \in Slots : Taken(k)' => job'[k] = job[k] /\ Taken(k)
  BY <1>1, <1>2 DEF TypeOK, TypeChain, TypeCopy, TypeFinal, TypeCtl, Taken, Destroy
<1>5. \A k \in Slots : Taken(k)' =>
        /\ Taken(k) /\ job'[k].off = job[k].off /\ job'[k].pos = job[k].pos
        /\ job'[k].len = job[k].len /\ job'[k].nb <= job'[k].len
  BY <1>4 DEF CopyInv, Layout
<1>6. Layout' /\ ChunksApart' /\ Counting'
  BY <1>3, <1>5, KeepChunks DEF Destroy
<1>7. Loaded'
  BY <1>1, <1>2 DEF TypeOK, TypeChain, TypeCopy, TypeFinal, TypeCtl, CopyInv, Loaded, Destroy
<1>8. Phases' /\ Ending'
  BY <1>4 DEF CopyInv, Phases, Ending, AllIdle, Destroy, AllAcked, Acked, Reported
<1> QED
  BY <1>3, <1>6, <1>7, <1>8 DEF CopyInv

\* A close is answered; the last one reports what onerror was told.
LEMMA CloseStep == ASSUME CopyInv, NEW s \in Sides, CloseDone(s) PROVE CopyInv'
<1> USE DEF chain, copy, final, ctl
<1>1. TypeOK /\ hadError
  BY DEF CopyInv, Phases, CloseDone
<1>2. /\ msgs' \in Seq({"end", "err"})
      /\ Reported("end")' => Reported("end") \/ ~closeErr
  <2>1. msgs' = msgs \/ (closeErr /\ Send("err")) \/ (~closeErr /\ Send("end"))
    BY DEF CloseDone
  <2>2. CASE msgs' = msgs
    BY <1>1, <2>2 DEF TypeOK, TypeChain, TypeCopy, TypeFinal, TypeCtl, Reported
  <2>3. CASE closeErr /\ Send("err")
    BY <1>1, <2>3, SendShape DEF TypeOK, TypeChain, TypeCopy, TypeFinal, TypeCtl
  <2>4. CASE ~closeErr /\ Send("end")
    BY <1>1, <2>4, SendShape DEF TypeOK, TypeChain, TypeCopy, TypeFinal, TypeCtl
  <2> QED
    BY <2>1, <2>2, <2>3, <2>4
<1>3. TypeOK'
  BY <1>1, <1>2 DEF TypeOK, TypeChain, TypeCopy, TypeFinal, TypeCtl, CloseDone, Sides
<1>4. Layout' /\ ChunksApart' /\ Loaded' /\ Counting'
  BY <1>1 DEF CloseDone, CopyInv, Layout, ChunksApart, Loaded, Taken, Counting
<1>5. Phases' /\ Ending'
  BY <1>1, <1>2 DEF CloseDone, CopyInv, Phases, Ending, AllIdle, Taken, AllAcked, Acked
<1> QED
  BY <1>3, <1>4, <1>5 DEF CopyInv

\* startReads from a transfer that has not begun to copy.
LEMMA StartStep ==
  ASSUME CopyInv, StartReads, FileSize > 0, pc \in {"openDst", "chmod"},
         TypeChain', TypeFinal', TypeCtl',
         UNCHANGED <<kind, dir, hadError, toClose, closeErr, msgs>>
  PROVE  CopyInv'
<1>1. TypeOK /\ total = 0 /\ ~hadError
  BY DEF CopyInv, Phases
<1> DEFINE q(i) == SingleRead(BufAt(i), (i - 1) * ChunkSize, ChunkAt((i - 1) * ChunkSize))
<1>2. ASSUME NEW i \in Slots
      PROVE  /\ BufAt(i) = (i - 1) * ChunkSize /\ BufAt(i) \in Nat
             /\ ChunkAt(BufAt(i)) \in 1 .. ChunkSize
             /\ BufAt(i) + ChunkAt(BufAt(i)) <= BufSize
  <2>1. BufAt(i) \in Nat /\ BufSize \in Nat /\ BufSize <= FileSize
    BY BufferParts, BufferFits
  <2>2. BufAt(i) < FileSize
    BY <2>1, BufferParts
  <2>3. ChunkAt(BufAt(i)) \in 1 .. ChunkSize /\ BufAt(i) + ChunkAt(BufAt(i)) <= FileSize
    BY <2>1, <2>2, ChunkInFile
  <2>4. BufAt(i) + ChunkAt(BufAt(i)) <= BufSize
    BY <2>1, <2>3, BufferParts
  <2> QED
    BY <2>1, <2>3, <2>4 DEF BufAt
<1>3. ASSUME NEW i \in Slots
      PROVE  /\ job'[i] = q(i) /\ job'[i] \in Jobs /\ job'[i].nb = 0 /\ job'[i].st # "write"
             /\ job'[i].st # "idle" => /\ job'[i].off = BufAt(i) /\ job'[i].pos = BufAt(i)
                                       /\ job'[i].len = ChunkAt(BufAt(i))
  <2>1. job'[i] = SingleRead(BufAt(i), BufAt(i), ChunkAt(BufAt(i)))
    BY <1>2 DEF StartReads
  <2>2. BufAt(i) \in Nat /\ ChunkAt(BufAt(i)) \in Nat
    BY <1>2
  <2>3. q(i) = SingleRead(BufAt(i), BufAt(i), ChunkAt(BufAt(i)))
    BY <1>2
  <2> HIDE DEF q
  <2>4. LET x == SingleRead(BufAt(i), BufAt(i), ChunkAt(BufAt(i))) IN
        /\ x \in Jobs /\ x.nb = 0 /\ x.st # "write"
        /\ x.st # "idle" => x.off = BufAt(i) /\ x.pos = BufAt(i) /\ x.len = ChunkAt(BufAt(i))
    BY <2>2, SingleReadShape
  <2> QED
    BY <2>1, <2>3, <2>4
<1> HIDE DEF q
<1>4. TypeOK'
  <2>1. job' \in [Slots -> Jobs]
    BY <1>3 DEF StartReads
  <2>2. next' \in Nat
    BY BufferFits DEF StartReads
  <2> QED
    BY <1>1, <2>1, <2>2 DEF TypeOK, TypeCopy, StartReads, Jobs
<1>5. Layout'
  BY <1>2, <1>3 DEF Layout, Taken, StartReads, BufAt, BufSize, SlotCount, Least
<1>6. ChunksApart'
  <2>1. ASSUME NEW i \in Slots, NEW k \in Slots, i < k, Taken(i)', Taken(k)'
        PROVE  job'[i].pos + job'[i].len <= job'[k].pos
    <3>1. BufAt(i) + ChunkSize <= BufAt(k)
      BY <2>1, BufferParts
    <3> QED
      BY <1>2, <1>3, <2>1, <3>1 DEF Taken
  <2> QED
    BY <2>1, BufferFits DEF ChunksApart, Slots
<1>7. Loaded'
  BY <1>3 DEF Loaded
<1>8. Counting'
  <2>1. Passed' \subseteq Offsets
    BY DEF Passed, Offsets
  <2>2. IsFiniteSet(Passed') /\ Cardinality(Passed') \in Nat
    BY <2>1, OffsetsFinite, FS_Subset, FS_CardinalityType
  <2> QED
    BY <1>1, <2>2 DEF Counting, StartReads
<1>9. Phases' /\ Ending'
  BY <1>1, BufferFits DEF CopyInv, Phases, Ending, StartReads, Reported
<1> QED
  BY <1>4, <1>5, <1>6, <1>7, <1>8, <1>9 DEF CopyInv

\* onDstOpen, whatever it finds.
LEMMA DestStep == ASSUME CopyInv, DestOpened PROVE CopyInv'
<1> USE DEF chain, copy, final, ctl
<1>1. TypeOK /\ pc = "openDst" /\ AllIdle
  BY DEF CopyInv, DestOpened, Phases
<1>2. TypeChain' /\ TypeCtl'
  <2>1. handle' \in [Sides -> BOOLEAN] /\ file' \in [Sides -> {"none", "open", "closed"}]
    BY <1>1 DEF DestOpened, TypeOK, TypeChain, TypeCtl
  <2>2. pc' \in {"stop", "chmod", "copy"}
    BY DEF DestOpened, Fail, StartReads
  <2> QED
    BY <1>1, <2>1, <2>2 DEF DestOpened, TypeOK, TypeChain, TypeCtl
<1>3. CASE destroyed /\ pc' = "stop" /\ UNCHANGED <<copy, hadError, toClose, closeErr, msgs>>
  <2>1. TypeOK'
    BY <1>1, <1>2, <1>3 DEF TypeOK, TypeCopy, TypeFinal, DestOpened
  <2> QED
    BY <1>1, <1>3, <2>1, ChainKeepsInv DEF DestOpened, Reported
<1>4. CASE FileSize = 0 /\ OnError(handle', FALSE) /\ pc' = "stop" /\ UNCHANGED copy
  <2>1. /\ hadError' = TRUE /\ closeErr' = FALSE /\ toClose' \subseteq Sides
        /\ msgs' \in Seq({"end", "err"})
    BY <1>1, <1>4, OnErrorShape DEF TypeOK, TypeFinal
  <2>2. TypeOK'
    BY <1>1, <1>2, <1>4, <2>1 DEF TypeOK, TypeCopy, TypeFinal, DestOpened
  <2>3. Layout' /\ ChunksApart' /\ Loaded' /\ Counting'
    BY <1>1, <1>4, <2>1 DEF CopyInv, Layout, ChunksApart, Loaded, Counting, AllIdle, Taken
  <2>4. AllAcked' /\ AllIdle'
    BY <1>1, <1>4 DEF AllAcked, Offsets, AllIdle, Taken
  <2> QED
    BY <1>1, <1>4, <2>1, <2>2, <2>3, <2>4 DEF CopyInv, Phases, Ending, DestOpened
<1>5. CASE Fail /\ UNCHANGED <<copy, hadError, toClose, closeErr>>
  <2>1. msgs' \in Seq({"end", "err"}) /\ (Reported("end")' => Reported("end"))
    BY <1>1, <1>5, SendShape DEF TypeOK, TypeFinal, Fail
  <2>2. TypeOK'
    BY <1>1, <1>2, <1>5, <2>1 DEF TypeOK, TypeCopy, TypeFinal, DestOpened
  <2> QED
    BY <1>1, <1>5, <2>1, <2>2, ChainKeepsInv DEF DestOpened, Fail
<1>6. CASE pc' = "chmod" /\ UNCHANGED <<copy, hadError, toClose, closeErr, msgs>>
  <2>1. TypeOK'
    BY <1>1, <1>2, <1>6 DEF TypeOK, TypeCopy, TypeFinal, DestOpened
  <2> QED
    BY <1>1, <1>6, <2>1, ChainKeepsInv DEF DestOpened, Reported
<1>7. CASE FileSize > 0 /\ StartReads /\ UNCHANGED <<hadError, toClose, closeErr, msgs>>
  <2>1. TypeFinal'
    BY <1>1, <1>7 DEF TypeOK, TypeFinal, DestOpened
  <2> QED
    BY <1>1, <1>2, <1>7, <2>1, StartStep DEF DestOpened
<1> QED
  BY <1>3, <1>4, <1>5, <1>6, <1>7 DEF DestOpened

\* chmod answers; the file is not empty, as onDstOpen saw.
LEMMA ChmodStep == ASSUME CopyInv, ChmodDone PROVE CopyInv'
<1> USE DEF chain, copy, final, ctl
<1>1. TypeOK /\ pc = "chmod"
  BY DEF CopyInv, ChmodDone
<1>2. TypeChain' /\ TypeFinal' /\ TypeCtl'
  BY <1>1 DEF ChmodDone, StartReads, TypeOK, TypeChain, TypeFinal, TypeCtl
<1>3. FileSize > 0
  BY <1>1 DEF CopyInv, Phases
<1>4. CASE StartReads
  BY <1>1, <1>2, <1>3, <1>4, StartStep DEF ChmodDone
<1>5. CASE pc' = "mute" /\ UNCHANGED copy
  <2>1. TypeOK'
    BY <1>1, <1>2, <1>5 DEF TypeOK, TypeCopy
  <2> QED
    BY <1>1, <1>5, <2>1, ChainKeepsInv DEF ChmodDone, Reported
<1> QED
  BY <1>4, <1>5 DEF ChmodDone

-----------------------------------------------------------------------------
(* Reads and writes.                                                       *)

\* The parts of the buffer of two slots in flight do not meet.
LEMMA BuffersApart ==
  ASSUME TypeOK, Layout, NEW i \in Slots, NEW k \in Slots, i # k, Taken(i), Taken(k)
  PROVE  \/ job[i].off + job[i].len <= job[k].off
         \/ job[k].off + job[k].len <= job[i].off
<1>1. /\ job[i].off = BufAt(i) /\ job[i].len \in 1 .. ChunkSize
      /\ job[k].off = BufAt(k) /\ job[k].len \in 1 .. ChunkSize
  BY DEF Layout
<1>2. i \in Nat /\ k \in Nat
  BY BufferFits DEF Slots
<1>3. CASE i < k
  BY <1>1, <1>3, BufferParts
<1>4. CASE k < i
  BY <1>1, <1>4, BufferParts
<1> QED
  BY <1>2, <1>3, <1>4

\* A read fills its slot's part of the buffer with the bytes it was asked for.
LEMMA ReadStep == ASSUME CopyInv, NEW i \in Slots, ReadDone(i) PROVE CopyInv'
<1> USE DEF chain, copy, final, ctl
<1> DEFINE j == job[i]
<1>1. TypeOK /\ j \in Jobs /\ Taken(i) /\ j.st = "read"
  BY DEF CopyInv, TypeOK, TypeCopy, Jobs, ReadDone, Taken
<1>2. PICK nb \in (IF j.pos < srcLen THEN 1 .. Least(j.len, srcLen - j.pos) ELSE {0}) :
        /\ buf' = [b \in DOMAIN buf |->
                     IF b \in j.off .. j.off + nb - 1 THEN j.pos + (b - j.off) ELSE buf[b]]
        /\ job' = [job EXCEPT ![i] = IF hadError \/ destroyed THEN Idle
                                     ELSE Job(Ask("dst", "write"), j.off, j.pos, j.len, nb)]
  BY DEF ReadDone
<1>3. /\ j.off \in Nat /\ j.pos \in Nat /\ j.len \in Nat /\ srcLen \in Nat
      /\ next \in Nat /\ next <= FileSize
      /\ j.off = BufAt(i) /\ j.off + j.len <= BufSize /\ j.pos + j.len <= next
  BY <1>1 DEF CopyInv, TypeOK, TypeCopy, Jobs, Layout, Phases
<1>4. nb \in Nat /\ nb <= j.len
  BY <1>3, <1>2 DEF Least
<1> DEFINE w == Job(Ask("dst", "write"), j.off, j.pos, j.len, nb)
<1>5. /\ w \in Jobs /\ Idle \in Jobs /\ Idle.st = "idle"
      /\ w.off = j.off /\ w.pos = j.pos /\ w.len = j.len /\ w.nb = nb
  BY <1>3, <1>4 DEF Job, Idle, Jobs, Ask
<1>6. /\ job' \in [Slots -> Jobs]
      /\ \A k \in Slots \ {i} : job'[k] = job[k]
      /\ job'[i] = Idle \/ job'[i] = w
  BY <1>1, <1>2, <1>5 DEF TypeOK, TypeCopy, Jobs
<1> HIDE DEF w
<1>7. TypeOK'
  <2>1. buf' \in [0 .. BufSize - 1 -> Offsets \cup {None}]
    <3>1. \A b \in j.off .. j.off + nb - 1 : j.pos + (b - j.off) \in Offsets
      BY <1>3, <1>4 DEF Offsets
    <3>2. DOMAIN buf = 0 .. BufSize - 1
          /\ \A b \in 0 .. BufSize - 1 : buf[b] \in Offsets \cup {None}
      BY <1>1 DEF TypeOK, TypeCopy
    <3> HIDE DEF j
    <3> QED
      BY <1>2, <3>1, <3>2
  <2>2. TypeCopy'
    BY <1>1, <1>6, <2>1 DEF ReadDone, TypeOK, TypeCopy, Jobs
  <2>3. TypeChain' /\ TypeFinal' /\ TypeCtl'
    BY <1>1 DEF ReadDone, TypeOK, TypeChain, TypeFinal, TypeCtl
  <2> QED
    BY <2>2, <2>3 DEF TypeOK
<1>8. \A k \in Slots : Taken(k)' =>
        /\ Taken(k) /\ job'[k].off = job[k].off /\ job'[k].pos = job[k].pos
        /\ job'[k].len = job[k].len /\ job'[k].nb <= job'[k].len
  BY <1>1, <1>4, <1>5, <1>6 DEF Taken, CopyInv, Layout
<1>9. Layout' /\ ChunksApart' /\ Counting'
  BY <1>7, <1>8, KeepChunks DEF ReadDone
<1>10. Loaded'
  <2> SUFFICES ASSUME NEW k \in Slots, job'[k].st = "write",
                      NEW b \in job'[k].off .. job'[k].off + job'[k].nb - 1
               PROVE  buf'[b] = job'[k].pos + (b - job'[k].off)
    BY DEF Loaded
  <2>1. CASE k = i
    <3>1. job'[i] = w
      BY <1>5, <1>6, <2>1
    <3>2. b \in j.off .. j.off + nb - 1 /\ b \in DOMAIN buf
      <4>1. b \in j.off .. j.off + nb - 1
        BY <1>5, <2>1, <3>1
      <4>2. DOMAIN buf = 0 .. BufSize - 1 /\ BufSize \in Nat
        BY <1>1, BufferFits DEF TypeOK, TypeCopy
      <4>3. b \in 0 .. BufSize - 1
        <5>1. j.off \in Nat /\ nb \in Nat /\ j.off + nb <= BufSize
          BY <1>3, <1>4, <4>2
        <5> HIDE DEF j
        <5> QED
          BY <4>1, <4>2, <5>1
      <4> QED
        BY <4>1, <4>2, <4>3
    <3> QED
      BY <1>2, <1>5, <2>1, <3>1, <3>2
  <2>2. CASE k # i
    <3>1. job'[k] = job[k] /\ Taken(k) /\ job[k] \in Jobs
      BY <1>1, <1>6, <2>2 DEF Taken, TypeOK, TypeCopy, Jobs
    <3>2. /\ job[k].nb <= job[k].len /\ job[k].off + job[k].len <= BufSize
          /\ job[k].off \in Nat /\ job[k].nb \in Nat /\ job[k].len \in Nat
      BY <3>1 DEF CopyInv, Layout, Jobs
    <3>3. \/ j.off + j.len <= job[k].off
          \/ job[k].off + job[k].len <= j.off
      BY <1>1, <2>2, <3>1, BuffersApart DEF CopyInv
    <3>4. b \in DOMAIN buf /\ b \notin j.off .. j.off + nb - 1
      <4>1. b \in job[k].off .. job[k].off + job[k].nb - 1
        BY <3>1
      <4>2. b \in Nat /\ job[k].off <= b /\ b < job[k].off + job[k].len
        BY <3>2, <4>1
      <4>3. b \in 0 .. BufSize - 1
        BY <3>2, <4>2, BufferFits
      <4>4. b \notin j.off .. j.off + nb - 1
        BY <1>3, <1>4, <3>2, <3>3, <4>2
      <4> QED
        BY <1>1, <4>3, <4>4 DEF TypeOK, TypeCopy
    <3>5. buf'[b] = buf[b]
      BY <1>2, <3>4
    <3> QED
      BY <3>1, <3>5 DEF CopyInv, Loaded
  <2> QED
    BY <2>1, <2>2
<1>11. Phases' /\ Ending'
  BY <1>1, <1>8 DEF CopyInv, Phases, Ending, AllIdle, ReadDone, AllAcked, Acked, Reported
<1> QED
  BY <1>7, <1>9, <1>10, <1>11 DEF CopyInv

\* A failed operation ends the copy with an error, if it had not ended.
LEMMA FailStep == ASSUME CopyInv, NEW i \in Slots, OpFailed(i) PROVE CopyInv'
<1> USE DEF chain, copy, final, ctl
<1>1. TypeOK /\ Taken(i) /\ pc = "copy"
  BY DEF CopyInv, OpFailed, Taken, Phases, AllIdle
<1>2. Idle \in Jobs /\ Idle.st = "idle"
  BY DEF Idle, Job, Jobs
<1>3. /\ job' \in [Slots -> Jobs]
      /\ \A k \in Slots : Taken(k)' => job'[k] = job[k] /\ Taken(k)
  BY <1>1, <1>2 DEF TypeOK, TypeCopy, OpFailed, Jobs, Taken
<1>4. \/ /\ hadError /\ UNCHANGED <<hadError, toClose, closeErr, msgs>>
      \/ /\ ~hadError /\ hadError' = TRUE /\ closeErr' = TRUE /\ toClose' \subseteq Sides
         /\ msgs' \in Seq({"end", "err"}) /\ (Reported("end")' => Reported("end"))
  BY <1>1, OnErrorShape DEF OpFailed, TypeOK, TypeFinal
<1>5. TypeOK'
  <2>1. UNCHANGED <<chain, next, total, buf, dst, short, srcLen, ws, ctl>>
    BY DEF OpFailed
  <2>2. TypeChain' /\ TypeCtl'
    BY <1>1, <2>1 DEF TypeOK, TypeChain, TypeCtl
  <2>3. TypeCopy'
    BY <1>1, <1>3, <2>1 DEF TypeOK, TypeCopy, Jobs, BufSize, SlotCount
  <2>4. TypeFinal'
    BY <1>1, <1>4, <2>1 DEF TypeOK, TypeFinal
  <2> QED
    BY <2>2, <2>3, <2>4 DEF TypeOK
<1>6. Layout' /\ ChunksApart'
  BY <1>3 DEF CopyInv, Layout, ChunksApart, OpFailed, BufAt, BufSize, SlotCount, Least
<1>7. Loaded'
  BY <1>1, <1>2 DEF CopyInv, Loaded, OpFailed, TypeOK, TypeCopy
<1>8. Counting'
  BY <1>4 DEF Counting
<1>9. Phases' /\ Ending'
  BY <1>1, <1>4 DEF CopyInv, Phases, Ending, AllIdle, OpFailed, Reported
<1> QED
  BY <1>5, <1>6, <1>7, <1>8, <1>9 DEF CopyInv

\* What writeCb does to its slot: give it up, go on with the rest of its chunk,
\* or take the next chunk of the file, in the slot's own part of the buffer.
LEMMA WriteSlot ==
  ASSUME CopyInv, NEW i \in Slots, WriteDone(i)
  PROVE  /\ job' \in [Slots -> Jobs] /\ (\A k \in Slots \ {i} : job'[k] = job[k])
         /\ job'[i].nb = 0 /\ job'[i].st # "write"
         /\ next' \in Nat /\ next <= next' /\ next' <= FileSize
         /\ job'[i].st # "idle" =>
              /\ job'[i].off = job[i].off /\ job'[i].off + job'[i].len <= BufSize
              /\ job'[i].len \in 1 .. ChunkSize /\ job'[i].pos + job'[i].len <= next'
              /\ \/ /\ job[i].pos + job[i].nb <= job'[i].pos
                    /\ job'[i].pos + job'[i].len <= job[i].pos + job[i].len
                 \/ next <= job'[i].pos
<1> DEFINE j == job[i]
<1>1. TypeOK /\ j \in Jobs /\ Taken(i) /\ j.st = "write"
  BY DEF CopyInv, TypeOK, TypeCopy, Jobs, WriteDone, Taken
<1>2. /\ j.off \in Nat /\ j.pos \in Nat /\ j.len \in Nat /\ j.nb \in Nat /\ j.nb <= j.len
      /\ next \in Nat /\ next <= FileSize
      /\ j.off = BufAt(i) /\ j.off + j.len <= BufSize
      /\ j.len \in 1 .. ChunkSize /\ j.pos + j.len <= next
  BY <1>1 DEF CopyInv, TypeOK, TypeCopy, Jobs, Layout, Phases
<1>3. Idle \in Jobs /\ Idle.st = "idle" /\ Idle.nb = 0
  BY DEF Idle, Job, Jobs
<1>4. ASSUME NEW q \in Jobs, job' = [job EXCEPT ![i] = q]
      PROVE  job' \in [Slots -> Jobs] /\ (\A k \in Slots \ {i} : job'[k] = job[k]) /\ job'[i] = q
  BY <1>1, <1>4 DEF TypeOK, TypeCopy, Jobs
<1>5. CASE job' = [job EXCEPT ![i] = Idle] /\ next' = next
  <2>1. job' \in [Slots -> Jobs] /\ (\A k \in Slots \ {i} : job'[k] = job[k]) /\ job'[i] = Idle
    BY <1>3, <1>4, <1>5
  <2> QED
    BY <1>2, <1>3, <1>5, <2>1
<1>6. CASE j.nb < j.len /\ job' = [job EXCEPT ![i] = Rest(j)] /\ next' = next
  <2>1. j.pos + j.nb \in Nat /\ j.len - j.nb \in Nat
    BY <1>2, <1>6
  <2>2. /\ Rest(j) \in Jobs /\ Rest(j).nb = 0 /\ Rest(j).st # "write"
        /\ Rest(j).st # "idle" =>
             Rest(j).off = j.off /\ Rest(j).pos = j.pos + j.nb /\ Rest(j).len = j.len - j.nb
    <3> DEFINE x == SingleRead(j.off, j.pos + j.nb, j.len - j.nb)
    <3>1. Rest(j) = x
      BY DEF Rest
    <3>2. /\ x \in Jobs /\ x.nb = 0 /\ x.st # "write"
          /\ x.st # "idle" => x.off = j.off /\ x.pos = j.pos + j.nb /\ x.len = j.len - j.nb
      <4>1. j.off \in Nat
        BY <1>2
      <4> HIDE DEF j
      <4> QED
        BY <4>1, <2>1, SingleReadShape
    <3> HIDE DEF x
    <3> QED
      BY <3>1, <3>2
  <2>3. job' \in [Slots -> Jobs] /\ (\A k \in Slots \ {i} : job'[k] = job[k]) /\ job'[i] = Rest(j)
    BY <1>4, <1>6, <2>2
  <2> HIDE DEF j
  <2>4. job'[i].st # "idle" =>
           /\ job'[i].off = j.off /\ job'[i].off + job'[i].len <= BufSize
           /\ job'[i].len \in 1 .. ChunkSize /\ job'[i].pos + job'[i].len <= next'
           /\ j.pos + j.nb <= job'[i].pos
           /\ job'[i].pos + job'[i].len <= j.pos + j.len
    BY <1>2, <1>6, <2>2, <2>3, BufferFits
  <2> QED
    BY <1>2, <1>6, <2>2, <2>3, <2>4 DEF j
<1>7. CASE /\ next < FileSize /\ next' = next + ChunkAt(next)
           /\ job' = [job EXCEPT ![i] = SingleRead(j.off, next, ChunkAt(next))]
  <2> DEFINE q == SingleRead(j.off, next, ChunkAt(next))
  <2>1. ChunkAt(next) \in 1 .. ChunkSize /\ next + ChunkAt(next) <= FileSize
    BY <1>2, <1>7, ChunkInFile
  <2>2. /\ q \in Jobs /\ q.nb = 0 /\ q.st # "write"
        /\ q.st # "idle" => q.off = j.off /\ q.pos = next /\ q.len = ChunkAt(next)
    <3>1. j.off \in Nat /\ next \in Nat /\ ChunkAt(next) \in Nat
      BY <1>2, <2>1
    <3> HIDE DEF j
    <3> QED
      BY <3>1, SingleReadShape
  <2> HIDE DEF q
  <2>3. job' \in [Slots -> Jobs] /\ (\A k \in Slots \ {i} : job'[k] = job[k]) /\ job'[i] = q
    BY <1>4, <1>7, <2>2 DEF q
  <2>4. j.off + ChunkAt(next) <= BufSize
    <3>1. j.off + ChunkSize <= BufSize \/ (BufSize = FileSize /\ j.off = 0)
      BY <1>2, BufferParts
    <3> QED
      BY <1>2, <2>1, <3>1, BufferFits
  <2> HIDE DEF j
  <2> QED
    BY <1>2, <1>7, <2>1, <2>2, <2>3, <2>4 DEF j
<1> QED
  BY <1>5, <1>6, <1>7 DEF WriteDone

\* What a write is told it wrote is in place or left out, and was neither before.
LEMMA WritePasses ==
  ASSUME CopyInv, NEW i \in Slots, WriteDone(i)
  PROVE  /\ IsFiniteSet(Passed') /\ Cardinality(Passed') \in Nat
         /\ Cardinality(Passed) + job[i].nb <= Cardinality(Passed')
<1> DEFINE j == job[i]
           W == j.pos .. j.pos + j.nb - 1
<1>1. TypeOK /\ j \in Jobs /\ Taken(i) /\ j.st = "write"
  BY DEF CopyInv, TypeOK, TypeCopy, Jobs, WriteDone, Taken
<1>2. /\ j.off \in Nat /\ j.pos \in Nat /\ j.len \in Nat /\ j.nb \in Nat /\ j.nb <= j.len
      /\ next \in Nat /\ next <= FileSize /\ j.pos + j.len <= next
  BY <1>1 DEF CopyInv, TypeOK, TypeCopy, Jobs, Layout, Phases
<1>3. IsFiniteSet(W) /\ Cardinality(W) = j.nb
  <2> DEFINE a == j.pos
             b == j.pos + j.nb - 1
  <2>1. a \in Int /\ b \in Int /\ (IF a > b THEN 0 ELSE b - a + 1) = j.nb
    BY <1>2
  <2>2. W = a .. b
    OBVIOUS
  <2> HIDE DEF a, b, W
  <2> QED
    BY <2>1, <2>2, FS_Interval
<1>4. Passed \cap W = {}
  BY <1>1, <1>2 DEF Passed, InChunk
<1>5. \A p \in Offsets : p \in W \/ Acked(p) => Acked(p)'
  <2>1. PICK w \in Written(j.nb) :
          /\ dst' = [p \in Offsets |-> IF p \in j.pos .. j.pos + w - 1
                                       THEN buf[j.off + (p - j.pos)] ELSE dst[p]]
          /\ short' = short \cup (j.pos + w .. j.pos + j.nb - 1)
    BY DEF WriteDone
  <2>w. w \in Nat /\ w <= j.nb
    BY <1>2, <2>1 DEF Written
  <2>s. \A p \in W : p \in j.pos .. j.pos + w - 1 \/ p \in j.pos + w .. j.pos + j.nb - 1
    BY <1>2, <2>w
  <2>r. j.pos .. j.pos + w - 1 \subseteq W
    BY <1>2, <2>w
  <2>2. ASSUME NEW p \in W PROVE buf[j.off + (p - j.pos)] = p
    <3>1. /\ j.off + (p - j.pos) \in j.off .. j.off + j.nb - 1
          /\ j.pos + ((j.off + (p - j.pos)) - j.off) = p
      BY <1>2
    <3>2. \A b \in j.off .. j.off + j.nb - 1 : buf[b] = j.pos + (b - j.off)
      BY <1>1 DEF CopyInv, Loaded
    <3> HIDE DEF j
    <3> QED
      BY <3>1, <3>2
  <2> HIDE DEF W, j
  <2> QED
    BY <2>1, <2>2, <2>s, <2>r DEF Acked
<1>6. ASSUME NEW k \in Slots, Taken(k)', NEW p \in Passed \cup W
      PROVE  ~InChunk(k, p)'
  <2>1. p \in Offsets /\ p \in Nat
    BY <1>2 DEF Passed, Offsets
  <2>2. CASE k = i /\ p \in W
    BY <1>2, <2>2, <1>6, WriteSlot DEF InChunk, Taken, Jobs
  <2>3. CASE k = i /\ p \in Passed
    <3>1. p < j.pos \/ j.pos + j.len <= p
      BY <1>1, <1>2, <2>1, <2>3 DEF Passed, InChunk
    <3>2. p < next
      BY <2>3 DEF Passed
    <3> QED
      BY <1>2, <2>1, <2>3, <3>1, <3>2, <1>6, WriteSlot DEF InChunk, Taken, Jobs
  <2>4. CASE k # i
    <3>1. job'[k] = job[k] /\ Taken(k)
      BY <1>6, <2>4, WriteSlot DEF Taken
    <3>2. CASE p \in Passed
      BY <3>1, <3>2 DEF Passed, InChunk
    <3>3. CASE p \in W
      <4>1. \/ j.pos + j.len <= job[k].pos
            \/ job[k].pos + job[k].len <= j.pos
        BY <1>1, <2>4, <3>1 DEF CopyInv, ChunksApart
      <4>2. job[k].pos \in Nat /\ job[k].len \in Nat
        BY <1>1 DEF TypeOK, TypeCopy
      <4> QED
        BY <1>2, <3>1, <3>3, <4>1, <4>2 DEF InChunk
    <3> QED
      BY <3>2, <3>3
  <2> QED
    BY <2>2, <2>3, <2>4
<1>7. Passed \cup W \subseteq Passed'
  <2>1. W \subseteq Offsets
    BY <1>2 DEF Offsets
  <2>2. \A p \in Passed \cup W : p < next /\ p \in Nat
    BY <1>2 DEF Passed, Offsets
  <2>3. \A p \in Passed \cup W : p < next'
    BY <1>2, <2>2, WriteSlot
  <2> HIDE DEF W
  <2> QED
    BY <1>5, <1>6, <2>1, <2>3 DEF Passed
<1>8. IsFiniteSet(Passed') /\ Cardinality(Passed') \in Nat
  <2>1. Passed' \subseteq Offsets
    BY DEF Passed, Offsets
  <2> QED
    BY <2>1, OffsetsFinite, FS_Subset, FS_CardinalityType
<1>9. Cardinality(Passed \cup W) = Cardinality(Passed) + j.nb
  <2> HIDE DEF W
  <2>1. Cardinality(Passed \cap W) = 0
    BY <1>4, FS_EmptySet
  <2>2. IsFiniteSet(Passed) /\ Cardinality(Passed) \in Nat
    BY PassedFinite
  <2> QED
    <3>1. j.nb \in Nat
      BY <1>2
    <3>2. Cardinality(Passed \cup W)
            = Cardinality(Passed) + Cardinality(W) - Cardinality(Passed \cap W)
      BY <1>3, <2>2, FS_Union
    <3> HIDE DEF j
    <3> QED
      BY <3>1, <3>2, <1>3, <2>1, <2>2
<1> HIDE DEF W
<1>10. Cardinality(Passed \cup W) <= Cardinality(Passed')
  BY <1>7, <1>8, FS_Subset
<1> QED
  BY <1>8, <1>9, <1>10

\* writeCb, in every case.
LEMMA WriteStep == ASSUME CopyInv, NEW i \in Slots, WriteDone(i) PROVE CopyInv'
<1> USE DEF chain, copy, final, ctl
<1> DEFINE j == job[i]
<1>1. TypeOK /\ Taken(i) /\ j.st = "write" /\ pc = "copy"
  BY DEF CopyInv, WriteDone, Taken, Phases, AllIdle
<1>2. /\ j.off \in Nat /\ j.pos \in Nat /\ j.len \in Nat /\ j.nb \in Nat /\ j.nb <= j.len
      /\ next \in Nat /\ next <= FileSize /\ j.pos + j.len <= next
      /\ j.off + j.len <= BufSize /\ total \in Nat
  BY <1>1 DEF CopyInv, TypeOK, TypeCopy, Layout, Phases
<1>3. /\ UNCHANGED <<kind, dir, pc, own, chanUp, ends, handle, file, buf, srcLen, ws,
                     pausing, destroyed, killTimer>>
      /\ \/ /\ hadError /\ job' = [job EXCEPT ![i] = Idle]
            /\ UNCHANGED <<total, next, hadError, toClose, closeErr, msgs>>
         \/ /\ ~hadError /\ total' = total + j.nb
            /\ \/ UNCHANGED <<hadError, toClose, closeErr, msgs>>
               \/ /\ total' = FileSize /\ OnError(handle, FALSE)
                  /\ job' = [job EXCEPT ![i] = Idle] /\ next' = next
  BY DEF WriteDone, Counted, Complete
<1>4. \/ hadError' = hadError /\ toClose' = toClose /\ closeErr' = closeErr /\ msgs' = msgs
      \/ /\ ~hadError /\ hadError' = TRUE /\ closeErr' = FALSE /\ toClose' \subseteq Sides
         /\ msgs' \in Seq({"end", "err"}) /\ total' = FileSize
  BY <1>1, <1>3, OnErrorShape DEF TypeOK, TypeFinal
<1>5. /\ job' \in [Slots -> Jobs] /\ (\A k \in Slots \ {i} : job'[k] = job[k])
      /\ next' \in Nat /\ next <= next' /\ next' <= FileSize
  BY WriteSlot
<1>6. TypeOK'
  <2>1. dst' \in [Offsets -> Offsets \cup {None}]
    <3>1. PICK w \in Written(j.nb) :
            dst' = [p \in Offsets |-> IF p \in j.pos .. j.pos + w - 1
                                      THEN buf[j.off + (p - j.pos)] ELSE dst[p]]
      BY DEF WriteDone
    <3>2. w \in Nat /\ w <= j.nb
      BY <1>2 DEF Written
    <3>3. \A p \in Offsets : p \in j.pos .. j.pos + w - 1 =>
             j.off + (p - j.pos) \in 0 .. BufSize - 1
      BY <1>2, <3>2, BufferFits DEF Offsets
    <3> HIDE DEF j
    <3> QED
      BY <1>1, <3>1, <3>3 DEF TypeOK, TypeCopy
  <2>s. short' \subseteq Offsets
    <3>1. PICK w \in Written(j.nb) : short' = short \cup (j.pos + w .. j.pos + j.nb - 1)
      BY DEF WriteDone
    <3>2. w \in Nat
      BY <1>2 DEF Written
    <3>3. j.pos + w .. j.pos + j.nb - 1 \subseteq Offsets
      BY <1>2, <3>2 DEF Offsets
    <3>4. short \subseteq Offsets
      BY <1>1 DEF TypeOK, TypeCopy
    <3> HIDE DEF j
    <3> QED
      BY <3>1, <3>3, <3>4
  <2>2. TypeCopy'
    <3>1. total' \in Nat
      <4>1. total' = total \/ total' = total + j.nb
        BY <1>3
      <4> QED
        BY <1>2, <4>1
    <3>2. buf' = buf /\ srcLen' = srcLen
      BY <1>3
    <3> HIDE DEF j
    <3> QED
      BY <1>1, <1>5, <2>1, <2>s, <3>1, <3>2 DEF TypeOK, TypeCopy, Jobs
  <2>3. TypeFinal'
    BY <1>1, <1>3, <1>4 DEF TypeOK, TypeFinal
  <2>4. TypeChain' /\ TypeCtl'
    BY <1>1, <1>3 DEF TypeOK, TypeChain, TypeCtl
  <2> QED
    BY <2>2, <2>3, <2>4 DEF TypeOK
<1>7. Layout'
  <2> SUFFICES ASSUME NEW k \in Slots, Taken(k)'
               PROVE  /\ job'[k].off = BufAt(k) /\ job'[k].len \in 1 .. ChunkSize
                      /\ job'[k].off + job'[k].len <= BufSize
                      /\ job'[k].pos + job'[k].len <= next' /\ job'[k].nb <= job'[k].len
    BY DEF Layout, BufAt, BufSize, SlotCount, Least
  <2>1. CASE k = i
    BY <1>1, <2>1, WriteSlot DEF Taken, CopyInv, Layout, Jobs
  <2>2. CASE k # i
    <3>1. job'[k] = job[k] /\ Taken(k) /\ job[k].pos \in Nat /\ job[k].len \in Nat
      BY <1>1, <1>5, <2>2 DEF Taken, TypeOK, TypeCopy
    <3> QED
      BY <1>2, <1>5, <3>1 DEF CopyInv, Layout
  <2> QED
    BY <2>1, <2>2
<1>8. ChunksApart'
  <2>1. ASSUME NEW k \in Slots, k # i, Taken(k)', Taken(i)'
        PROVE  \/ job'[i].pos + job'[i].len <= job'[k].pos
               \/ job'[k].pos + job'[k].len <= job'[i].pos
    <3>1. /\ job'[k] = job[k] /\ Taken(k) /\ job[k].pos \in Nat /\ job[k].len \in Nat
      BY <1>1, <1>5, <2>1 DEF Taken, TypeOK, TypeCopy
    <3>2. job[k].pos + job[k].len <= next
      BY <3>1 DEF CopyInv, Layout
    <3>3. \/ j.pos + j.len <= job[k].pos
          \/ job[k].pos + job[k].len <= j.pos
      BY <1>1, <2>1, <3>1 DEF CopyInv, ChunksApart
    <3>4. /\ job'[i].pos \in Nat /\ job'[i].len \in Nat
          /\ \/ /\ j.pos + j.nb <= job'[i].pos
                /\ job'[i].pos + job'[i].len <= j.pos + j.len
             \/ next <= job'[i].pos
      BY <1>5, <2>1, WriteSlot DEF Taken, Jobs
    <3> QED
      BY <1>2, <3>1, <3>2, <3>3, <3>4
  <2>2. ASSUME NEW k \in Slots, NEW l \in Slots, k # i, l # i, k # l, Taken(k)', Taken(l)'
        PROVE  \/ job'[k].pos + job'[k].len <= job'[l].pos
               \/ job'[l].pos + job'[l].len <= job'[k].pos
    BY <1>5, <2>2 DEF CopyInv, ChunksApart, Taken
  <2> QED
    BY <2>1, <2>2 DEF ChunksApart
<1>9. Loaded'
  <2> SUFFICES ASSUME NEW k \in Slots, job'[k].st = "write"
               PROVE  k # i /\ job'[k] = job[k]
    BY <1>3 DEF CopyInv, Loaded
  <2> QED
    BY <1>5, WriteSlot
<1>10. ~hadError => total' <= Cardinality(Passed')
  <2>1. CASE ~hadError
    <3>1. total' = total + j.nb /\ total <= Cardinality(Passed)
      BY <1>3, <2>1 DEF CopyInv, Counting
    <3>2. Cardinality(Passed) + j.nb <= Cardinality(Passed')
      BY WritePasses
    <3>3. Cardinality(Passed) \in Nat /\ Cardinality(Passed') \in Nat
      BY PassedFinite, WritePasses
    <3> QED
      BY <1>2, <3>1, <3>2, <3>3
  <2> QED
    BY <2>1
<1>11. Counting'
  BY <1>4, <1>10 DEF Counting
<1>12. ~hadError /\ total' = FileSize => AllAcked' /\ AllIdle'
  <2> SUFFICES ASSUME ~hadError, total' = FileSize PROVE AllAcked' /\ AllIdle'
    OBVIOUS
  <2>1. Passed' = Offsets
    <3>1. Passed' \subseteq Offsets
      BY DEF Passed, Offsets
    <3>2. Cardinality(Passed') >= FileSize /\ Cardinality(Passed') \in Nat
      BY <1>10, WritePasses
    <3>3. Cardinality(Passed') <= FileSize
      BY <3>1, OffsetsFinite, FS_Subset
    <3> QED
      BY <3>1, <3>2, <3>3, OffsetsFinite, FS_Subset
  <2>2. AllAcked'
    BY <2>1 DEF AllAcked, Passed
  <2>3. ASSUME NEW k \in Slots, Taken(k)'
        PROVE  FALSE
    <3>1. /\ job'[k].pos \in Nat /\ job'[k].len \in 1 .. ChunkSize
          /\ job'[k].pos + job'[k].len <= next'
      BY <1>5, <1>7, <2>3 DEF Layout, Jobs
    <3>2. job'[k].pos \in Offsets
      BY <1>5, <3>1 DEF Offsets
    <3>3. ASSUME NEW p \in Offsets PROVE ~(job'[k].pos <= p /\ p < job'[k].pos + job'[k].len)
      BY <2>1, <2>3 DEF Passed, InChunk
    <3> QED
      BY <3>1, <3>2, <3>3
  <2> QED
    BY <2>2, <2>3 DEF AllIdle
<1>13. Phases'
  BY <1>1, <1>3, <1>4, <1>5 DEF CopyInv, Phases
<1>s. dir = "upload" => short' = {}
  <2>1. dir = "upload" => short' = short
    <3>1. PICK w \in Written(j.nb) : short' = short \cup (j.pos + w .. j.pos + j.nb - 1)
      BY DEF WriteDone
    <3>2. dir = "upload" => w = j.nb
      BY DEF Written
    <3>3. dir = "upload" => j.pos + w .. j.pos + j.nb - 1 = {}
      BY <1>2, <3>2
    <3> HIDE DEF j
    <3> QED
      BY <3>1, <3>3
  <2> QED
    BY <2>1 DEF CopyInv, Ending
<1>14. Ending'
  <2>1. CASE ~hadError /\ hadError' = TRUE /\ closeErr' = FALSE /\ total' = FileSize
    BY <1>3, <1>12, <1>s, <2>1 DEF Ending
  <2>2. CASE hadError' = hadError /\ closeErr' = closeErr /\ msgs' = msgs
    BY <1>1, <1>3, <1>s, <2>2 DEF CopyInv, Ending, AllIdle, Reported
  <2> QED
    BY <1>4, <2>1, <2>2
<1> QED
  BY <1>6, <1>7, <1>8, <1>9, <1>11, <1>13, <1>14 DEF CopyInv

-----------------------------------------------------------------------------
(* The theorems.                                                           *)

\* A transfer starts with nothing copied, nothing in flight, nothing reported.
LEMMA InitInv == Init => CopyInv
<1> SUFFICES ASSUME Init PROVE CopyInv
  OBVIOUS
<1>1. Idle \in Jobs /\ Idle.st = "idle"
  BY DEF Idle, Job, Jobs
<1>2. \A i \in Slots : job[i] = Idle
  BY DEF Init
<1>3. AllIdle
  BY <1>1, <1>2 DEF AllIdle, Taken
<1>4. TypeOK
  <2>1. TypeChain
    BY DEF Init, TypeChain
  <2>2. TypeCopy
    BY <1>1 DEF Init, TypeCopy, Jobs
  <2>3. TypeFinal
    <3>1. msgs \in Seq({"end", "err"})
      BY DEF Init
    <3> QED
      BY <3>1 DEF Init, TypeFinal
  <2>4. TypeCtl
    BY DEF Init, TypeCtl
  <2> QED
    BY <2>1, <2>2, <2>3, <2>4 DEF TypeOK
<1>5. Layout /\ ChunksApart /\ Loaded
  BY <1>1, <1>2 DEF Layout, ChunksApart, Loaded, Taken
<1>6. Counting
  BY PassedFinite DEF Init, Counting
<1>7. Phases /\ Ending
  BY <1>3 DEF Init, Phases, Ending, Reported
<1> QED
  BY <1>4, <1>5, <1>6, <1>7 DEF CopyInv

\* Every step of a transfer keeps its invariant.
LEMMA NextInv == CopyInv /\ [Next]_vars => CopyInv'
<1> SUFFICES ASSUME CopyInv, [Next]_vars PROVE CopyInv'
  OBVIOUS
<1>1. CASE OpenChain
  BY <1>1, OpenStep, EngineStep, DestStep, ChmodStep DEF OpenChain
<1>2. ASSUME NEW i \in Slots, Slot(i) PROVE CopyInv'
  BY <1>2, ReadStep, WriteStep, FailStep, PollStep DEF Slot
<1>3. ASSUME NEW s \in Sides, CloseDone(s) PROVE CopyInv'
  BY <1>3, CloseStep
<1>4. CASE Pause \/ Resume \/ Destroy \/ Kill \/ ChannelLost \/ Truncate
  BY <1>4, OutsideStep, DestroyStep
<1>5. CASE UNCHANGED vars
  <2>1. UNCHANGED <<kind, dir, pc, own, chanUp, ends, handle, file, job, next, total, buf, dst,
                    short, srcLen, hadError, toClose, closeErr, ws, msgs, pausing, destroyed, killTimer>>
    BY <1>5 DEF vars, chain, copy, final, ctl
  <2>2. TypeOK'
    BY <2>1 DEF CopyInv, TypeOK, TypeChain, TypeCopy, TypeFinal, TypeCtl
  <2> QED
    BY <2>1, <2>2, ChainKeepsInv DEF Reported
<1> QED
  BY <1>1, <1>2, <1>3, <1>4, <1>5 DEF Next

\* The inductive invariant holds of every transfer.
THEOREM CopyInvariant == Spec => []CopyInv
<1> QED
  BY InitInv, NextInv, PTL DEF Spec

\* Every variable of a transfer keeps its type.
THEOREM TypeCorrect == Spec => []TypeOK
<1>1. CopyInv => TypeOK
  BY DEF CopyInv
<1> QED
  BY <1>1, CopyInvariant, PTL

\* "transfer:end" is sent only when every byte of the source is in its place, but for
\* what short writes of a downloaded file left out.
THEOREM EndIsComplete == Spec => []EndMeansCopied
<1>1. CopyInv => EndMeansCopied
  BY DEF CopyInv, Ending, AllAcked, Acked, EndMeansCopied, TypeOK, TypeChain
<1> QED
  BY <1>1, CopyInvariant, PTL

\* Chunks in flight share no byte of the buffer or of the file.
THEOREM SlotsShareNothing == Spec => []SlotsDisjoint
<1>1. CopyInv => SlotsDisjoint
  BY BuffersApart DEF CopyInv, Layout, ChunksApart, SlotsDisjoint
<1> QED
  BY <1>1, CopyInvariant, PTL

\* A file's successful close finds no operation in flight.
THEOREM CloseIsQuiet == Spec => []SuccessIsQuiet
<1>1. CopyInv => SuccessIsQuiet
  BY DEF CopyInv, Ending, SuccessIsQuiet
<1> QED
  BY <1>1, CopyInvariant, PTL

\* singleRead starts nothing after a destroy, and no read while it is paused.
LEMMA SingleReadStops ==
  ASSUME NEW off, NEW pos, NEW len
  PROVE  /\ destroyed => SingleRead(off, pos, len).st = "idle"
         /\ pausing => SingleRead(off, pos, len).st # "read"
  BY DEF SingleRead, Ask, Idle, Job

\* A destroyed transfer starts no read and no write, and a paused one no read, also
\* in the callbacks of what was under way (singleRead, onread, writeCb).
THEOREM StopsStartingHolds == Spec => StopsStarting
<1>1. ASSUME TypeOK, [Next]_vars, NEW i \in Slots
      PROVE  /\ destroyed /\ job'[i].st # "idle" => job'[i] = job[i]
             /\ pausing /\ job'[i].st = "read" => job'[i] = job[i]
  <2>t. job \in [Slots -> Jobs] /\ Idle.st = "idle"
    BY <1>1 DEF TypeOK, TypeCopy, Jobs, Idle, Job
  <2>w. \A off, pos, len, nb :
          Job(Ask("dst", "write"), off, pos, len, nb).st \in {"write", "mute"}
    BY DEF Job, Ask
  <2>1. CASE UNCHANGED job
    BY <2>1
  <2>2. ASSUME job' = [k \in Slots |->
                 LET pos == (k - 1) * ChunkSize IN SingleRead(BufAt(k), pos, ChunkAt(pos))]
        PROVE  /\ destroyed /\ job'[i].st # "idle" => job'[i] = job[i]
               /\ pausing /\ job'[i].st = "read" => job'[i] = job[i]
    <3>1. job'[i] = SingleRead(BufAt(i), (i - 1) * ChunkSize, ChunkAt((i - 1) * ChunkSize))
      BY <2>2
    <3>. QED BY <3>1, SingleReadStops
  <2>3. ASSUME NEW k \in Slots, ReadDone(k)
        PROVE  /\ destroyed /\ job'[i].st # "idle" => job'[i] = job[i]
               /\ pausing /\ job'[i].st = "read" => job'[i] = job[i]
    <3>1. /\ \A l \in Slots \ {k} : job'[l] = job[l]
          /\ job'[k].st \in {"idle", "write", "mute"} /\ (destroyed => job'[k].st = "idle")
      BY <2>3, <2>t, <2>w DEF ReadDone
    <3>. QED BY <3>1
  <2>4. ASSUME NEW k \in Slots, OpFailed(k) \/ Poll(k) \/ WriteDone(k)
        PROVE  /\ destroyed /\ job'[i].st # "idle" => job'[i] = job[i]
               /\ pausing /\ job'[i].st = "read" => job'[i] = job[i]
    <3>1. \/ job' = [job EXCEPT ![k] = Idle]
          \/ \E off, pos, len : job' = [job EXCEPT ![k] = SingleRead(off, pos, len)]
      <4>1. OpFailed(k) => job' = [job EXCEPT ![k] = Idle]
        BY DEF OpFailed
      <4>2. Poll(k) => \E off, pos, len : job' = [job EXCEPT ![k] = SingleRead(off, pos, len)]
        BY DEF Poll
      <4>3. WriteDone(k) => \/ job' = [job EXCEPT ![k] = Idle]
                            \/ \E off, pos, len : job' = [job EXCEPT ![k] = SingleRead(off, pos, len)]
        BY DEF WriteDone, Rest
      <4>. QED BY <2>4, <4>1, <4>2, <4>3
    <3>2. /\ \A l \in Slots \ {k} : job'[l] = job[l]
          /\ destroyed => job'[k].st = "idle"
          /\ pausing => job'[k].st # "read"
      BY <3>1, <2>t, SingleReadStops
    <3>. QED BY <3>2
  <2>5. CASE Destroy
    BY <2>5, <2>t DEF Destroy
  <2>6. CASE OpenChain
    <3>1. UNCHANGED job \/ StartReads
      BY <2>6 DEF OpenChain, ChannelOpened, ChannelFailed, SourceOpened, SourceOpenFailed, Statted,
         FstatFailed, StatFailed, DestOpened, DestOpenFailed, ChmodDone, EngineDone, copy
    <3>. QED BY <3>1, <2>1, <2>2 DEF StartReads
  <2>7. CASE \/ Pause \/ Resume \/ Kill \/ ChannelLost \/ Truncate \/ UNCHANGED vars
             \/ \E s \in Sides : CloseDone(s)
    <3>1. UNCHANGED job
      BY <2>7 DEF Pause, Resume, Kill, ChannelLost, Truncate, CloseDone, copy, vars
    <3>. QED BY <3>1, <2>1
  <2>. QED BY <1>1, <2>3, <2>4, <2>5, <2>6, <2>7 DEF Next, Slot
<1>2. TypeOK /\ [Next]_vars =>
        [\A i \in Slots :
           /\ destroyed /\ job'[i].st # "idle" => job'[i] = job[i]
           /\ pausing /\ job'[i].st = "read" => job'[i] = job[i]]_vars
  BY <1>1
<1> QED
  BY <1>2, TypeCorrect, PTL DEF Spec, StopsStarting

-----------------------------------------------------------------------------
(* The transfer implements FileCopy: whatever the order of its callbacks,  *)
(* the client hears at most one outcome, and success only of a whole copy  *)
(* with its files closed.                                                  *)

RefInv == CopyInv /\ ToldOnce /\ FilesHeld

\* onEnd and onError are the only ones to speak, and only as long as nothing was said.
Speaks == UNCHANGED msgs \/ (msgs = <<>> /\ \E m \in {"end", "err"} : Send(m))

-----------------------------------------------------------------------------
(* The outcome.                                                            *)

\* A first message is the only one, and reaches only who listens.
LEMMA FirstMessage ==
  ASSUME msgs = <<>>, NEW m \in {"end", "err"}, Send(m)
  PROVE  /\ Len(msgs') <= 1
         /\ ws => msgs' = <<m>> /\ msgs' # <<>> /\ Told' = m
                  /\ (Reported("end")' <=> m = "end")
         /\ ~ws => msgs' = msgs
<1>1. CASE ~ws
  BY <1>1 DEF Send
<1>2. CASE ws
  <2>1. msgs' = <<m>>
    BY <1>2 DEF Send
  <2>2. Len(msgs') = 1 /\ msgs'[1] = m /\ DOMAIN msgs' = {1} /\ msgs' # <<>>
    BY <2>1
  <2> QED
    BY <1>2, <2>1, <2>2 DEF Told, Reported
<1> QED
  BY <1>1, <1>2

\* With one message at most, the outcome is that message.
LEMMA ToldIs ==
  ASSUME msgs \in Seq({"end", "err"}), Len(msgs) <= 1
  PROVE  /\ Told = "none" <=> msgs = <<>>
         /\ Told = "end" <=> Reported("end")
<1>1. CASE msgs = <<>>
  <2>1. DOMAIN msgs = {}
    BY <1>1
  <2> QED
    BY <1>1, <2>1 DEF Told, Reported
<1>2. CASE msgs # <<>>
  <2>1. Len(msgs) = 1
    <3>1. Len(msgs) \in Nat
      BY LenProperties
    <3>2. Len(msgs) # 0
      BY <1>2, EmptySeq
    <3> DEFINE n == Len(msgs)
    <3>3. n \in Nat /\ n # 0 /\ n <= 1
      BY <3>1, <3>2
    <3> HIDE DEF n
    <3>4. n = 1
      BY <3>3
    <3> QED
      BY <3>4 DEF n
  <2>2. DOMAIN msgs = 1 .. 1
    BY <2>1
  <2>3. msgs[1] \in {"end", "err"} /\ \A k \in DOMAIN msgs : k = 1
    BY <2>1, <2>2
  <2> QED
    BY <1>2, <2>1, <2>2, <2>3 DEF Told, Reported
<1> QED
  BY <1>1, <1>2

-----------------------------------------------------------------------------
(* Every step keeps RefInv.                                                *)

\* Nothing is said before the copy, nor while files are being closed.
LEMMA Unsaid ==
  ASSUME RefInv, pc \notin {"copy", "stop"} \/ (pc = "copy" /\ ~hadError) \/ toClose # {}
  PROVE  msgs = <<>> /\ ~Reported("end")
<1>1. msgs = <<>>
  BY DEF RefInv, ToldOnce
<1> QED
  BY <1>1 DEF Reported

\* What a step has to show: the invariant of the refinement, and who spoke.
Good == ToldOnce' /\ FilesHeld' /\ Speaks

\* A failure of the open chain is the first and last word.
LEMMA FailIsGood ==
  ASSUME RefInv, pc \notin {"copy", "stop"}, pc # "scp", Fail,
         UNCHANGED <<kind, dir, own, chanUp, ends, hadError, toClose, ws, ctl>>,
         \A s \in Sides : file'[s] = "open" => Reach(s) /\ (ws => handle'[s])
  PROVE  Good
<1>1. msgs = <<>> /\ ~Reported("end") /\ ~hadError /\ toClose = {} /\ kind = "file"
  BY Unsaid DEF RefInv, CopyInv, Phases, FilesHeld
<1>2. pc' = "stop" /\ Send("err")
  BY DEF Fail
<1>3. Len(msgs') <= 1 /\ ~Reported("end")'
  <2>1. CASE ws
    BY <1>1, <1>2, <2>1, FirstMessage
  <2>2. CASE ~ws
    <3>1. msgs' = msgs
      BY <1>1, <1>2, <2>2, FirstMessage
    <3> QED
      BY <1>1, <3>1 DEF Reported, RefInv, ToldOnce
  <2> QED
    BY <2>1, <2>2
<1>4. ToldOnce'
  BY <1>1, <1>2, <1>3 DEF ToldOnce, RefInv, ctl
<1>5. FilesHeld'
  BY <1>1, <1>2, <1>3 DEF FilesHeld, Reach, SftpSide
<1> QED
  BY <1>1, <1>2, <1>4, <1>5 DEF Good, Speaks

\* A callback of the open chain that says nothing.
LEMMA ChainIsGood ==
  ASSUME RefInv, pc \notin {"copy", "stop", "scp"}, pc' # "scp",
         UNCHANGED <<kind, hadError, toClose, ws, msgs, ctl>>,
         \A s \in Sides : file'[s] = "open" => Reach(s)' /\ (ws => handle'[s]),
         ws /\ pc' \in {"chmod", "copy"} => handle'["dst"]
  PROVE  Good
<1>1. msgs = <<>> /\ ~Reported("end") /\ ~hadError /\ toClose = {} /\ kind = "file"
  BY Unsaid DEF RefInv, CopyInv, Phases, FilesHeld
<1>2. ~Reported("end")'
  BY <1>1 DEF Reported
<1>3. ToldOnce'
  BY <1>1 DEF ToldOnce, RefInv, ctl
<1>4. FilesHeld'
  BY <1>1, <1>2 DEF FilesHeld
<1> QED
  BY <1>3, <1>4 DEF Good, Speaks

\* The callbacks up to the opening of the destination.
LEMMA OpensAreGood ==
  ASSUME RefInv,
         \/ ChannelOpened \/ ChannelFailed \/ SourceOpened \/ SourceOpenFailed
         \/ Statted \/ FstatFailed \/ StatFailed \/ DestOpenFailed \/ ChmodDone
  PROVE  Good
<1> USE DEF RefInv
<1>1. \A s \in Sides : file[s] = "open" => Reach(s) /\ (ws => handle[s])
  BY DEF FilesHeld
<1>2. handle \in [Sides -> BOOLEAN] /\ file \in [Sides -> {"none", "open", "closed"}]
  BY DEF CopyInv, TypeOK, TypeChain
<1>3. ws => ~destroyed
  BY DEF ToldOnce
<1>4. CASE ChannelOpened
  BY <1>1, <1>4, ChainIsGood DEF ChannelOpened, final, Reach, SftpSide
<1>5. CASE ChannelFailed \/ Statted \/ FstatFailed
  <2>1. \A s \in Sides : Reach(s)' = Reach(s)
    BY <1>5 DEF ChannelFailed, Statted, FstatFailed, Reach, SftpSide
  <2> QED
    BY <1>1, <1>5, <2>1, ChainIsGood DEF ChannelFailed, Statted, FstatFailed, final, Ask
<1>6. CASE SourceOpened
  <2>1. \A s \in Sides : Reach(s)' = Reach(s)
    BY <1>6 DEF SourceOpened, Reach, SftpSide
  <2>2. \A s \in Sides : file'[s] = "open" => Reach(s) /\ (ws => handle'[s])
    BY <1>1, <1>2, <1>3, <1>6 DEF SourceOpened, Sides
  <2> QED
    BY <1>6, <2>1, <2>2, ChainIsGood DEF SourceOpened, final
<1>7. CASE SourceOpenFailed \/ StatFailed \/ DestOpenFailed
  BY <1>1, <1>7, FailIsGood DEF SourceOpenFailed, StatFailed, DestOpenFailed
<1>8. CASE ChmodDone
  <2>1. \A s \in Sides : Reach(s)' = Reach(s)
    BY <1>8 DEF ChmodDone, Reach, SftpSide
  <2>2. ws => handle["dst"]
    BY <1>8 DEF ChmodDone, FilesHeld, CopyInv, Phases
  <2> QED
    BY <1>1, <1>8, <2>1, <2>2, ChainIsGood DEF ChmodDone, StartReads, final
<1> QED
  BY <1>4, <1>5, <1>6, <1>7, <1>8

\* The opening of the destination: silent on a destroyed transfer, an error without
\* memory, and for an empty file the closing of what was opened.
LEMMA DestIsGood == ASSUME RefInv, DestOpened PROVE Good
<1> USE DEF RefInv
<1>1. /\ pc = "openDst" /\ Reach("dst")
      /\ file' = [file EXCEPT !["dst"] = "open"]
      /\ handle' = [handle EXCEPT !["dst"] = ~destroyed]
      /\ UNCHANGED <<kind, dir, own, chanUp, ends, ws, ctl>>
  BY DEF DestOpened
<1>2. msgs = <<>> /\ ~Reported("end") /\ ~hadError /\ toClose = {} /\ kind = "file"
  BY <1>1, Unsaid DEF CopyInv, Phases, FilesHeld
<1>3. \A s \in Sides : Reach(s)' = Reach(s)
  BY <1>1 DEF Reach, SftpSide
<1>4. ws => ~destroyed
  BY DEF ToldOnce
<1>5. handle \in [Sides -> BOOLEAN] /\ file \in [Sides -> {"none", "open", "closed"}]
  BY DEF CopyInv, TypeOK, TypeChain
<1>6. \A s \in Sides : file'[s] = "open" => Reach(s) /\ (ws => handle'[s])
  BY <1>1, <1>4, <1>5 DEF FilesHeld, Sides
<1>7. CASE UNCHANGED <<hadError, toClose, msgs>> /\ (destroyed \/ pc' = "chmod" \/ pc' = "copy")
           /\ pc' # "scp"
  <2>1. ws => handle'["dst"]
    BY <1>1, <1>4, <1>5 DEF Sides
  <2> QED
    BY <1>1, <1>3, <1>6, <1>7, <2>1, ChainIsGood
<1>8. CASE ~destroyed /\ OnError(handle', FALSE) /\ pc' = "stop"
  <2>1. "dst" \in Closable(handle')
    BY <1>1, <1>5, <1>8 DEF Closable, Sides
  <2>2. hadError' /\ toClose' = Closable(handle') /\ msgs' = msgs
    BY <1>8, <2>1 DEF OnError
  <2>3. ToldOnce'
    BY <1>1, <1>2, <2>2 DEF ToldOnce, ctl
  <2>4. FilesHeld'
    BY <1>1, <1>2, <1>3, <1>6, <1>8, <2>2 DEF FilesHeld, Closable, Reported
  <2> QED
    BY <2>2, <2>3, <2>4 DEF Good, Speaks
<1>9. CASE Fail /\ UNCHANGED <<hadError, toClose>>
  BY <1>1, <1>6, <1>9, FailIsGood
<1> QED
  BY <1>7, <1>8, <1>9 DEF DestOpened, StartReads

\* An engine's answer is the outcome of its transfer.
LEMMA EngineIsGood == ASSUME RefInv, EngineDone PROVE Good
<1> USE DEF RefInv
<1>1. /\ pc = "scp" /\ pc' = "stop"
      /\ UNCHANGED <<kind, dir, own, chanUp, ends, handle, file, ctl, hadError, toClose, ws>>
  BY DEF EngineDone
<1>2. PICK m \in {"end", "err"} : Send(m)
  BY DEF EngineDone
<1>3. msgs = <<>> /\ kind # "file" /\ toClose = {}
  BY <1>1, Unsaid DEF CopyInv, Phases, FilesHeld
<1>4. Len(msgs') <= 1
  BY <1>2, <1>3, FirstMessage DEF ToldOnce
<1>5. ToldOnce'
  BY <1>1, <1>3, <1>4 DEF ToldOnce, ctl
<1>6. FilesHeld'
  BY <1>1, <1>3 DEF FilesHeld
<1> QED
  BY <1>2, <1>3, <1>5, <1>6 DEF Good, Speaks

\* The client, the connection and the source file.
LEMMA OutsideIsGood ==
  ASSUME RefInv, Pause \/ Resume \/ Destroy \/ Kill \/ ChannelLost \/ Truncate
  PROVE  Good
<1> USE DEF RefInv
<1>1. /\ UNCHANGED <<kind, dir, pc, hadError, toClose, msgs>>
      /\ ws' => ws /\ destroyed' = destroyed /\ killTimer' = killTimer
      /\ Reported("end")' = Reported("end")
  <2>1. CASE Kill
    BY <2>1 DEF Kill, final, ToldOnce, Reported
  <2> QED
    BY <2>1 DEF Pause, Resume, Destroy, ChannelLost, Truncate, chain, final, ctl, Reported
<1>2. ToldOnce'
  BY <1>1 DEF ToldOnce
<1>3. \A s \in Sides : file'[s] = "open" =>
        file[s] = "open" /\ Reach(s)' /\ (ws' => handle'[s] = handle[s])
  <2>1. file \in [Sides -> {"none", "open", "closed"}] /\ SftpSide \in Sides
    BY DEF CopyInv, TypeOK, TypeChain, SftpSide, Sides
  <2>2. CASE Kill
    BY <2>1, <2>2 DEF Kill, Kills, final, ToldOnce, FilesHeld, Reach, SftpSide
  <2>3. CASE ChannelLost
    BY <2>1, <2>3 DEF ChannelLost, FilesHeld, Reach, SftpSide
  <2>4. CASE Pause \/ Resume \/ Destroy \/ Truncate
    BY <2>4 DEF Pause, Resume, Destroy, Truncate, chain, FilesHeld, Reach, SftpSide
  <2> QED
    BY <2>2, <2>3, <2>4
<1>4. ws' => handle'["dst"] = handle["dst"]
  <2>1. CASE Kill
    BY <2>1 DEF Kill, final, ToldOnce
  <2> QED
    BY <2>1 DEF Pause, Resume, Destroy, ChannelLost, Truncate, chain
<1>5. FilesHeld'
  BY <1>1, <1>3, <1>4 DEF FilesHeld
<1> QED
  BY <1>1, <1>2, <1>5 DEF Good, Speaks

\* The callbacks of a slot.  The last write of a complete copy closes files before
\* it speaks: as long as someone listens the destination has its handle.
LEMMA SlotIsGood ==
  ASSUME RefInv, NEW i \in Slots, ReadDone(i) \/ WriteDone(i) \/ OpFailed(i) \/ Poll(i)
  PROVE  Good
<1> USE DEF RefInv
<1>1. pc = "copy" /\ kind = "file" /\ UNCHANGED <<chain, ws, ctl>>
  <2>1. Taken(i)
    BY DEF ReadDone, WriteDone, OpFailed, Poll, Taken
  <2>2. pc = "copy"
    BY <2>1 DEF CopyInv, Phases, AllIdle
  <2>3. UNCHANGED <<chain, ws, ctl>>
    BY DEF ReadDone, WriteDone, OpFailed, Poll, final
  <2> QED
    BY <2>2, <2>3 DEF FilesHeld
<1>2. \A s \in Sides : Reach(s)' = Reach(s)
  BY <1>1 DEF Reach, SftpSide, chain
<1>3. CASE UNCHANGED <<hadError, toClose, msgs>>
  <2>1. Reported("end")' = Reported("end")
    BY <1>3 DEF Reported
  <2>2. ToldOnce'
    BY <1>1, <1>3 DEF ToldOnce, chain, ctl
  <2>3. FilesHeld'
    BY <1>1, <1>2, <1>3, <2>1 DEF FilesHeld, chain
  <2> QED
    BY <1>3, <2>2, <2>3 DEF Good, Speaks
<1>4. ASSUME NEW failed \in BOOLEAN, ~hadError, OnError(handle, failed),
             ~failed => Reach("dst")
      PROVE  Good
  <2>1. msgs = <<>> /\ ~Reported("end")
    BY <1>1, <1>4, Unsaid
  <2>2. hadError' /\ toClose' = Closable(handle)
    BY <1>4 DEF OnError
  <2>3. CASE Closable(handle) # {} \/ ~ws
    <3>1. msgs' = msgs
      BY <1>4, <2>1, <2>3 DEF OnError, Send
    <3>2. ToldOnce'
      BY <1>1, <2>1, <3>1 DEF ToldOnce, chain, ctl
    <3>3. FilesHeld'
      BY <1>1, <1>2, <2>1, <2>2, <3>1 DEF FilesHeld, chain, Closable, Reported
    <3> QED
      BY <3>1, <3>2, <3>3 DEF Good, Speaks
  <2>4. CASE Closable(handle) = {} /\ ws
    <3>1. failed
      <4>1. handle["dst"]
        BY <1>1, <1>4, <2>4 DEF FilesHeld
      <4> QED
        BY <1>4, <2>4, <4>1 DEF Closable, Sides
    <3>2. Send("err")
      BY <1>4, <2>4, <3>1 DEF OnError
    <3>3. Len(msgs') <= 1 /\ ~Reported("end")'
      BY <2>1, <2>4, <3>2, FirstMessage
    <3>4. ToldOnce'
      BY <1>1, <2>2, <2>4, <3>3 DEF ToldOnce, chain, ctl
    <3>5. FilesHeld'
      BY <1>1, <1>2, <2>2, <3>3 DEF FilesHeld, chain, Closable
    <3> QED
      BY <2>1, <3>2, <3>4, <3>5 DEF Good, Speaks
  <2> QED
    BY <2>3, <2>4
<1>5. CASE ReadDone(i) \/ Poll(i)
  BY <1>3, <1>5 DEF ReadDone, Poll, final
<1>6. CASE OpFailed(i)
  BY <1>3, <1>4, <1>6 DEF OpFailed
<1>7. CASE WriteDone(i)
  BY <1>3, <1>4, <1>7 DEF WriteDone
<1> QED
  BY <1>5, <1>6, <1>7

\* The last close speaks, and leaves no file open.
LEMMA CloseIsGood == ASSUME RefInv, NEW s \in Sides, CloseDone(s) PROVE Good
<1> USE DEF RefInv
<1>1. /\ s \in toClose /\ toClose' = toClose \ {s}
      /\ file' = [file EXCEPT ![s] = "closed"]
      /\ handle' = [handle EXCEPT ![s] = FALSE]
      /\ UNCHANGED <<kind, dir, pc, own, chanUp, ends, hadError, ws, ctl>>
  BY DEF CloseDone
<1>2. msgs = <<>> /\ ~Reported("end") /\ hadError /\ pc \in {"copy", "stop"} /\ kind = "file"
  BY <1>1, Unsaid DEF CopyInv, Phases, FilesHeld
<1>3. handle \in [Sides -> BOOLEAN] /\ file \in [Sides -> {"none", "open", "closed"}]
  BY DEF CopyInv, TypeOK, TypeChain
<1>4. \A k \in Sides : Reach(k)' = Reach(k)
  BY <1>1 DEF Reach, SftpSide
<1>5. \A k \in Sides : file'[k] = "open" =>
        k # s /\ file[k] = "open" /\ handle'[k] = handle[k] /\ Reach(k)
  BY <1>1, <1>3 DEF FilesHeld
<1>6. \A k \in Sides : file'[k] = "open" /\ ws => k \in toClose'
  BY <1>1, <1>2, <1>5 DEF FilesHeld
<1>7. CASE msgs' = msgs
  <2>1. ToldOnce'
    BY <1>1, <1>2, <1>7 DEF ToldOnce, ctl
  <2>2. FilesHeld'
    BY <1>1, <1>2, <1>4, <1>5, <1>6, <1>7 DEF FilesHeld, Reported
  <2> QED
    BY <1>7, <2>1, <2>2 DEF Good, Speaks
<1>8. CASE ws /\ toClose' = {} /\ \E m \in {"end", "err"} : Send(m)
  <2>1. Len(msgs') <= 1
    BY <1>2, <1>8, FirstMessage
  <2>2. \A k \in Sides : file'[k] # "open"
    BY <1>6, <1>8
  <2>3. ToldOnce'
    BY <1>1, <1>2, <1>8, <2>1 DEF ToldOnce, ctl
  <2>4. FilesHeld'
    BY <1>1, <1>2, <2>2 DEF FilesHeld
  <2> QED
    BY <1>2, <1>8, <2>3, <2>4 DEF Good, Speaks
<1> QED
  BY <1>7, <1>8 DEF CloseDone, AllClosed, Send

\* Each step of a transfer is good, or a stuttering step.
LEMMA StepIsGood == RefInv /\ [Next]_vars => RefInv' /\ Speaks
<1> SUFFICES ASSUME RefInv, [Next]_vars PROVE Good
  BY NextInv DEF RefInv, Good
<1>1. CASE OpenChain
  BY <1>1, OpensAreGood, DestIsGood, EngineIsGood DEF OpenChain
<1>2. ASSUME NEW i \in Slots, Slot(i) PROVE Good
  BY <1>2, SlotIsGood DEF Slot
<1>3. ASSUME NEW s \in Sides, CloseDone(s) PROVE Good
  BY <1>3, CloseIsGood
<1>4. CASE Pause \/ Resume \/ Destroy \/ Kill \/ ChannelLost \/ Truncate
  BY <1>4, OutsideIsGood
<1>5. CASE UNCHANGED vars
  <2>1. UNCHANGED <<kind, dir, pc, own, chanUp, handle, file, hadError, toClose, ws, msgs,
                    destroyed, killTimer>>
    BY <1>5 DEF vars, chain, final, ctl
  <2>2. Reported("end")' = Reported("end") /\ \A s \in Sides : Reach(s)' = Reach(s)
    BY <2>1 DEF Reported, Reach, SftpSide
  <2> QED
    BY <2>1, <2>2 DEF Good, Speaks, RefInv, ToldOnce, FilesHeld
<1> QED
  BY <1>1, <1>2, <1>3, <1>4, <1>5 DEF Next

\* A transfer begins with nothing said and nothing open.
LEMMA InitIsGood == Init => RefInv
<1> SUFFICES ASSUME Init PROVE RefInv
  OBVIOUS
<1>1. msgs = <<>> /\ \A s \in Sides : file[s] = "none"
  BY DEF Init
<1> QED
  BY <1>1, InitInv DEF Init, RefInv, ToldOnce, FilesHeld

-----------------------------------------------------------------------------
(* The refinement mapping.                                                 *)

\* What was copied stays copied, a slot writing what it read at its own place, and what
\* was left out stays left out.
LEMMA CopyGrows ==
  ASSUME RefInv, Speaks, [Next]_vars, RefInv'
  PROVE  /\ CopiedNow \subseteq CopiedNow' /\ CopiedNow' \subseteq Offsets
         /\ short \subseteq short' /\ short' \subseteq Offsets
<1>1. kind' = kind
  BY DEF Next, OpenChain, Slot, vars, chain, final,
         ChannelOpened, ChannelFailed, SourceOpened, SourceOpenFailed, Statted, FstatFailed,
         StatFailed, DestOpened, DestOpenFailed, ChmodDone, EngineDone, ReadDone, WriteDone,
         OpFailed, Poll, CloseDone, Pause, Resume, Destroy, Kill, ChannelLost, Truncate
<1>4. short \subseteq short'
  BY DEF Next, OpenChain, Slot, vars, copy, StartReads,
         ChannelOpened, ChannelFailed, SourceOpened, SourceOpenFailed, Statted, FstatFailed,
         StatFailed, DestOpened, DestOpenFailed, ChmodDone, EngineDone, ReadDone, WriteDone,
         OpFailed, Poll, CloseDone, Pause, Resume, Destroy, Kill, ChannelLost, Truncate
<1>5. short' \subseteq Offsets
  BY DEF RefInv, CopyInv, TypeOK, TypeCopy
<1>2. CASE kind = "file"
  <2>1. ASSUME NEW p \in Offsets, dst[p] = p PROVE dst'[p] = p
    <3>1. CASE UNCHANGED dst
      BY <2>1, <3>1
    <3>2. ASSUME NEW i \in Slots, WriteDone(i) PROVE dst'[p] = p
      <4> DEFINE j == job[i]
      <4>1. PICK w \in Written(j.nb) :
               /\ j.st = "write"
               /\ dst' = [q \in Offsets |-> IF q \in j.pos .. j.pos + w - 1
                                            THEN buf[j.off + (q - j.pos)] ELSE dst[q]]
        BY <3>2 DEF WriteDone
      <4>2. j.pos \in Nat /\ j.off \in Nat /\ j.nb \in Nat /\ p \in Nat
        BY DEF RefInv, CopyInv, TypeOK, TypeCopy, Offsets
      <4>w. w \in Nat /\ w <= j.nb
        BY <4>1, <4>2 DEF Written
      <4>3. CASE p \in j.pos .. j.pos + w - 1
        <5>1. j.off + (p - j.pos) \in j.off .. j.off + j.nb - 1
          BY <4>2, <4>3, <4>w
        <5>2. buf[j.off + (p - j.pos)] = j.pos + ((j.off + (p - j.pos)) - j.off)
          BY <4>1, <5>1 DEF RefInv, CopyInv, Loaded
        <5> QED
          BY <4>1, <4>2, <4>3, <5>2
      <4>4. CASE p \notin j.pos .. j.pos + w - 1
        BY <2>1, <4>1, <4>4
      <4> QED
        BY <4>3, <4>4
    <3> QED
      BY <3>1, <3>2
      DEF Next, OpenChain, Slot, vars, copy, StartReads,
          ChannelOpened, ChannelFailed, SourceOpened, SourceOpenFailed, Statted, FstatFailed,
          StatFailed, DestOpened, DestOpenFailed, ChmodDone, EngineDone, ReadDone,
          OpFailed, Poll, CloseDone, Pause, Resume, Destroy, Kill, ChannelLost, Truncate
  <2> QED
    BY <1>1, <1>2, <1>4, <1>5, <2>1 DEF CopiedNow
<1>3. CASE kind # "file"
  <2>1. Reported("end") => Reported("end")'
    <3>1. CASE UNCHANGED msgs
      BY <3>1 DEF Reported
    <3>2. CASE msgs = <<>>
      BY <3>2 DEF Reported
    <3> QED
      BY <3>1, <3>2 DEF Speaks
  <2> QED
    BY <1>1, <1>3, <1>4, <1>5, <2>1 DEF CopiedNow
<1> QED
  BY <1>2, <1>3

\* The client's end of the transfer changes only when it is destroyed.
LEMMA WatchStep ==
  ASSUME [Next]_vars
  PROVE  ws' = ws \/ (ws' = FALSE /\ UNCHANGED <<kind, file, dst, short, msgs>>)
<1>1. CASE Destroy
  BY <1>1 DEF Destroy, chain
<1>2. CASE ~Destroy
  BY <1>2
  DEF Next, OpenChain, Slot, vars, final,
      ChannelOpened, ChannelFailed, SourceOpened, SourceOpenFailed, Statted, FstatFailed,
      StatFailed, DestOpened, DestOpenFailed, ChmodDone, EngineDone, ReadDone, WriteDone,
      OpFailed, Poll, CloseDone, Pause, Resume, Destroy, Kill, ChannelLost, Truncate
<1> QED
  BY <1>1, <1>2

Whole == CopiedNow \cup short = Offsets /\ ~\E s \in Sides : file[s] = "open"

\* Once the end was told everything is copied or left out and nothing is open.
LEMMA EndIsWhole == RefInv /\ Reported("end") => Whole
<1> SUFFICES ASSUME RefInv, Reported("end") PROVE Whole
  OBVIOUS
<1>1. CopiedNow \cup short = Offsets
  <2>1. short \subseteq Offsets
    BY DEF RefInv, CopyInv, TypeOK, TypeCopy
  <2> QED
    BY <2>1 DEF RefInv, CopyInv, Ending, AllAcked, Acked, CopiedNow
<1>2. \A s \in Sides : file[s] # "open"
  BY DEF RefInv, FilesHeld
<1> QED
  BY <1>1, <1>2 DEF Whole

\* Nothing is written any more once the end was told.
LEMMA EndStands ==
  ASSUME RefInv, Reported("end"), [Next]_vars
  PROVE  UNCHANGED <<kind, dst, short>>
<1>1. AllIdle
  BY DEF RefInv, CopyInv, Ending, Phases, FilesHeld
<1>2. \A i \in Slots : ~WriteDone(i)
  BY <1>1 DEF AllIdle, Taken, WriteDone
<1> QED
  BY <1>2
  DEF Next, OpenChain, Slot, vars, chain, copy, StartReads,
      ChannelOpened, ChannelFailed, SourceOpened, SourceOpenFailed, Statted, FstatFailed,
      StatFailed, DestOpened, DestOpenFailed, ChmodDone, EngineDone, ReadDone,
      OpFailed, Poll, CloseDone, Pause, Resume, Destroy, Kill, ChannelLost, Truncate

\* The same after a step.
LEMMA EndIsWholeNext == RefInv' /\ Reported("end")' => Whole'
  BY EndIsWhole, PTL

\* A transfer starts as an abstract copy does.
LEMMA InitMaps == Init => Abstract!Init
<1> SUFFICES ASSUME Init PROVE Abstract!Init
  OBVIOUS
<1>1. msgs = <<>> /\ ~Reported("end") /\ ws = TRUE /\ \A s \in Sides : file[s] # "open"
  BY DEF Init, Reported
<1>2. CopiedNow = {}
  <2>1. \A p \in Offsets : dst[p] # p
    BY XferAssumption DEF Init, Offsets, None
  <2> QED
    BY <1>1, <2>1 DEF CopiedNow
<1> QED
  BY <1>1, <1>2 DEF Init, Abstract!Init, Told

\* Every step of a transfer is a step of the abstract copy, or none.
LEMMA StepMaps == RefInv /\ [Next]_vars => [Abstract!Next]_(Abstract!copyVars)
<1> SUFFICES ASSUME RefInv, [Next]_vars
             PROVE  [Abstract!Next]_(Abstract!copyVars)
  OBVIOUS
<1> DEFINE held == \E s \in Sides : file[s] = "open"
<1>1. RefInv' /\ Speaks
  BY StepIsGood
<1>2. /\ CopiedNow \subseteq CopiedNow' /\ CopiedNow' \subseteq Offsets
      /\ short \subseteq short' /\ short' \subseteq Offsets
  BY <1>1, CopyGrows
<1>3. held' \in BOOLEAN /\ ws \in BOOLEAN
  BY DEF RefInv, CopyInv, TypeOK, TypeFinal
<1>4. /\ Told = "none" <=> msgs = <<>>
      /\ Told = "end" <=> Reported("end")
  BY ToldIs DEF RefInv, CopyInv, TypeOK, TypeFinal, ToldOnce
<1>5. CASE ws' # ws
  <2>1. ws' = FALSE /\ UNCHANGED <<kind, file, dst, short, msgs>>
    BY <1>5, WatchStep
  <2>2. held' = held /\ CopiedNow' = CopiedNow /\ short' = short /\ Told' = Told
    BY <2>1 DEF CopiedNow, Reported, Told
  <2>3. Abstract!Abandon
    BY <2>1, <2>2 DEF Abstract!Abandon
  <2> QED
    BY <2>3 DEF Abstract!Next
<1>6. CASE ws' = ws /\ UNCHANGED msgs
  <2>1. Told' = Told /\ Reported("end")' = Reported("end")
    BY <1>6 DEF Told, Reported
  <2>2. CASE Told # "end"
    <3>1. Abstract!Copy
      BY <1>2, <1>3, <1>6, <2>1, <2>2 DEF Abstract!Copy, Abstract!Advance
    <3> QED
      BY <3>1 DEF Abstract!Next
  <2>3. CASE Told = "end"
    <3>1. ~held /\ ~held'
      BY <1>1, <1>4, <2>1, <2>3, EndIsWhole, EndIsWholeNext DEF Whole
    <3>2. UNCHANGED <<kind, dst, short>>
      BY <1>4, <2>3, EndStands
    <3>3. CopiedNow' = CopiedNow
      BY <2>1, <3>2 DEF CopiedNow
    <3> QED
      BY <1>6, <2>1, <3>1, <3>2, <3>3 DEF Abstract!copyVars
  <2> QED
    BY <2>2, <2>3
<1>7. CASE ws' = ws /\ ~UNCHANGED msgs
  <2>1. PICK m \in {"end", "err"} : Send(m)
    BY <1>1, <1>7 DEF Speaks
  <2>2. msgs = <<>> /\ ws
    BY <1>1, <1>7, <2>1, FirstMessage DEF Speaks
  <2>3. Told = "none" /\ Told' = m /\ (Reported("end")' <=> m = "end")
    BY <1>4, <2>1, <2>2, FirstMessage
  <2>4. CASE m = "err"
    <3>1. Abstract!FailCopy
      BY <1>2, <1>3, <1>7, <2>2, <2>3, <2>4 DEF Abstract!FailCopy, Abstract!Advance
    <3> QED
      BY <3>1 DEF Abstract!Next
  <2>5. CASE m = "end"
    <3>1. CopiedNow' \cup short' = Offsets /\ ~held'
      BY <1>1, <2>3, <2>5, EndIsWholeNext DEF Whole
    <3>2. Abstract!Succeed
      BY <1>2, <1>3, <1>7, <2>2, <2>3, <2>5, <3>1 DEF Abstract!Succeed, Abstract!Advance
    <3> QED
      BY <3>2 DEF Abstract!Next
  <2> QED
    BY <2>4, <2>5
<1> QED
  BY <1>5, <1>6, <1>7

-----------------------------------------------------------------------------
(* The theorems.                                                           *)

\* Every state of a transfer is one an abstract copy can be in: one message at most,
\* files open only behind handles, and what CopyInv says.
THEOREM RefinementInvariant == Spec => []RefInv
<1>1. RefInv /\ [Next]_vars => RefInv'
  BY StepIsGood
<1> QED
  BY <1>1, InitIsGood, PTL DEF Spec

\* In every state of a transfer the bytes counted were written or left out by a short
\* write to a local file (by none in an upload), chunks keep apart,
\* closing is quiet, one outcome was told and no open file is forgotten: onread,
\* writeCb, onerror and kill, for every size, chunk, concurrency and source.
THEOREM TransferInvariant == Spec => []FastXferInv
<1>1. RefInv /\ EndMeansCopied /\ SlotsDisjoint /\ SuccessIsQuiet => FastXferInv
  BY DEF RefInv, FastXferInv
<1> QED
  BY <1>1, RefinementInvariant, EndIsComplete, SlotsShareNothing, CloseIsQuiet, PTL

\* A transfer implements FileCopy: the client hears one outcome, success only when
\* every byte is in place or was left out by a short write and both files are closed,
\* and nothing once it gave up.
THEOREM TransferCopies == Spec => Copies
<1>1. Spec => Abstract!Spec
  BY RefinementInvariant, InitMaps, StepMaps, PTL DEF Spec, Abstract!Spec
<1> QED
  BY <1>1 DEF Copies

=============================================================================
