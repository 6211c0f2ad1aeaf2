----------------------------- MODULE TermOutput -----------------------------
(* The way of a terminal's output to the browser: the data handler of      *)
(* /terminals/:pid in src/app/routes/ws.js.  Chunks are coalesced for up   *)
(* to 10 ms, flushed at once after an idle gap, held when they end inside  *)
(* a multi-byte character, sent unbuffered when very large, and diverted   *)
(* to a file-transfer session (zmodem, trzsz, xmodem) when one is active   *)
(* or recognises its start in them.                                        *)
(*                                                                         *)
(* The stream is kept as the classes of its bytes: "a" is ASCII, "L2" and  *)
(* "L3" lead a character of 2 and 3 bytes, "c" continues one.  A byte is   *)
(* followed to its destination by its position in the stream.              *)
EXTENDS Integers, Sequences

CONSTANTS
  Chunks,     (* the chunks a terminal may emit: sequences of byte classes *)
  Large,      (* those of more than 16 KB                                  *)
  MaxBytes,   (* bound on the length of the stream                         *)
  Interval,   (* flushIntervalMs, in ticks                                 *)
  MaxTime,    (* bound on the monotonic clock                              *)
  SetBack,    (* how far the wall clock may be set back, in ticks          *)
  Transfers   (* how a transfer session starts: "detected" in the output,  *)
              (* "started" by a client message (xmodem)                    *)

ASSUME OutputAssumption ==
  /\ \A c \in Chunks : c \in Seq({"a", "L2", "L3", "c"}) /\ c # <<>>
  /\ MaxBytes \in Nat /\ MaxTime \in Nat /\ Interval \in 1 .. MaxTime /\ SetBack \in Nat
  /\ Large \subseteq Chunks
  /\ Transfers \subseteq {"detected", "started"}

VARIABLES
  stream,     (* every byte the terminal has emitted                       *)
  dataBuffer,     (* dataBuffer: chunks, each the interval of its positions    *)
  timer,      (* sendTimeout: when it is due, or Off                       *)
  lastFlush,  (* lastFlushTime, read on the wall clock                     *)
  active,     (* the active transfer session: how it started, or "no"      *)
  toClient,   (* positions sent to the browser, in order                   *)
  toTransfer, (* positions given to a transfer session, in order           *)
  open,       (* onClose has not run                                       *)
  now, skew   (* monotonic clock (timers); wall clock minus monotonic      *)

outputVars == <<stream, dataBuffer, timer, lastFlush, active, toClient, toTransfer, open, now, skew>>

Off  == -1
Wall == now + skew

\* The positions of a chunk.
Positions(chunk) == [k \in 1 .. chunk[2] - chunk[1] + 1 |-> chunk[1] + k - 1]
\* Buffer.concat.
Concat(bufs) ==
  LET joined[k \in 0 .. Len(bufs)] ==
        IF k = 0 THEN <<>> ELSE joined[k - 1] \o Positions(bufs[k])
  IN  joined[Len(bufs)]

-----------------------------------------------------------------------------
\* Continuation bytes a lead byte announces.
Needed(lead) == IF lead = "L2" THEN 1 ELSE 2

\* The trailing continuation bytes of s, at most 3.
Trailing(s) == CHOOSE n \in 0 .. 3 :
  /\ n <= Len(s) /\ \A k \in 0 .. n - 1 : s[Len(s) - k] = "c"
  /\ n = 3 \/ n = Len(s) \/ s[Len(s) - n] # "c"

\* The bytes s end inside a character.
EndsInside(s) ==
  LET n == Trailing(s) IN
  n < Len(s) /\ s[Len(s) - n] \in {"L2", "L3"} /\ n < Needed(s[Len(s) - n])

\* hasIncompleteTrailingUtf8: looks at the last chunk of the buffer only.
Incomplete(bufs) ==
  bufs # <<>> /\ EndsInside(SubSeq(stream', bufs[Len(bufs)][1], bufs[Len(bufs)][2]))

-----------------------------------------------------------------------------
OutputInit ==
  /\ stream = <<>> /\ dataBuffer = <<>>
  /\ timer = Off
  /\ lastFlush = 0
  /\ active = "no"
  /\ toClient = <<>> /\ toTransfer = <<>>
  /\ open = TRUE
  /\ now = Interval /\ skew = 0

\* handleData of the three managers, then ws.send, for the bytes first and then
\* for the bytes second: an active session takes what it is given, and one may
\* recognise its start in the bytes and become active.
Deliver2(first, second) ==
  \E taken1, taken2 \in BOOLEAN :
    /\ taken2 => active # "no" \/ "detected" \in Transfers
    /\ active # "no" => taken1
    /\ taken1 => taken2
    /\ active' = IF taken2 /\ active = "no" THEN "detected" ELSE active
    /\ toClient' = toClient \o (IF taken1 THEN <<>> ELSE first)
                            \o (IF taken2 THEN <<>> ELSE second)
    /\ toTransfer' = toTransfer \o (IF taken1 THEN first ELSE <<>>)
                                \o (IF taken2 THEN second ELSE <<>>)
Deliver(bytes) == Deliver2(<<>>, bytes)

\* flushBufferedData, on the chunks bufs.  Mutant: the buffer is not emptied.
FlushKeeping(bufs) ==
  /\ lastFlush' = Wall
  /\ dataBuffer' = bufs
  /\ Deliver(Concat(bufs))
  /\ timer' = Off
Flush(bufs) ==
  /\ lastFlush' = Wall
  /\ dataBuffer' = <<>>
  /\ Deliver(Concat(bufs))
  /\ timer' = Off

\* The chunk c arrives.
Arrive(c) ==
  /\ open /\ now + Interval + SetBack <= MaxTime
  /\ Len(stream) + Len(c) <= MaxBytes
  /\ stream' = stream \o c
  /\ UNCHANGED <<open, now, skew>>
\* The first and the last position it takes.
Span(c) == <<Len(stream) + 1, Len(stream) + Len(c)>>

\* An active session takes the chunk at once, whatever waits in the buffer.
DataToTransfer(c) ==
  /\ active # "no"
  /\ Arrive(c)
  /\ toTransfer' = toTransfer \o Positions(Span(c))
  /\ UNCHANGED <<dataBuffer, timer, lastFlush, active, toClient>>

\* A chunk of more than 16 KB is not batched: what waits is flushed before it.
\* Mutant: it overtakes what waits.
Overtake(c) ==
  /\ Deliver(Positions(Span(c)))
  /\ UNCHANGED <<dataBuffer, lastFlush, timer>>
Bypass(c) ==
  /\ timer' = Off
  /\ dataBuffer' = <<>>
  /\ lastFlush' = IF dataBuffer = <<>> THEN lastFlush ELSE Wall
  /\ Deliver2(Concat(dataBuffer), Positions(Span(c)))
DataBypass(c) == c \in Large /\ active = "no" /\ Arrive(c) /\ Bypass(c)

\* `if (!sendTimeout) sendTimeout = setTimeout(...)`.  Mutant: every
\* chunk of a burst puts the flush off.
ArmExtended(d) == timer' = IF timer = Off THEN now + d ELSE timer + d
ArmUnlessPending(d) == timer' = IF timer = Off THEN now + d ELSE timer

\* A small chunk: flushed at once after an idle gap, unless it ends inside a
\* character; buffered under a timer otherwise.
DataBuffered(c) ==
  LET bufs    == Append(dataBuffer, Span(c))
      elapsed == Wall - lastFlush
  IN
  /\ c \notin Large /\ active = "no"
  /\ Arrive(c)
  /\ \/ /\ elapsed >= Interval /\ Incomplete(bufs)
        /\ ArmUnlessPending(Interval)
        /\ dataBuffer' = bufs
        /\ UNCHANGED <<lastFlush, active, toClient, toTransfer>>
     \/ /\ elapsed >= Interval /\ ~Incomplete(bufs)
        /\ Flush(bufs)
     \/ /\ elapsed < Interval
        /\ ArmUnlessPending(Interval - elapsed)
        /\ dataBuffer' = bufs
        /\ UNCHANGED <<lastFlush, active, toClient, toTransfer>>

\* The timer fires, on time or late.
TimerFires ==
  /\ timer # Off /\ now >= timer
  /\ IF dataBuffer = <<>>
     THEN timer' = Off /\ UNCHANGED <<dataBuffer, lastFlush, active, toClient, toTransfer>>
     ELSE Flush(dataBuffer)
  /\ UNCHANGED <<stream, open, now, skew>>

\* A client message starts an xmodem session; any session ends by itself.
StartTransfer ==
  /\ "started" \in Transfers /\ open /\ active = "no" /\ active' = "started"
  /\ UNCHANGED <<stream, dataBuffer, timer, lastFlush, toClient, toTransfer, open, now, skew>>
EndTransfer ==
  /\ active # "no" /\ active' = "no"
  /\ UNCHANGED <<stream, dataBuffer, timer, lastFlush, toClient, toTransfer, open, now, skew>>

\* onClose, of the terminal or of the websocket: what waits is not sent.
Close ==
  /\ open
  /\ open' = FALSE /\ timer' = Off /\ active' = "no"
  /\ UNCHANGED <<stream, dataBuffer, lastFlush, toClient, toTransfer, now, skew>>

Tick ==
  /\ now < MaxTime /\ now' = now + 1
  /\ UNCHANGED <<stream, dataBuffer, timer, lastFlush, active, toClient, toTransfer, open, skew>>

StepClock ==
  /\ skew' \in -SetBack .. 0 /\ skew' # skew
  /\ UNCHANGED <<stream, dataBuffer, timer, lastFlush, active, toClient, toTransfer, open, now>>

Data == \E c \in Chunks : DataToTransfer(c) \/ DataBypass(c) \/ DataBuffered(c)
OutputNext == Data \/ TimerFires \/ StartTransfer \/ EndTransfer \/ Close \/ Tick \/ StepClock

OutputSpec == OutputInit /\ [][OutputNext]_outputVars

-----------------------------------------------------------------------------
(* Properties.                                                             *)

OutputTypeOK ==
  /\ stream \in Seq({"a", "L2", "L3", "c"}) /\ Len(stream) <= MaxBytes
  /\ \A k \in DOMAIN dataBuffer : dataBuffer[k] \in (1 .. Len(stream)) \X (1 .. Len(stream))
  /\ timer = Off \/ timer \in Nat
  /\ lastFlush \in Int /\ skew \in Int /\ now \in 0 .. MaxTime
  /\ active \in {"no", "detected", "started"} /\ open \in BOOLEAN
  /\ toClient \in Seq(1 .. Len(stream)) /\ toTransfer \in Seq(1 .. Len(stream))

Rising(s) == \A k \in 1 .. Len(s) - 1 : s[k] < s[k + 1]

\* The browser receives the terminal's bytes in their order, none twice, with
\* every mixture of timers, fast flushes, large chunks and transfers.
ClientInOrder == Rising(toClient)

\* A byte is in one place: waiting, sent to the browser, or given to a transfer.
NothingLost ==
  Len(toClient) + Len(toTransfer) + Len(Concat(dataBuffer)) = Len(stream)

\* Both, with the types.
OutputInv == OutputTypeOK /\ ClientInOrder /\ NothingLost

\* What waits in the buffer has a timer to send it, due within one coalescing
\* window, which only a wall clock that is set back can prolong ("only chunks
\* arriving inside an active burst (floods) pay the 10ms wait"; elapsed compares two
\* readings of Date.now()).  Output can neither get stuck nor be put off.
WaitBounded ==
  open /\ dataBuffer # <<>> => timer # Off /\ timer <= now + Interval + SetBack

\* A transfer session recognised in the output is given its bytes in the order
\* they came, none of the bytes that waited before it recognised its start comes
\* late.  (One the client starts while output waits gets the newer bytes first.)
TransferInOrder ==
  [][active = "detected" => Rising(SubSeq(toTransfer', Len(toTransfer), Len(toTransfer')))]_outputVars

=============================================================================
