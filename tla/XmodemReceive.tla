---------------------------- MODULE XmodemReceive ----------------------------
(* Receiving a file by XMODEM over a serial terminal: the receiving half   *)
(* of XmodemSession (src/app/server/xmodem.js), with a sender of the usual *)
(* kind at the other end of a line that may corrupt or lose.               *)
(*                                                                         *)
(* The line to the session carries tokens: "head" stands for the bytes of  *)
(* a packet from SOH to its data, "tail" for one byte of the trailer, of   *)
(* which a packet has two by CRC and one by checksum, "byte" for another.  *)
(* A block's data is its index.  The parser works byte by byte and knows   *)
(* no packets between two of them: where the SOH is missing, or a packet   *)
(* ended within the head, the bytes that follow are read as what they are, *)
(* and first (the first byte of a token) and Inside say what that is.      *)
EXTENDS XmodemLine

CONSTANTS
  Blocks,     (* blocks of the file                                        *)
  Inside,     (* the control byte among a block's bytes after its SOH, for *)
              (* each block ("none": it has none)                          *)
  LongPacket, (* heads that make a packet of 1K, which begins with STX     *)
  AlwaysCrc,  (* the sender uses CRC even if asked by NAK                  *)
  PathFirst   (* the user gives the save path before the receive starts    *)

Controls == {"soh", "stx", "eot", "can"}
Reads    == Controls \cup {"none"}

ASSUME ReceiveAssumption ==
  /\ Blocks \in Nat \ {0} /\ Inside \in [1 .. Blocks -> Reads]
  /\ LongPacket \in Nat \ {0, 1} /\ AlwaysCrc \in BOOLEAN /\ PathFirst \in BOOLEAN

VARIABLES
  session,    (* the fields of XmodemSession, see SessionType              *)
  started,    (* startReceive has run                                      *)
  sender,     (* "ready", "sending", "eot", "done", "cancelled", "dead"    *)
  next        (* the block the sender is at                                *)

receiveVars == <<session, started, toHost, toRemote, sender, next, budget>>

SessionType == [
  state    : {"idle", "waiting", "receiving"},  \* its timer runs unless idle
  path     : BOOLEAN,                           \* savePath is set
  stream   : BOOLEAN,                           \* downloadStream is open
  expected : Nat \ {0},                         \* expectedBlock
  retries  : 0 .. MaxRetries,
  buf      : Seq([kind : {"head", "tail", "byte"}, first : Reads,
                  form : {"sound", "damaged", "short"},
                  num : 0 .. BlockMod - 1, data : 0 .. Blocks]),
  written  : Seq(1 .. Blocks),                  \* blocks of the file on disk
  outcome  : {"none", "complete", "ended"},     \* what the client was told
  reply    : Seq({"ack", "nak", "can"}),        \* written to the terminal
  stray    : SUBSET Controls ]                  \* history: taken for control bytes

HeadOf(b) == [kind |-> "head", first |-> "soh", form |-> "sound",
              num |-> b % BlockMod, data |-> b]
Byte(kind, first, form) ==
  [kind |-> kind, first |-> first, form |-> form, num |-> 0, data |-> 0]
TailByte  == Byte("tail", "none", "sound")
EotByte   == Byte("byte", "eot", "sound")
IsHead(t) == t.kind = "head"

\* A packet whose number, data and trailer are where the parser looks for them.
Plain(t)   == IsHead(t) /\ t.first = "soh" /\ t.form # "short"
EndsFile(t) == ~IsHead(t) /\ t.first = "eot" /\ t.form = "sound"
PacketSize == 3  \* tokens of a packet with CRC: useCrc stays TRUE

ReceiveInit ==
  /\ session = [state |-> "idle", path |-> FALSE, stream |-> FALSE, expected |-> 1,
                retries |-> 0, buf |-> <<>>, written |-> <<>>, outcome |-> "none",
                reply |-> <<>>, stray |-> {}]
  /\ started = FALSE
  /\ toHost = <<>> /\ toRemote = <<>>
  /\ sender = "ready" /\ next = 1
  /\ budget \in [faults : FaultSets, left : {Budget}]

-----------------------------------------------------------------------------
(* The session: each operator is the fields after a method ran on them.    *)

\* resetState, with the client told o and the bytes answer written.
Ended(r, o, answer) ==
  [r EXCEPT !.state = "idle", !.path = FALSE, !.stream = FALSE, !.expected = 1,
            !.retries = 0, !.buf = <<>>, !.outcome = o, !.reply = @ \o answer]

Answered(r, byte) == [r EXCEPT !.reply = Append(@, byte)]

\* sendNak.
Naked(r) ==
  IF TooMany(r.retries + 1)
  THEN Ended(r, "ended", <<"can">>)
  ELSE [Answered(r, "nak") EXCEPT !.retries = @ + 1]

\* prepareReceiveFile and the write of a block: nothing without a path.
\* Mutant: the block after the first is written over it.
WrittenOver(r, b) ==
  IF r.stream \/ r.path
  THEN [r EXCEPT !.stream = TRUE, !.written = <<b>>]
  ELSE r
Written(r, b) ==
  IF r.stream \/ r.path
  THEN [r EXCEPT !.stream = TRUE, !.written = Append(@, b)]
  ELSE r

\* Which block a number is: the expected one, the one before, or another.
\* Mutant: the repetition of a block is taken for the next one.
IsExpectedToo(r, num) == num \in {r.expected % BlockMod, (r.expected - 1) % BlockMod}
IsExpected(r, num)    == num = r.expected % BlockMod
IsRepeated(r, num)    == num = (r.expected - 1) % BlockMod

\* processReceivedPacket.
Valid(packet) ==
  /\ Plain(packet[1]) /\ packet[1].form = "sound"
  /\ packet[2].kind = "tail" /\ packet[3].kind = "tail"
Processed(r, packet) ==
  LET num == packet[1].num IN
  CASE ~Valid(packet) -> Naked(r)
    [] Valid(packet) /\ IsExpected(r, num) ->
         [Answered(Written(r, packet[1].data), "ack") EXCEPT !.expected = @ + 1, !.retries = 0]
    [] Valid(packet) /\ ~IsExpected(r, num) /\ IsRepeated(r, num) -> Answered(r, "ack")
    [] OTHER -> Ended(r, "ended", <<"can">>)

\* handleReceiveComplete: EOT.
ReceiveComplete(r) == Ended(r, "complete", <<"ack">>)

\* What a token is read as at the start of the buffer, and whether it is that.
ReadAs(t)  == IF IsHead(t) /\ t.first = "none" THEN Inside[t.data] ELSE t.first
Genuine(t) == (IsHead(t) /\ t.first = "soh") \/ EndsFile(t)
Noted(r, t) == IF Genuine(t) THEN r ELSE [r EXCEPT !.stray = @ \cup {ReadAs(t)}]

\* A packet that begins within a head is a part of one.
Opening(t) == IF t.first = "none" THEN [t EXCEPT !.first = ReadAs(t), !.form = "short"] ELSE t

\* The loop of handleReceiveData where the buffer begins with the token t.
Begin(r, t) ==
  CASE ReadAs(t) = "eot" -> ReceiveComplete(Noted(r, t))
    [] ReadAs(t) = "can" -> Ended(Noted(r, t), "ended", <<>>)
    [] ReadAs(t) \in {"soh", "stx"} -> [Noted(r, t) EXCEPT !.buf = <<Opening(t)>>]
    [] OTHER -> r

\* With t there is enough for the packet that the buffer begins with.  One that is
\* short, or long, takes the first bytes of the head that comes next, as does a
\* packet that lost its trailer; of what cannot make it valid only heads are kept.
Fills(buf, t) ==
  \/ IsHead(t) /\ (buf[1].first = "stx" => Len(buf) + 1 >= LongPacket)
  \/ Plain(buf[1]) /\ Len(buf) + 1 >= PacketSize
Kept(buf, t) == IF Plain(buf[1]) \/ IsHead(t) THEN Append(buf, t) ELSE buf

\* What remains of a head that a packet took the first bytes of.
Rest(t) == [t EXCEPT !.first = "none"]

\* One token more in the buffer of handleReceiveData, and its loop as far as it
\* goes; what follows the end of a session is dropped with its buffer.
TakeToken(r, t) ==
  CASE r.state # "receiving" -> r
    [] r.state = "receiving" /\ r.buf = <<>> -> Begin(r, t)
    [] r.state = "receiving" /\ r.buf # <<>> /\ ~Fills(r.buf, t) -> [r EXCEPT !.buf = Kept(@, t)]
    [] OTHER ->
         LET q == Processed([r EXCEPT !.buf = <<>>], Append(r.buf, t)) IN
         IF IsHead(t) /\ q.state = "receiving" THEN Begin(q, Rest(t)) ELSE q
HandleReceiveData(r, tokens) ==
  LET after[k \in 0 .. Len(tokens)] == IF k = 0 THEN r ELSE TakeToken(after[k - 1], tokens[k])
  IN  after[Len(tokens)]

\* handleReceiveWaitData: what precedes the first SOH or STX is dropped.
Wakes(t) == t.first \in {"soh", "stx"} \/ (IsHead(t) /\ Inside[t.data] \in {"soh", "stx"})
Woken(t) == IF t.first \in {"soh", "stx"} THEN t ELSE Rest(t)
Opened(r) == [r EXCEPT !.state = "receiving", !.buf = <<>>]
HandleReceiveWait(r, tokens) ==
  LET at == Earliest({k \in DOMAIN tokens : Wakes(tokens[k])}) IN
  IF at = 0 THEN r
  ELSE HandleReceiveData(Begin(Opened(r), Woken(tokens[at])),
                         SubSeq(tokens, at + 1, Len(tokens)))

HandleData(r, tokens) ==
  CASE r.state = "idle"      -> r
    [] r.state = "waiting"   -> HandleReceiveWait(r, tokens)
    [] r.state = "receiving" -> HandleReceiveData(r, tokens)

\* The session becomes r, and its replies go to the line.
Become(r) ==
  /\ session' = [r EXCEPT !.reply = <<>>]
  /\ toRemote' = toRemote \o r.reply

StartReceive ==
  /\ session.state # "receiving" /\ session.outcome = "none" /\ ~started /\ (PathFirst => session.path)
  /\ started' = TRUE
  /\ Become([session EXCEPT !.state = "waiting", !.expected = 1, !.buf = <<>>, !.retries = 0])
  /\ UNCHANGED <<toHost, sender, next, budget>>

SetSavePath ==
  /\ ~session.path /\ session.outcome = "none" /\ (~PathFirst => started)
  /\ LET r == [session EXCEPT !.path = TRUE] IN
     Become(IF r.buf # <<>>
            THEN HandleReceiveData(Opened(r), r.buf)
            ELSE [r EXCEPT !.state = "waiting"])
  /\ UNCHANGED <<started, toHost, sender, next, budget>>

HostReadsTokens ==
  /\ \E n \in DOMAIN toHost :
       /\ Become(HandleData(session, SubSeq(toHost, 1, n)))
       /\ toHost' = SubSeq(toHost, n + 1, Len(toHost))
  /\ UNCHANGED <<started, sender, next, budget>>

\* The callback of resetReceiveTimeout.  Mutant: it waits for the sender for ever.
TimedOutNot(r) == IF r.state = "receiving" THEN Naked(r) ELSE r
TimedOut(r) ==
  IF r.state = "waiting" /\ TooMany(r.retries + 1) THEN Ended(r, "ended", <<>>)
  ELSE Naked(r)

Quiet == toHost = <<>> /\ (toRemote = <<>> \/ sender = "dead")
Timeout ==
  /\ session.state # "idle"
  /\ Become(TimedOut(session))
  /\ \/ Quiet /\ UNCHANGED budget
     \/ ~Quiet /\ Fault("late")
  /\ UNCHANGED <<started, toHost, sender, next>>

CancelReceive ==
  /\ session.state # "idle" /\ Fault("cancel")
  /\ Become(Ended(session, "ended", <<"can">>))
  /\ UNCHANGED <<started, toHost, sender, next>>

\* destroy: the terminal closes, and with it the line.
DestroyReceive ==
  /\ session.state # "idle" /\ Fault("cancel")
  /\ Become(Ended(session, "ended", <<>>))
  /\ sender' = "dead"
  /\ UNCHANGED <<started, toHost, next>>

-----------------------------------------------------------------------------
(* The sender and the line.                                                *)

PacketOf(b) == <<HeadOf(b), TailByte>> \o IF AlwaysCrc THEN <<TailByte>> ELSE <<>>

\* The sender goes to block b, or past the last one to its EOT.
SendBlock(b) ==
  /\ next' = b
  /\ sender' = IF b <= Blocks THEN "sending" ELSE "eot"
  /\ toHost' = toHost \o (IF b <= Blocks THEN PacketOf(b) ELSE <<EotByte>>)
SenderStops(how) == sender' = how /\ UNCHANGED <<toHost, next>>

SenderReads ==
  /\ toRemote # <<>> /\ sender # "dead"
  /\ toRemote' = Tail(toRemote)
  /\ LET answer == Head(toRemote) IN
     \/ sender = "ready" /\ answer = "nak" /\ SendBlock(1)
     \/ sender = "sending" /\ answer = "ack" /\ SendBlock(next + 1)
     \/ sender \in {"sending", "eot"} /\ answer = "nak" /\ SendBlock(next)
     \/ sender = "eot" /\ answer = "ack" /\ SenderStops("done")
     \/ sender \in {"ready", "sending", "eot"} /\ answer = "can" /\ SenderStops("cancelled")
     \/ /\ sender \in {"done", "cancelled"} \/ answer = "junk"
        /\ UNCHANGED <<toHost, sender, next>>
  /\ UNCHANGED <<session, started, budget>>

\* A damaged SOH is another control byte, or none; so is an EOT, or a trailer,
\* but it does not open a packet; other damage the CRC or the complement shows.
Damaged(t) ==
  IF IsHead(t) THEN {[t EXCEPT !.form = "damaged"]}
                    \cup {[t EXCEPT !.first = c] : c \in Reads \ {"soh"}}
               ELSE {Byte("byte", c, "damaged") : c \in {"none", "eot", "can"}}
CorruptToken ==
  /\ Fault("corrupt")
  /\ \E k \in DOMAIN toHost : \E t \in Damaged(toHost[k]) : toHost' = [toHost EXCEPT ![k] = t]
  /\ UNCHANGED <<session, started, toRemote, sender, next>>
CorruptReply ==
  /\ Fault("corrupt")
  /\ \E k \in DOMAIN toRemote : toRemote' = [toRemote EXCEPT ![k] = "junk"]
  /\ UNCHANGED <<session, started, toHost, sender, next>>
\* A head is lost as a whole, or its SOH, or a part of its data.
LoseToken ==
  /\ Fault("lose")
  /\ \E k \in DOMAIN toHost :
       \/ toHost' = Without(toHost, k)
       \/ /\ IsHead(toHost[k])
          /\ \/ toHost' = [toHost EXCEPT ![k].first = "none"]
             \/ toHost' = [toHost EXCEPT ![k].form = "short"]
  /\ UNCHANGED <<session, started, toRemote, sender, next>>
LoseReply ==
  /\ Fault("lose")
  /\ \E k \in DOMAIN toRemote : toRemote' = Without(toRemote, k)
  /\ UNCHANGED <<session, started, toHost, sender, next>>
SenderDies ==
  /\ sender \in {"ready", "sending", "eot"} /\ Fault("die")
  /\ sender' = "dead"
  /\ UNCHANGED <<session, started, toHost, toRemote, next>>

\* What XmodemManager passes on to the session.
ReceiveUser   == StartReceive \/ SetSavePath \/ CancelReceive \/ DestroyReceive
ReceiveLine   == CorruptToken \/ CorruptReply \/ LoseToken \/ LoseReply
ReceiveNext   == ReceiveUser \/ HostReadsTokens \/ Timeout \/ SenderReads \/ SenderDies \/ ReceiveLine

\* The line delivers, the sender answers, and the session's timer fires when it
\* hears nothing.
ReceiveFairness == WF_receiveVars(HostReadsTokens) /\ WF_receiveVars(SenderReads) /\ WF_receiveVars(Timeout /\ Quiet)
ReceiveSpec     == ReceiveInit /\ [][ReceiveNext]_receiveVars
ReceiveFairSpec == ReceiveSpec /\ ReceiveFairness

-----------------------------------------------------------------------------
(* Properties.                                                             *)

ReceiveTypeOK ==
  /\ session \in SessionType
  /\ started \in BOOLEAN /\ next \in 1 .. Blocks + 1
  /\ budget \in [faults : FaultSets, left : 0 .. Budget]
  /\ sender \in {"ready", "sending", "eot", "done", "cancelled", "dead"}

\* What is on disk is a prefix of the file, through damage, loss, repeated
\* blocks, stale answers and bytes that are taken for packets, when the path was
\* given first.
WrittenIsPrefix == \A k \in DOMAIN session.written : session.written[k] = k

\* The above, with the types.
ReceiveInv == ReceiveTypeOK /\ WrittenIsPrefix

\* A receive reported complete has the whole file on disk, unless a byte of a block
\* was taken for EOT where the SOH before it was damaged or lost.  True when the path
\* was given first ("Waiting for save path - buffer data": nothing ever enters
\* that state; blocks that come before the path are acknowledged and dropped)
\* and answers are not later than the timers.
CompleteMeansAll ==
  session.outcome = "complete" /\ InTime /\ "eot" \notin session.stray =>
    session.written = [k \in 1 .. Blocks |-> k]

\* With a sender that lives, less damage than retries and CRC unasked, a receive ends
\* complete ("Supports XMODEM-CRC"), unless bytes were taken for control bytes that
\* are none.  (The usual sender, prompted by NAK, answers with checksum packets, which
\* are parsed as CRC: no receive completes.)
ReceiveCompletes ==
  (budget.faults \subseteq {"corrupt"} /\ started)
    ~> (session.outcome = "complete" \/ session.stray # {})

\* A session ends whatever becomes of the sender and of the line.
ReceiveEnds == (session.state # "idle") ~> (session.state = "idle")

\* A receive over a damaged line completes while its packets are found where they
\* begin, and every receive ends.
ReceiveSettles == ReceiveCompletes /\ ReceiveEnds
=============================================================================
