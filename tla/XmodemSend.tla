----------------------------- MODULE XmodemSend -----------------------------
(* Sending a file by XMODEM over a serial terminal: the sending half of    *)
(* XmodemSession (src/app/server/xmodem.js), with a receiver of the usual  *)
(* kind at the other end of a line that may corrupt, lose or delay.        *)
(*                                                                         *)
(* The file is the sequence of its units 1 .. FileSize, a packet carries   *)
(* Packet of them, filled up with Pad.  Sessions send one file: the first  *)
(* EOT ends them, so currentFileIndex stays 0.                             *)
EXTENDS XmodemLine

CONSTANTS
  FileSize,   (* units of the file                                         *)
  Packet      (* units of a packet (packetSize)                            *)

ASSUME SendAssumption == FileSize \in Nat /\ Packet \in Nat \ {0}

VARIABLES
  state,      (* "idle", "waiting" (waiting_remote; its timer is always    *)
              (* armed), "sending"                                         *)
  pending,    (* pendingFiles is not empty                                 *)
  fd,         (* uploadFd is open                                          *)
  block,      (* sendBlock                                                 *)
  sent,       (* sentBytes                                                 *)
  retries,
  timer,      (* sendTimeout is armed                                      *)
  outcome,    (* "none", then what the client was told: "complete" or      *)
              (* "ended"                                                   *)
  remote,     (* "prompting", "receiving", "done", "cancelled", "dead"     *)
  expected,   (* the receiver's next block number                          *)
  received    (* the units it has stored                                   *)

host == <<state, pending, fd, block, sent, retries, timer, outcome>>
peer == <<remote, expected, received>>
sendVars == <<host, toRemote, toHost, peer, budget>>

Pad == 0
Unit(k) == IF k <= FileSize THEN k ELSE Pad
Frame(kind) == [kind |-> kind, num |-> 0, data |-> <<>>]

\* The packet of block b read at position s.
BlockFrame(b, s) ==
  [kind |-> "block", num |-> b % BlockMod, data |-> [k \in 1 .. Packet |-> Unit(s + k)]]

SendInit ==
  /\ state = "idle" /\ pending = FALSE /\ fd = FALSE
  /\ block = 1 /\ sent = 0 /\ retries = 0 /\ timer = FALSE
  /\ outcome = "none"
  /\ toRemote = <<>> /\ toHost = <<>>
  /\ remote = "prompting" /\ expected = 1 /\ received = <<>>
  /\ budget \in [faults : FaultSets, left : {Budget}]

-----------------------------------------------------------------------------
(* The session.                                                            *)

\* resetState, after the frames fs were written and the client was told o.
Reset(fs, o) ==
  /\ toRemote' = toRemote \o fs
  /\ outcome' = o
  /\ state' = "idle" /\ pending' = FALSE /\ fd' = FALSE
  /\ block' = 1 /\ sent' = 0 /\ retries' = 0 /\ timer' = FALSE

EndSession(fs) == Reset(fs, "ended")

\* sendEot.
SendEot == Reset(<<Frame("eot")>>, "complete")

\* resetSendTimeout.
Arm == timer' = TRUE

SendPacket(b, s, r) ==
  /\ toRemote' = Append(toRemote, BlockFrame(b, s))
  /\ state' = "sending" /\ fd' = TRUE /\ Arm
  /\ block' = b /\ retries' = r
  /\ sent' = IF s + Packet < FileSize THEN s + Packet ELSE FileSize
  /\ UNCHANGED <<pending, outcome>>

\* Nothing remains to be sent.  Mutant: the last packet is forgotten.
NoLastPacket(s) == s + Packet >= FileSize
NoneRemains(s)  == s >= FileSize

\* sendNextPacket, for the session at block b and position s after r retries;
\* opening the file starts it again at its first block.
SendNextPacket(b, s, r) ==
  LET at == IF fd THEN s ELSE 0 IN
  \/ NoneRemains(at)  /\ SendEot /\ UNCHANGED budget
  \/ ~NoneRemains(at) /\ SendPacket(IF fd THEN b ELSE 1, at, r) /\ UNCHANGED budget
  \/ ~fd /\ Fault("open") /\ EndSession(<<Frame("can")>>)

\* Back to the start of the current packet.  Mutant: not at all.
RewindNot == sent
Rewind    == IF sent > Packet THEN sent - Packet ELSE 0

\* start-send.
StartSend ==
  /\ state = "idle" /\ outcome = "none"
  /\ state' = "waiting" /\ block' = 1 /\ sent' = 0 /\ retries' = 0
  /\ UNCHANGED <<pending, fd, timer, outcome, toRemote, toHost, peer, budget>>

\* send-files: before or after start-send.
SetSendFiles ==
  /\ state # "sending" /\ outcome = "none" /\ ~pending
  /\ pending' = TRUE
  /\ UNCHANGED <<state, fd, block, sent, retries, timer, outcome, toRemote, toHost, peer, budget>>

\* The first of the bytes bs that is one of the kinds, or "none".
FirstOf(bs, kinds) ==
  LET at == Earliest({k \in DOMAIN bs : bs[k] \in kinds}) IN
  IF at = 0 THEN "none" ELSE bs[at]

\* handleData, on the bytes bs of one read.  What follows the byte that decides
\* is dropped.
Ignore == UNCHANGED <<host, toRemote, budget>>
HandleSendWait(bs) ==
  IF ~pending \/ FirstOf(bs, {"nak", "C"}) = "none" THEN Ignore
  ELSE SendNextPacket(block, sent, 0)

\* NAK.
Resend(r) ==
  \/ TooMany(r) /\ EndSession(<<Frame("can")>>) /\ UNCHANGED budget
  \/ ~TooMany(r) /\ SendNextPacket(block, Rewind, r)

HandleResponse(bs) ==
  LET answer == FirstOf(bs, {"ack", "nak", "can"}) IN
  \/ answer = "ack" /\ SendNextPacket(block + 1, sent, 0)
  \/ answer = "nak" /\ Resend(retries + 1)
  \/ answer = "can" /\ EndSession(<<>>) /\ UNCHANGED budget
  \/ /\ answer = "none" /\ timer' = FALSE
     /\ UNCHANGED <<state, pending, fd, block, sent, retries, outcome, toRemote, budget>>

HostReadsAnswers ==
  /\ \E n \in DOMAIN toHost :
       LET bs == SubSeq(toHost, 1, n) IN
       /\ toHost' = SubSeq(toHost, n + 1, Len(toHost))
       /\ \/ state = "idle"    /\ Ignore
          \/ state = "waiting" /\ HandleSendWait(bs)
          \/ state = "sending" /\ HandleResponse(bs)
  /\ UNCHANGED peer

\* The callback of resetReceiveTimeout while waiting for the receiver.
WaitTimeout ==
  /\ state = "waiting"
  /\ \/ TooMany(retries + 1) /\ EndSession(<<>>)
     \/ /\ ~TooMany(retries + 1) /\ retries' = retries + 1
        /\ toRemote' = IF pending THEN toRemote ELSE Append(toRemote, Frame("nak"))
        /\ UNCHANGED <<state, pending, fd, block, sent, timer, outcome>>

\* The callback of resetSendTimeout.
AckTimeout ==
  /\ state = "sending" /\ timer
  /\ \/ TooMany(retries + 1) /\ EndSession(<<>>)
     \/ /\ ~TooMany(retries + 1) /\ sent >= FileSize
        /\ retries' = retries + 1
        /\ toRemote' = Append(toRemote, Frame("eot"))
        /\ UNCHANGED <<state, pending, fd, block, sent, timer, outcome>>
     \/ /\ ~TooMany(retries + 1) /\ sent < FileSize
        /\ SendPacket(block, Rewind, retries + 1)

\* A timer of the session fires: the receiver is dead, or its answer is late.
HostTimeout ==
  /\ WaitTimeout \/ AckTimeout
  /\ \/ remote = "dead" /\ UNCHANGED budget
     \/ Fault("late")
  /\ UNCHANGED <<toHost, peer>>

CancelSend ==
  /\ state # "idle" /\ Fault("cancel")
  /\ EndSession(<<Frame("can")>>)
  /\ UNCHANGED <<toHost, peer>>

\* destroy: the terminal closes, and with it the line.
DestroySend ==
  /\ state # "idle" /\ Fault("cancel")
  /\ EndSession(<<>>)
  /\ remote' = "dead"
  /\ UNCHANGED <<toHost, expected, received>>

-----------------------------------------------------------------------------
(* The receiver and the line.                                              *)

Live == remote \in {"prompting", "receiving"}
Answer(byte) == toHost' = Append(toHost, byte)

Store(f) ==
  /\ received' = received \o f.data
  /\ expected' = expected + 1
  /\ remote' = "receiving"
  /\ Answer("ack")

Stop(how, byte) ==
  /\ remote' = how
  /\ Answer(byte)
  /\ UNCHANGED <<expected, received>>

TakeBlock(f) ==
  \/ f.num = expected % BlockMod /\ Store(f)
  \/ f.num = (expected - 1) % BlockMod /\ Answer("ack") /\ UNCHANGED peer
  \/ f.num \notin {expected % BlockMod, (expected - 1) % BlockMod} /\ Stop("cancelled", "can")

RemoteReads ==
  /\ toRemote # <<>> /\ remote # "dead"
  /\ toRemote' = Tail(toRemote)
  /\ LET f == Head(toRemote) IN
     \/ ~Live /\ UNCHANGED <<toHost, peer>>
     \/ Live /\ f.kind = "block" /\ TakeBlock(f)
     \/ Live /\ f.kind = "bad" /\ Answer("nak") /\ UNCHANGED peer
     \/ Live /\ f.kind = "eot" /\ Stop("done", "ack")
     \/ /\ Live /\ f.kind = "can" /\ remote' = "cancelled"
        /\ UNCHANGED <<toHost, expected, received>>
     \/ Live /\ f.kind = "nak" /\ UNCHANGED <<toHost, peer>>
  /\ UNCHANGED <<host, budget>>

\* The receiver prompts, or asks again, when the line is quiet, or too early.
RemoteAsks ==
  /\ Live
  /\ \/ Answer("nak")
     \/ remote = "prompting" /\ Answer("C")
  /\ UNCHANGED <<host, toRemote, peer>>
RemoteTimeout == RemoteAsks /\ toRemote = <<>> /\ toHost = <<>> /\ UNCHANGED budget
RemoteEarly   == RemoteAsks /\ Fault("late")

CorruptFrame ==
  /\ Fault("corrupt")
  /\ \E k \in DOMAIN toRemote : toRemote' = [toRemote EXCEPT ![k] = Frame("bad")]
  /\ UNCHANGED <<host, toHost, peer>>
CorruptAnswer ==
  /\ Fault("corrupt")
  /\ \E k \in DOMAIN toHost : toHost' = [toHost EXCEPT ![k] = "junk"]
  /\ UNCHANGED <<host, toRemote, peer>>
LoseFrame ==
  /\ Fault("lose")
  /\ \E k \in DOMAIN toRemote : toRemote' = Without(toRemote, k)
  /\ UNCHANGED <<host, toHost, peer>>
LoseAnswer ==
  /\ Fault("lose")
  /\ \E k \in DOMAIN toHost : toHost' = Without(toHost, k)
  /\ UNCHANGED <<host, toRemote, peer>>
RemoteDies ==
  /\ Live /\ Fault("die")
  /\ remote' = "dead"
  /\ UNCHANGED <<host, toRemote, toHost, expected, received>>

\* What XmodemManager passes on to the session.
SendUser    == StartSend \/ SetSendFiles \/ CancelSend \/ DestroySend
Session == HostReadsAnswers \/ HostTimeout
Remote  == RemoteReads \/ RemoteTimeout \/ RemoteEarly \/ RemoteDies
SendLine    == CorruptFrame \/ CorruptAnswer \/ LoseFrame \/ LoseAnswer
SendNext    == SendUser \/ Session \/ Remote \/ SendLine

\* The line delivers, the receiver asks again when it hears nothing, not always
\* by "C", and the session's timers fire when the receiver is gone.
SendFairness ==
  /\ WF_sendVars(HostReadsAnswers) /\ WF_sendVars(RemoteReads) /\ WF_sendVars(RemoteTimeout)
  /\ SF_sendVars(RemoteTimeout /\ toHost' = <<"nak">>)
  /\ WF_sendVars(remote = "dead" /\ HostTimeout)
SendSpec     == SendInit /\ [][SendNext]_sendVars
SendFairSpec == SendSpec /\ SendFairness

-----------------------------------------------------------------------------
(* Properties.                                                             *)

SendTypeOK ==
  /\ state \in {"idle", "waiting", "sending"}
  /\ pending \in BOOLEAN /\ fd \in BOOLEAN /\ timer \in BOOLEAN
  /\ block \in Nat \ {0} /\ sent \in 0 .. FileSize /\ retries \in 0 .. MaxRetries
  /\ outcome \in {"none", "complete", "ended"}
  /\ \A k \in DOMAIN toRemote : toRemote[k].kind \in {"block", "bad", "eot", "can", "nak"}
  /\ \A k \in DOMAIN toHost : toHost[k] \in {"ack", "nak", "can", "C", "junk"}
  /\ remote \in {"prompting", "receiving", "done", "cancelled", "dead"}
  /\ expected \in Nat \ {0} /\ budget \in [faults : FaultSets, left : 0 .. Budget]

\* The receiver holds the file's units in their places, with every mixture of
\* corruption, loss, late timers and repeated acknowledgements.  True of files
\* of whole packets only: "Re-read and resend the same block" goes back by a
\* full packet from the end of a short one.
RemoteGetsPrefix == \A k \in DOMAIN received : received[k] = Unit(k)

\* The above, with the types; and the descriptor is open exactly while blocks are sent.
SendInv == SendTypeOK /\ RemoteGetsPrefix /\ (fd <=> state = "sending")

\* A send reported complete has put every unit of the file into the receiver's
\* hands.
CompleteMeansStored == outcome = "complete" => Len(received) >= FileSize

\* The same while no answer is later than the timers.  ("Resend EOT if we
\* already sent it, otherwise resend packet": a timer sends the first EOT while
\* the last block is not acknowledged.)
CompleteInTime == InTime => CompleteMeansStored

\* With a live receiver and no more damage than retries, a send ends complete.
SendCompletes ==
  (budget.faults \subseteq {"corrupt"} /\ state = "waiting" /\ pending) ~> (outcome = "complete")

\* A session in progress ends, though the receiver dies at any point ("10s
\* timeout waiting for ACK"), on a line that delivers.  (Where the last byte
\* heard of it is no answer, damaged or a second "C", it stops the timer.)
SendEnds ==
  (budget.faults \subseteq {"die", "open", "cancel"} /\ state = "sending") ~> (state = "idle")

\* A send over a damaged line completes, and one whose receiver dies ends.
SendSettles == SendCompletes /\ SendEnds
=============================================================================
