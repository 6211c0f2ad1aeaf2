---------------------------- MODULE XmodemProofs ----------------------------
(***************************************************************************)
(* Proofs about XmodemSend and XmodemReceive, for any file, packet size,   *)
(* number of retries and block number modulus.                             *)
(*                                                                         *)
(* A send: as long as no answer is later than the timers (InTime), the     *)
(* session and the receiver stop and wait: one block at most is under way, *)
(* it is the one the receiver expects or the one before it, and an answer  *)
(* under way is an answer to it (StopAndWait).  So a complete send has put *)
(* the whole file into the receiver's hands; for files of whole packets,   *)
(* what the receiver holds is always a prefix of the file.                 *)
(*                                                                         *)
(* A receive: when the path was given first, the session and the sender    *)
(* alternate in the same way, at the level of the bytes: of what is under  *)
(* way or in the session's buffer, one packet at most begins, and replies  *)
(* under way are to it (Alternate).  Bytes that are taken for a packet are *)
(* only ever answered by a nak, after which the sender repeats itself.     *)
(* The session reads several tokens at once; a read is followed token by   *)
(* token (Runs), and RunAlternates says what holds between two of them.    *)
(* So what is on disk is a prefix of the file, and a complete receive has  *)
(* all of it, unless a byte of a block was taken for EOT.                  *)
(***************************************************************************)
EXTENDS XmodemSend, XmodemReceive, SequenceTheorems, FiniteSetTheorems,
        WellFoundedInduction, TLAPS

-----------------------------------------------------------------------------
(* The line.                                                               *)

\* What Without leaves: all but one token, in order.
LEMMA WithoutIs ==
  ASSUME NEW S, NEW s \in Seq(S), NEW k \in DOMAIN s
  PROVE  /\ Without(s, k) \in Seq(S) /\ Len(Without(s, k)) = Len(s) - 1
         /\ \A i \in 1 .. Len(s) - 1 : Without(s, k)[i] = IF i < k THEN s[i] ELSE s[i + 1]
<1>. DEFINE n == Len(s)  a == SubSeq(s, 1, k - 1)  b == SubSeq(s, k + 1, n)
<1>1. n \in Nat /\ k \in 1 .. n /\ k \in Nat
  BY LenProperties
<1>2. a \in Seq(S) /\ Len(a) = k - 1 /\ \A i \in 1 .. k - 1 : a[i] = s[i]
  <2>1. \A i \in 1 .. k - 1 : s[i] \in S
    BY <1>1, ElementOfSeq
  <2>2. a \in Seq(S) /\ Len(a) = (IF 1 <= k - 1 THEN k - 1 - 1 + 1 ELSE 0)
        /\ \A i \in 1 .. k - 1 - 1 + 1 : a[i] = s[1 + i - 1]
    BY <1>1, <2>1, SubSeqProperties
  <2>. HIDE DEF a
  <2>. QED BY <1>1, <2>2
<1>3. b \in Seq(S) /\ Len(b) = n - k /\ \A i \in 1 .. n - k : b[i] = s[k + i]
  <2>1. \A i \in k + 1 .. n : s[i] \in S
    BY <1>1, ElementOfSeq
  <2>2. b \in Seq(S) /\ Len(b) = (IF k + 1 <= n THEN n - (k + 1) + 1 ELSE 0)
        /\ \A i \in 1 .. n - (k + 1) + 1 : b[i] = s[(k + 1) + i - 1]
    BY <1>1, <2>1, SubSeqProperties
  <2>. HIDE DEF b, n
  <2>. QED BY <1>1, <2>2
<1>. HIDE DEF a, b
<1>4. /\ a \o b \in Seq(S) /\ Len(a \o b) = Len(a) + Len(b)
      /\ \A i \in 1 .. Len(a) + Len(b) : (a \o b)[i] = IF i <= Len(a) THEN a[i] ELSE b[i - Len(a)]
  BY <1>2, <1>3, ConcatProperties
<1>5. Without(s, k) = a \o b
  BY DEF Without, a, b
<1>. HIDE DEF n
<1>6. Len(a) + Len(b) = n - 1
  BY <1>1, <1>2, <1>3
<1>7. ASSUME NEW i \in 1 .. n - 1 PROVE (a \o b)[i] = IF i < k THEN s[i] ELSE s[i + 1]
  <2>1. (a \o b)[i] = IF i <= k - 1 THEN a[i] ELSE b[i - (k - 1)]
    BY <1>1, <1>2, <1>4, <1>6
  <2>2. CASE i < k
    BY <1>1, <1>2, <2>1, <2>2
  <2>3. CASE ~(i < k)
    <3>1. i - (k - 1) \in 1 .. n - k /\ k + (i - (k - 1)) = i + 1
      BY <1>1, <2>3
    <3>2. b[i - (k - 1)] = s[k + (i - (k - 1))]
      BY <1>3, <3>1
    <3>3. (a \o b)[i] = b[i - (k - 1)]
      BY <1>1, <2>1, <2>3
    <3>. QED BY <2>3, <3>1, <3>2, <3>3
  <2>. QED BY <2>2, <2>3
<1>. QED BY <1>4, <1>5, <1>6, <1>7 DEF n

\* Numbers less than BlockMod apart differ on the line.
LEMMA Apart ==
  ASSUME NEW b \in Nat, NEW c \in Nat, b < c, c < b + BlockMod
  PROVE  b % BlockMod # c % BlockMod
<1>1. BlockMod \in Nat \ {0, 1}
  BY LineAssumption
<1>2. ASSUME NEW m \in Nat \ {0, 1}, NEW d \in Nat
      PROVE  \E a \in 0 .. m - 1, q \in Nat : d = a + m * q /\ d % m = a
  <2>1. d \div m \in Nat /\ d % m \in 0 .. m - 1
    OBVIOUS
  <2>2. d = (d % m) + m * (d \div m)
    OBVIOUS
  <2>. QED BY <2>1, <2>2
<1>3. ASSUME NEW m \in Nat \ {0, 1}, NEW p \in Nat, NEW q \in Nat, NEW x \in 0 .. m - 1,
             b = x + m * p, c = x + m * q, c < b + m
      PROVE  FALSE
  BY <1>3
<1>4. PICK x \in 0 .. BlockMod - 1, p \in Nat : b = x + BlockMod * p /\ b % BlockMod = x
  BY <1>1, <1>2
<1>5. PICK y \in 0 .. BlockMod - 1, q \in Nat : c = y + BlockMod * q /\ c % BlockMod = y
  BY <1>1, <1>2
<1>6. x # y
  BY <1>1, <1>3, <1>4, <1>5
<1>. QED BY <1>4, <1>5, <1>6

\* Whatever may happen happens within the budget.
BudgetOK == budget \in [faults : FaultSets, left : 0 .. Budget]

LEMMA FaultOK ==
  ASSUME BudgetOK, NEW f, Fault(f)
  PROVE  BudgetOK' /\ budget'.faults = budget.faults
<1>1. Budget \in Nat
  BY LineAssumption
<1>. QED BY <1>1 DEF Fault, BudgetOK

\* What is read, and what is left of it.
LEMMA ReadOK ==
  ASSUME NEW S, NEW s \in Seq(S), NEW n \in DOMAIN s
  PROVE  SubSeq(s, 1, n) \in Seq(S) /\ SubSeq(s, n + 1, Len(s)) \in Seq(S)
<1>1. Len(s) \in Nat /\ n \in 1 .. Len(s)
  BY LenProperties
<1>2. (\A i \in 1 .. n : s[i] \in S) /\ (\A i \in n + 1 .. Len(s) : s[i] \in S)
  BY <1>1, ElementOfSeq
<1>. QED BY <1>1, <1>2, SubSeqProperties

\* Every set of positions has a first one.
LEMMA LeastOne ==
  ASSUME NEW S \in SUBSET Nat, S # {}
  PROVE  \E m \in S : \A k \in S : m <= k
<1>. PICK n \in S : TRUE
  OBVIOUS
<1>. DEFINE segments == {0 .. k : k \in {j \in S : j <= n}}
<1>1. segments \subseteq FiniteSubsetsOf(0 .. n)
  <2>. SUFFICES ASSUME NEW k \in S, k <= n PROVE 0 .. k \in FiniteSubsetsOf(0 .. n)
    OBVIOUS
  <2>1. IsFiniteSet(0 .. k)
    BY FS_Interval
  <2>. QED BY <2>1 DEF FiniteSubsetsOf
<1>2. segments # {}
  <2>1. 0 .. n \in segments
    OBVIOUS
  <2>. QED BY <2>1
<1>3. PICK A \in segments : \A B \in segments : <<B, A>> \notin StrictSubsetOrdering(0 .. n)
  <2>. HIDE DEF segments
  <2>. QED BY <1>1, <1>2, FS_StrictSubsetOrderingWellFounded, WFMin, Zenon
<1>4. PICK m \in S : m <= n /\ A = 0 .. m
  OBVIOUS
<1>5. ASSUME NEW k \in S, k < m PROVE FALSE
  <2>0. k \in Nat /\ m \in Nat /\ n \in Nat /\ k <= n
    <3>1. k \in Nat /\ m \in Nat /\ n \in Nat
      OBVIOUS
    <3>2. m <= n /\ k < m
      BY <1>4, <1>5
    <3>. HIDE DEF segments
    <3>. QED BY <3>1, <3>2
  <2>1. 0 .. k \in segments
    BY <2>0
  <2>2. 0 .. k \subseteq 0 .. m /\ 0 .. k # 0 .. m
    BY <1>5, m \in 0 .. m, m \notin 0 .. k
  <2>3. 0 .. k \in SUBSET (0 .. n) /\ 0 .. m \in SUBSET (0 .. n)
    BY <1>4, <2>0
  <2>. QED BY <2>1, <2>2, <2>3, <1>3, <1>4 DEF StrictSubsetOrdering
<1>. QED BY <1>5

-----------------------------------------------------------------------------
(* A send: types.                                                          *)

Kinds   == {"block", "bad", "eot", "can", "nak"}
Frames  == [kind : Kinds, num : Nat, data : Seq(Nat)]
Answers == {"ack", "nak", "can", "C", "junk"}

\* The session's fields, and what they say of each other.
HostOK ==
  /\ state \in {"idle", "waiting", "sending"} /\ outcome \in {"none", "complete", "ended"}
  /\ pending \in BOOLEAN /\ fd \in BOOLEAN /\ timer \in BOOLEAN
  /\ block \in Nat \ {0} /\ sent \in 0 .. FileSize /\ retries \in 0 .. MaxRetries
  /\ (fd <=> state = "sending") /\ (state # "idle" => outcome = "none")
  /\ (state = "sending" => sent > 0)
PeerOK ==
  /\ remote \in {"prompting", "receiving", "done", "cancelled", "dead"}
  /\ expected \in Nat \ {0} /\ received \in Seq(Nat)
LineOK   == toRemote \in Seq(Frames) /\ toHost \in Seq(Answers)
SendTypes == HostOK /\ PeerOK /\ LineOK /\ BudgetOK

LEMMA SendTypesOK == SendTypes => SendTypeOK
<1>. SUFFICES ASSUME SendTypes PROVE SendTypeOK
  OBVIOUS
<1>1. \A k \in DOMAIN toRemote : toRemote[k].kind \in {"block", "bad", "eot", "can", "nak"}
  <2>1. \A k \in DOMAIN toRemote : toRemote[k] \in Frames
    BY ElementOfSeq, LenProperties DEF SendTypes, LineOK
  <2>. QED BY <2>1 DEF Frames, Kinds
<1>2. \A k \in DOMAIN toHost : toHost[k] \in {"ack", "nak", "can", "C", "junk"}
  BY ElementOfSeq, LenProperties DEF SendTypes, LineOK, Answers
<1>. QED BY <1>1, <1>2 DEF SendTypes, HostOK, PeerOK, BudgetOK, SendTypeOK

\* The frames the session writes.
LEMMA FrameOK ==
  /\ \A kind \in Kinds : Frame(kind) \in Frames
  /\ \A b \in Nat : \A s \in Nat :
       /\ BlockFrame(b, s) \in Frames /\ BlockFrame(b, s).kind = "block"
       /\ BlockFrame(b, s).num = b % BlockMod /\ Len(BlockFrame(b, s).data) = Packet
       /\ \A k \in 1 .. Packet : BlockFrame(b, s).data[k] = Unit(s + k)
<1>1. ASSUME NEW kind \in Kinds PROVE Frame(kind) \in Frames
  <2>1. <<>> \in Seq(Nat)
    OBVIOUS
  <2>. QED BY <2>1 DEF Frame, Frames
<1>2. ASSUME NEW b \in Nat, NEW s \in Nat
      PROVE  /\ BlockFrame(b, s) \in Frames /\ BlockFrame(b, s).kind = "block"
             /\ BlockFrame(b, s).num = b % BlockMod /\ Len(BlockFrame(b, s).data) = Packet
             /\ \A k \in 1 .. Packet : BlockFrame(b, s).data[k] = Unit(s + k)
  <2>1. b % BlockMod \in Nat
    BY LineAssumption
  <2>2. \A k \in 1 .. Packet : Unit(s + k) \in Nat
    BY SendAssumption DEF Unit, Pad
  <2>. DEFINE d == [k \in 1 .. Packet |-> Unit(s + k)]
  <2>3. d \in Seq(Nat) /\ Len(d) = Packet /\ \A k \in 1 .. Packet : d[k] = Unit(s + k)
    BY <2>2, SendAssumption
  <2>4. BlockFrame(b, s) = [kind |-> "block", num |-> b % BlockMod, data |-> d]
    BY DEF BlockFrame
  <2>. HIDE DEF d
  <2>5. "block" \in Kinds
    BY DEF Kinds
  <2>. QED BY <2>1, <2>3, <2>4, <2>5 DEF Frames
<1>. QED BY <1>1, <1>2

\* The end of a session.
LEMMA ResetOK ==
  ASSUME NEW fs \in Seq(Frames), NEW o \in {"complete", "ended"}, Reset(fs, o), LineOK
  PROVE  HostOK' /\ toRemote' \in Seq(Frames)
<1>1. 0 \in 0 .. FileSize /\ 0 \in 0 .. MaxRetries
  BY SendAssumption, LineAssumption
<1>2. toRemote' \in Seq(Frames)
  BY ConcatProperties DEF Reset, LineOK
<1>3. /\ outcome' = o /\ state' = "idle" /\ pending' = FALSE /\ fd' = FALSE
      /\ block' = 1 /\ sent' = 0 /\ retries' = 0 /\ timer' = FALSE
  BY DEF Reset
<1>4. state' = "idle" /\ fd' = FALSE /\ outcome' \in {"none", "complete", "ended"}
  BY <1>3
<1>5. pending' \in BOOLEAN /\ timer' \in BOOLEAN /\ (fd' <=> state' = "sending")
  BY <1>3
<1>6. block' \in Nat \ {0} /\ sent' \in 0 .. FileSize /\ retries' \in 0 .. MaxRetries
  BY <1>1, <1>3
<1>. QED BY <1>2, <1>4, <1>5, <1>6 DEF HostOK

\* A packet sent.
LEMMA SendPacketOK ==
  ASSUME HostOK, LineOK, NEW b \in Nat \ {0}, NEW s \in Nat, s < FileSize, NEW r \in 0 .. MaxRetries,
         SendPacket(b, s, r), outcome = "none"
  PROVE  HostOK' /\ toRemote' \in Seq(Frames)
<1>1. toRemote' \in Seq(Frames)
  BY FrameOK, AppendProperties DEF SendPacket, LineOK
<1>2. /\ state' = "sending" /\ fd' = TRUE /\ timer' = TRUE /\ block' = b /\ retries' = r
      /\ pending' = pending /\ outcome' = outcome
      /\ sent' = IF s + Packet < FileSize THEN s + Packet ELSE FileSize
  BY DEF SendPacket, Arm
<1>3. sent' \in 0 .. FileSize /\ sent' > 0
  BY <1>2, SendAssumption
<1>4. pending' \in BOOLEAN
  <2>1. pending \in BOOLEAN
    BY DEF HostOK
  <2>. QED BY <1>2, <2>1, Zenon
<1>5. outcome' = "none"
  BY <1>2
<1>. QED BY <1>1, <1>2, <1>3, <1>4, <1>5 DEF HostOK

LEMMA SendNextPacketOK ==
  ASSUME HostOK, LineOK, BudgetOK, NEW b \in Nat \ {0}, NEW s \in Nat, NEW r \in 0 .. MaxRetries,
         SendNextPacket(b, s, r), outcome = "none"
  PROVE  HostOK' /\ toRemote' \in Seq(Frames) /\ BudgetOK' /\ budget'.faults = budget.faults
<1>. DEFINE at == IF fd THEN s ELSE 0
            bb == IF fd THEN b ELSE 1
<1>1. at \in Nat /\ bb \in Nat \ {0}
  OBVIOUS
<1>2. <<Frame("eot")>> \in Seq(Frames) /\ <<Frame("can")>> \in Seq(Frames)
  <2>1. Frame("eot") \in Frames /\ Frame("can") \in Frames
    BY FrameOK DEF Kinds
  <2>. QED BY <2>1
<1>3. CASE NoneRemains(at) /\ SendEot /\ UNCHANGED budget
  BY <1>2, <1>3, ResetOK DEF SendEot, BudgetOK
<1>4. CASE ~NoneRemains(at) /\ SendPacket(bb, at, r) /\ UNCHANGED budget
  <2>1. at < FileSize
    BY <1>1, <1>4, SendAssumption DEF NoneRemains
  <2>. HIDE DEF at, bb
  <2>2. HostOK' /\ toRemote' \in Seq(Frames)
    BY <1>1, <1>4, <2>1, SendPacketOK
  <2>. QED BY <1>4, <2>2 DEF BudgetOK
<1>5. CASE ~fd /\ Fault("open") /\ EndSession(<<Frame("can")>>)
  <2>1. HostOK' /\ toRemote' \in Seq(Frames)
    BY <1>2, <1>5, ResetOK DEF EndSession
  <2>. QED BY <1>5, <2>1, FaultOK
<1>. QED BY <1>3, <1>4, <1>5 DEF SendNextPacket

LEMMA HandleResponseOK ==
  ASSUME SendTypes, state = "sending", NEW bs, HandleResponse(bs)
  PROVE  HostOK' /\ toRemote' \in Seq(Frames) /\ BudgetOK' /\ budget'.faults = budget.faults
<1>0. /\ HostOK /\ LineOK /\ BudgetOK /\ outcome = "none" /\ block \in Nat \ {0} /\ sent \in Nat
      /\ retries \in 0 .. MaxRetries /\ fd = TRUE /\ sent > 0 /\ MaxRetries \in Nat /\ FileSize \in Nat
  BY SendAssumption, LineAssumption DEF SendTypes, HostOK
<1>. DEFINE answer == FirstOf(bs, {"ack", "nak", "can"})
<1>1. CASE answer = "ack" /\ SendNextPacket(block + 1, sent, 0)
  <2>1. block + 1 \in Nat \ {0} /\ 0 \in 0 .. MaxRetries
    BY <1>0
  <2>. QED BY <1>0, <1>1, <2>1, SendNextPacketOK
<1>2. CASE answer = "nak" /\ Resend(retries + 1)
  <2>1. CASE TooMany(retries + 1) /\ EndSession(<<Frame("can")>>) /\ UNCHANGED budget
    <3>1. <<Frame("can")>> \in Seq(Frames)
      <4>1. Frame("can") \in Frames
        BY FrameOK DEF Kinds
      <4>. QED BY <4>1
    <3>. QED BY <1>0, <2>1, <3>1, ResetOK DEF EndSession, BudgetOK
  <2>2. CASE ~TooMany(retries + 1) /\ SendNextPacket(block, Rewind, retries + 1)
    <3>1. Rewind \in Nat
      BY <1>0, SendAssumption DEF Rewind
    <3>2. retries + 1 \in 0 .. MaxRetries
      BY <1>0, <2>2 DEF TooMany
    <3>. QED BY <1>0, <2>2, <3>1, <3>2, SendNextPacketOK
  <2>. QED BY <1>2, <2>1, <2>2 DEF Resend
<1>3. CASE EndSession(<<>>) /\ UNCHANGED budget
  <2>1. <<>> \in Seq(Frames)
    OBVIOUS
  <2>. QED BY <1>0, <1>3, <2>1, ResetOK DEF EndSession, BudgetOK
<1>4. CASE timer' = FALSE /\ UNCHANGED <<state, pending, fd, block, sent, retries, outcome, toRemote, budget>>
  BY <1>0, <1>4 DEF HostOK, LineOK, BudgetOK
<1>. QED BY <1>1, <1>2, <1>3, <1>4 DEF HandleResponse

LEMMA SendTypesStep ==
  ASSUME SendTypes, [SendNext]_sendVars
  PROVE  SendTypes' /\ budget'.faults = budget.faults
<1>0. /\ HostOK /\ LineOK /\ PeerOK /\ BudgetOK
      /\ retries \in 0 .. MaxRetries /\ block \in Nat \ {0} /\ sent \in 0 .. FileSize
      /\ toHost \in Seq(Answers) /\ toRemote \in Seq(Frames) /\ MaxRetries \in Nat /\ FileSize \in Nat
      /\ (state # "idle" => outcome = "none") /\ (state = "sending" => sent > 0)
  BY SendAssumption, LineAssumption DEF SendTypes, HostOK, LineOK
<1>1. CASE UNCHANGED sendVars
  BY <1>1 DEF sendVars, host, peer, SendTypes, HostOK, LineOK, PeerOK, BudgetOK
<1>2. CASE StartSend
  <2>1. HostOK'
    BY <1>0, <1>2 DEF StartSend, HostOK
  <2>. QED BY <1>0, <1>2, <2>1 DEF StartSend, SendTypes, LineOK, PeerOK, BudgetOK, peer
<1>3. CASE SetSendFiles
  <2>1. HostOK'
    BY <1>0, <1>3 DEF SetSendFiles, HostOK
  <2>. QED BY <1>0, <1>3, <2>1 DEF SetSendFiles, SendTypes, LineOK, PeerOK, BudgetOK, peer
<1>4. ASSUME NEW fs \in {<<>>, <<Frame("can")>>}, EndSession(fs) PROVE HostOK' /\ toRemote' \in Seq(Frames)
  <2>1. fs \in Seq(Frames)
    <3>1. Frame("can") \in Frames
      BY FrameOK DEF Kinds
    <3>2. <<>> \in Seq(Frames) /\ <<Frame("can")>> \in Seq(Frames)
      BY <3>1
    <3>. QED BY <1>4, <3>2
  <2>. QED BY <1>0, <1>4, <2>1, ResetOK DEF EndSession
<1>5. CASE CancelSend
  <2>1. HostOK' /\ toRemote' \in Seq(Frames) /\ BudgetOK' /\ budget'.faults = budget.faults
    BY <1>0, <1>4, <1>5, FaultOK DEF CancelSend
  <2>. QED BY <1>0, <1>5, <2>1 DEF CancelSend, SendTypes, LineOK, PeerOK, peer
<1>6. CASE DestroySend
  <2>1. HostOK' /\ toRemote' \in Seq(Frames) /\ BudgetOK' /\ budget'.faults = budget.faults
    BY <1>0, <1>4, <1>6, FaultOK DEF DestroySend
  <2>. QED BY <1>0, <1>6, <2>1 DEF DestroySend, SendTypes, LineOK, PeerOK
<1>7. CASE HostReadsAnswers
  <2>1. PICK n \in DOMAIN toHost :
          /\ toHost' = SubSeq(toHost, n + 1, Len(toHost))
          /\ \/ state = "idle"    /\ Ignore
             \/ state = "waiting" /\ HandleSendWait(SubSeq(toHost, 1, n))
             \/ state = "sending" /\ HandleResponse(SubSeq(toHost, 1, n))
    BY <1>7 DEF HostReadsAnswers
  <2>2. toHost' \in Seq(Answers)
    BY <1>0, <2>1, ReadOK
  <2>3. CASE Ignore
    BY <1>0, <1>7, <2>2, <2>3 DEF Ignore, host, HostReadsAnswers, peer, SendTypes, HostOK, LineOK, PeerOK, BudgetOK
  <2>4. ASSUME state = "waiting", SendNextPacket(block, sent, 0)
        PROVE  HostOK' /\ toRemote' \in Seq(Frames) /\ BudgetOK' /\ budget'.faults = budget.faults
    <3>1. 0 \in 0 .. MaxRetries /\ sent \in Nat /\ outcome = "none"
      BY <1>0, <2>4
    <3>. QED BY <1>0, <2>4, <3>1, SendNextPacketOK
  <2>5. ASSUME state = "sending", HandleResponse(SubSeq(toHost, 1, n))
        PROVE  HostOK' /\ toRemote' \in Seq(Frames) /\ BudgetOK' /\ budget'.faults = budget.faults
    BY <2>5, HandleResponseOK
  <2>6. CASE ~Ignore
    <3>1. HostOK' /\ toRemote' \in Seq(Frames) /\ BudgetOK' /\ budget'.faults = budget.faults
      BY <2>1, <2>4, <2>5, <2>6 DEF HandleSendWait
    <3>. QED BY <1>0, <1>7, <2>2, <3>1 DEF HostReadsAnswers, peer, SendTypes, LineOK, PeerOK
  <2>. QED BY <2>3, <2>6
<1>8. CASE HostTimeout
  <2>1. HostOK' /\ toRemote' \in Seq(Frames)
    <3>1. CASE WaitTimeout
      <4>1. CASE TooMany(retries + 1) /\ EndSession(<<>>)
        BY <1>4, <4>1
      <4>2. CASE /\ ~TooMany(retries + 1) /\ retries' = retries + 1
                 /\ toRemote' = IF pending THEN toRemote ELSE Append(toRemote, Frame("nak"))
                 /\ UNCHANGED <<state, pending, fd, block, sent, timer, outcome>>
        <5>1. retries' \in 0 .. MaxRetries
          BY <1>0, <4>2 DEF TooMany
        <5>2. Append(toRemote, Frame("nak")) \in Seq(Frames)
          BY <1>0, FrameOK, AppendProperties DEF Kinds
        <5>. QED BY <1>0, <4>2, <5>1, <5>2 DEF HostOK
      <4>. QED BY <3>1, <4>1, <4>2 DEF WaitTimeout
    <3>2. CASE AckTimeout
      <4>0. state = "sending" /\ outcome = "none" /\ sent > 0
        BY <1>0, <3>2 DEF AckTimeout
      <4>1. CASE TooMany(retries + 1) /\ EndSession(<<>>)
        BY <1>4, <4>1
      <4>2. CASE /\ ~TooMany(retries + 1) /\ sent >= FileSize
                 /\ retries' = retries + 1
                 /\ toRemote' = Append(toRemote, Frame("eot"))
                 /\ UNCHANGED <<state, pending, fd, block, sent, timer, outcome>>
        <5>1. retries' \in 0 .. MaxRetries
          BY <1>0, <4>2 DEF TooMany
        <5>2. Append(toRemote, Frame("eot")) \in Seq(Frames)
          BY <1>0, FrameOK, AppendProperties DEF Kinds
        <5>. QED BY <1>0, <4>2, <5>1, <5>2 DEF HostOK
      <4>3. CASE ~TooMany(retries + 1) /\ sent < FileSize /\ SendPacket(block, Rewind, retries + 1)
        <5>1. retries + 1 \in 0 .. MaxRetries
          BY <1>0, <4>3 DEF TooMany
        <5>2. Rewind \in Nat /\ Rewind < FileSize
          BY <1>0, <4>0, <4>3, SendAssumption DEF Rewind
        <5>. QED BY <1>0, <4>0, <4>3, <5>1, <5>2, SendPacketOK
      <4>. QED BY <3>2, <4>1, <4>2, <4>3 DEF AckTimeout
    <3>. QED BY <1>8, <3>1, <3>2 DEF HostTimeout
  <2>2. BudgetOK' /\ budget'.faults = budget.faults
    BY <1>0, <1>8, FaultOK DEF HostTimeout, BudgetOK
  <2>. QED BY <1>0, <1>8, <2>1, <2>2 DEF HostTimeout, SendTypes, LineOK, PeerOK, peer
<1>9. CASE RemoteReads
  <2>0. /\ toRemote # <<>> /\ toRemote' = Tail(toRemote) /\ UNCHANGED <<host, budget>>
    BY <1>9 DEF RemoteReads
  <2>1. HostOK' /\ BudgetOK' /\ budget'.faults = budget.faults
    BY <1>0, <2>0 DEF HostOK, BudgetOK, host
  <2>2. toRemote' \in Seq(Frames) /\ Head(toRemote) \in Frames
    BY <1>0, <2>0, HeadTailProperties
  <2>3. ASSUME NEW byte \in {"ack", "nak", "can"}, Answer(byte) PROVE toHost' \in Seq(Answers)
    BY <1>0, <2>3, AppendProperties DEF Answer, Answers
  <2>4. toHost' \in Seq(Answers) /\ PeerOK'
    <3>. DEFINE f == Head(toRemote)
    <3>1. CASE UNCHANGED <<toHost, peer>>
      BY <1>0, <3>1 DEF peer, PeerOK
    <3>2. CASE Store(f)
      <4>1. f.data \in Seq(Nat)
        BY <2>2 DEF Frames
      <4>. HIDE DEF f
      <4>2. received' \in Seq(Nat)
        BY <1>0, <3>2, <4>1, ConcatProperties DEF Store, PeerOK
      <4>. QED BY <1>0, <2>3, <3>2, <4>2 DEF Store, PeerOK
    <3>3. CASE \E byte \in {"ack", "nak", "can"} : Answer(byte) /\ UNCHANGED peer
      BY <1>0, <2>3, <3>3 DEF peer, PeerOK
    <3>4. CASE Stop("done", "ack") \/ Stop("cancelled", "can")
      BY <1>0, <2>3, <3>4 DEF Stop, PeerOK
    <3>5. CASE remote' = "cancelled" /\ UNCHANGED <<toHost, expected, received>>
      BY <1>0, <3>5 DEF PeerOK
    <3>. QED BY <1>9, <3>1, <3>2, <3>3, <3>4, <3>5 DEF RemoteReads, TakeBlock
  <2>. QED BY <2>1, <2>2, <2>4 DEF SendTypes, LineOK
<1>10. CASE RemoteTimeout \/ RemoteEarly
  <2>1. toHost' \in Seq(Answers)
    <3>1. \E byte \in {"nak", "C"} : toHost' = Append(toHost, byte)
      BY <1>10 DEF RemoteTimeout, RemoteEarly, RemoteAsks, Answer
    <3>. QED BY <1>0, <3>1, AppendProperties DEF Answers
  <2>2. BudgetOK' /\ budget'.faults = budget.faults
    BY <1>0, <1>10, FaultOK DEF RemoteTimeout, RemoteEarly, BudgetOK
  <2>3. UNCHANGED <<host, toRemote, peer>>
    BY <1>10 DEF RemoteTimeout, RemoteEarly, RemoteAsks
  <2>. QED BY <1>0, <2>1, <2>2, <2>3 DEF host, peer, SendTypes, HostOK, LineOK, PeerOK
<1>11. CASE RemoteDies
  BY <1>0, <1>11, FaultOK DEF RemoteDies, host, SendTypes, HostOK, LineOK, PeerOK
<1>12. CASE SendLine
  <2>1. BudgetOK' /\ budget'.faults = budget.faults
    BY <1>0, <1>12, FaultOK DEF SendLine, CorruptFrame, CorruptAnswer, LoseFrame, LoseAnswer
  <2>2. UNCHANGED <<host, peer>>
    BY <1>12 DEF SendLine, CorruptFrame, CorruptAnswer, LoseFrame, LoseAnswer
  <2>3. LineOK'
    <3>1. CASE CorruptFrame
      <4>1. Frame("bad") \in Frames
        BY FrameOK DEF Kinds
      <4>2. PICK k \in DOMAIN toRemote : toRemote' = [toRemote EXCEPT ![k] = Frame("bad")]
        BY <3>1 DEF CorruptFrame
      <4>3. toRemote' \in Seq(Frames)
        BY <1>0, <4>1, <4>2, ExceptSeq, LenProperties
      <4>. QED BY <1>0, <3>1, <4>3 DEF CorruptFrame, LineOK
    <3>2. CASE CorruptAnswer
      <4>1. "junk" \in Answers
        BY DEF Answers
      <4>2. PICK k \in DOMAIN toHost : toHost' = [toHost EXCEPT ![k] = "junk"]
        BY <3>2 DEF CorruptAnswer
      <4>3. toHost' \in Seq(Answers)
        BY <1>0, <4>1, <4>2, ExceptSeq, LenProperties
      <4>. QED BY <1>0, <3>2, <4>3 DEF CorruptAnswer, LineOK
    <3>3. CASE LoseFrame
      BY <1>0, <3>3, WithoutIs DEF LoseFrame, LineOK
    <3>4. CASE LoseAnswer
      BY <1>0, <3>4, WithoutIs DEF LoseAnswer, LineOK
    <3>. QED BY <1>12, <3>1, <3>2, <3>3, <3>4 DEF SendLine
  <2>. QED BY <1>0, <2>1, <2>2, <2>3 DEF host, peer, SendTypes, HostOK, PeerOK
<1>. QED BY <1>1, <1>2, <1>3, <1>5, <1>6, <1>7, <1>8, <1>9, <1>10, <1>11, <1>12
     DEF SendNext, SendUser, Session, Remote

LEMMA SendTypesInitially == SendInit => SendTypes
<1>. SUFFICES ASSUME SendInit PROVE SendTypes
  OBVIOUS
<1>1. FileSize \in Nat /\ MaxRetries \in Nat /\ Budget \in Nat
  BY SendAssumption, LineAssumption
<1>2. <<>> \in Seq(Frames) /\ <<>> \in Seq(Answers) /\ <<>> \in Seq(Nat)
  OBVIOUS
<1>3. BudgetOK
  BY <1>1 DEF SendInit, BudgetOK
<1>4. HostOK
  <2>1. block \in Nat \ {0} /\ sent \in 0 .. FileSize /\ retries \in 0 .. MaxRetries
    BY <1>1 DEF SendInit
  <2>2. pending \in BOOLEAN /\ fd \in BOOLEAN /\ timer \in BOOLEAN /\ (fd <=> state = "sending")
    BY DEF SendInit
  <2>. QED BY <2>1, <2>2 DEF SendInit, HostOK
<1>5. PeerOK /\ LineOK
  BY <1>2 DEF SendInit, PeerOK, LineOK
<1>. QED BY <1>3, <1>4, <1>5 DEF SendTypes

-----------------------------------------------------------------------------
(* A send: stop and wait.                                                  *)

\* The file is a whole number of packets.
Whole == \E n \in Nat : FileSize = n * Packet

Lesser(a, b) == IF a < b THEN a ELSE b

\* What the receiver holds came in packets.
InPackets ==
  /\ \E j \in Nat : Len(received) = j * Packet
  /\ expected > 1 => Len(received) >= Packet
  /\ Whole => RemoteGetsPrefix

\* The block f is the one that a receiver with n units expects, e, with what it
\* lacks, or the one before.
Fits(f, e, n) ==
  \/ /\ f.num = e % BlockMod /\ Len(f.data) = Packet
     /\ Whole => \A k \in 1 .. Packet : f.data[k] = Unit(n + k)
  \/ f.num = (e - 1) % BlockMod

\* One block at most is under way, before everything else.
OneBlock == remote # "dead" =>
  \A k \in DOMAIN toRemote : toRemote[k].kind = "block" => k = 1 /\ Fits(toRemote[k], expected, Len(received))

\* The session and the receiver take turns.
Turns == outcome = "none" =>
  Len(toHost) <= 1 /\ (remote # "dead" => Len(toRemote) + Len(toHost) <= 1)

\* Before the first block.
NotYet == outcome = "none" /\ state # "sending" =>
  expected = 1 /\ received = <<>> /\ (remote # "dead" => toRemote = <<>>)

\* The session is at the block the receiver expects, or at the one before it.
InStep == state = "sending" =>
  \/ expected = block /\ Len(received) < FileSize /\ sent = Lesser(Len(received) + Packet, FileSize)
  \/ expected = block + 1 /\ sent = Lesser(Len(received), FileSize)

\* What is under way is the session's block, or an acknowledgement of it.
Numbered == state = "sending" =>
  /\ remote # "dead" => \A k \in DOMAIN toRemote :
       toRemote[k].kind # "eot" /\ (toRemote[k].kind = "block" => toRemote[k].num = block % BlockMod)
  /\ \A k \in DOMAIN toHost : toHost[k] = "ack" => expected = block + 1

Lockstep ==
  InPackets /\ OneBlock /\ Turns /\ NotYet /\ InStep /\ Numbered /\ CompleteMeansStored

StopAndWait == SendTypes /\ (InTime => Lockstep)

\* What a file of whole packets lacks is a packet at least.
LEMMA WholeFits ==
  ASSUME Whole, NEW j \in Nat, j * Packet < FileSize
  PROVE  j * Packet + Packet <= FileSize
<1>1. Packet \in Nat \ {0}
  BY SendAssumption
<1>2. PICK n \in Nat : FileSize = n * Packet
  BY DEF Whole
<1>3. j < n
  <2>1. ASSUME n <= j PROVE FALSE
    <3>1. PICK d \in Nat : j = n + d
      <4>1. j - n \in Nat /\ j = n + (j - n)
        BY <2>1
      <4>. QED BY <4>1
    <3>2. j * Packet = n * Packet + d * Packet /\ d * Packet >= 0
      BY <1>1, <3>1
    <3>3. n * Packet \in Nat /\ d * Packet \in Nat
      BY <1>1
    <3>. QED BY <1>2, <3>2, <3>3
  <2>. QED BY <1>2, <2>1
<1>4. PICK d \in Nat : n = (j + 1) + d
  <2>1. n - (j + 1) \in Nat /\ n = (j + 1) + (n - (j + 1))
    BY <1>3
  <2>. QED BY <2>1
<1>5. n * Packet = (j * Packet + Packet) + d * Packet
  BY <1>1, <1>4
<1>6. d * Packet \in Nat /\ j * Packet \in Nat
  BY <1>1
<1>. QED BY <1>1, <1>2, <1>5, <1>6

\* A resent packet is the one sent before.
LEMMA RewindIs ==
  ASSUME SendTypes, Lockstep, state = "sending"
  PROVE  /\ Rewind \in Nat /\ Rewind < FileSize /\ sent = Lesser(Rewind + Packet, FileSize)
         /\ Whole /\ expected = block => Rewind = Len(received)
<1>1. /\ sent \in 1 .. FileSize /\ FileSize \in Nat /\ Packet \in Nat \ {0} /\ Len(received) \in Nat
      /\ expected \in Nat \ {0} /\ block \in Nat \ {0}
  BY SendAssumption, LenProperties DEF SendTypes, HostOK, PeerOK
<1>2. Rewind \in Nat /\ Rewind < FileSize
  BY <1>1 DEF Rewind
<1>3. PICK j \in Nat : Len(received) = j * Packet
  BY DEF Lockstep, InPackets
<1>4. CASE expected = block /\ Len(received) < FileSize /\ sent = Lesser(Len(received) + Packet, FileSize)
  <2>1. Whole => Len(received) + Packet <= FileSize
    BY <1>3, <1>4, WholeFits
  <2>. QED BY <1>1, <1>2, <1>4, <2>1 DEF Rewind, Lesser
<1>5. CASE expected = block + 1 /\ sent = Lesser(Len(received), FileSize)
  <2>1. Len(received) >= Packet
    BY <1>1, <1>5 DEF Lockstep, InPackets
  <2>. QED BY <1>1, <1>2, <1>5, <2>1 DEF Rewind, Lesser
<1>. QED BY <1>4, <1>5 DEF Lockstep, InStep

\* A session ends, with words that are no blocks.
LEMMA EndsInStep ==
  ASSUME SendTypes, Lockstep, NEW fs \in {<<>>, <<Frame("can")>>, <<Frame("eot")>>},
         NEW o \in {"complete", "ended"}, Reset(fs, o), UNCHANGED <<expected, received>>,
         remote' \in {remote, "dead"}, o = "complete" => Len(received) >= FileSize
  PROVE  Lockstep'
<1>1. outcome' = o /\ state' = "idle" /\ toRemote' = toRemote \o fs
  BY DEF Reset
<1>2. InPackets'
  BY DEF Lockstep, InPackets, RemoteGetsPrefix
<1>3. OneBlock'
  <2>1. fs \in Seq(Frames) /\ \A k \in 1 .. Len(fs) : fs[k].kind # "block"
    <3>1. Frame("can") \in Frames /\ Frame("eot") \in Frames
      BY FrameOK DEF Kinds
    <3>2. Frame("can").kind # "block" /\ Frame("eot").kind # "block"
      BY DEF Frame
    <3>3. CASE fs = <<>>
      BY <3>3
    <3>4. ASSUME NEW f \in Frames, f.kind # "block", fs = <<f>>
          PROVE  fs \in Seq(Frames) /\ \A k \in 1 .. Len(fs) : fs[k].kind # "block"
      BY <3>4
    <3>. QED BY <3>1, <3>2, <3>3, <3>4
  <2>2. /\ Len(toRemote) \in Nat /\ Len(fs) \in Nat /\ DOMAIN toRemote = 1 .. Len(toRemote)
        /\ toRemote' \in Seq(Frames) /\ Len(toRemote') = Len(toRemote) + Len(fs)
        /\ \A i \in 1 .. Len(toRemote) + Len(fs) :
             toRemote'[i] = IF i <= Len(toRemote) THEN toRemote[i] ELSE fs[i - Len(toRemote)]
    BY <1>1, <2>1, ConcatProperties, LenProperties DEF SendTypes, LineOK
  <2>3. DOMAIN toRemote' = 1 .. Len(toRemote) + Len(fs)
    BY <2>2, LenProperties
  <2>4. ASSUME remote' # "dead", NEW k \in DOMAIN toRemote', toRemote'[k].kind = "block"
        PROVE  k = 1 /\ Fits(toRemote'[k], expected', Len(received'))
    <3>1. k \in DOMAIN toRemote /\ toRemote'[k] = toRemote[k]
      BY <2>1, <2>2, <2>3, <2>4
    <3>2. k = 1 /\ Fits(toRemote[k], expected, Len(received))
      BY <2>4, <3>1 DEF Lockstep, OneBlock
    <3>. QED BY <3>1, <3>2
  <2>. QED BY <2>4 DEF OneBlock
<1>4. Turns' /\ NotYet' /\ InStep' /\ Numbered'
  BY <1>1 DEF Turns, NotYet, InStep, Numbered
<1>5. CompleteMeansStored'
  BY <1>1 DEF CompleteMeansStored
<1>. QED BY <1>2, <1>3, <1>4, <1>5 DEF Lockstep

\* A packet goes out on a quiet line.
LEMMA SendsInStep ==
  ASSUME SendTypes, Lockstep, outcome = "none", toHost' = <<>>, UNCHANGED peer,
         remote # "dead" => toRemote = <<>>,
         NEW b \in Nat \ {0}, NEW s \in Nat, NEW r, SendPacket(b, s, r),
         \/ /\ expected = b /\ Len(received) < FileSize
            /\ sent' = Lesser(Len(received) + Packet, FileSize) /\ (Whole => s = Len(received))
         \/ expected = b + 1 /\ sent' = Lesser(Len(received), FileSize)
  PROVE  Lockstep'
<1>1. /\ outcome' = "none" /\ state' = "sending" /\ block' = b /\ toRemote' = Append(toRemote, BlockFrame(b, s))
      /\ remote' = remote /\ expected' = expected /\ received' = received
  BY DEF SendPacket, peer
<1>2. ASSUME remote # "dead" PROVE toRemote' = <<BlockFrame(b, s)>>
  BY <1>1, <1>2
<1>. DEFINE f == BlockFrame(b, s)
<1>3. f.kind = "block" /\ f.num = b % BlockMod /\ Len(f.data) = Packet
      /\ \A k \in 1 .. Packet : f.data[k] = Unit(s + k)
  BY FrameOK
<1>. HIDE DEF f
<1>4. InPackets'
  BY <1>1 DEF Lockstep, InPackets, RemoteGetsPrefix
<1>5. OneBlock' /\ Turns'
  <2>1. Fits(f, expected, Len(received))
    <3>1. CASE expected = b + 1
      <4>1. expected - 1 = b
        BY <3>1
      <4>. QED BY <1>3, <4>1 DEF Fits
    <3>2. CASE expected = b /\ (Whole => s = Len(received))
      BY <1>3, <3>2 DEF Fits
    <3>. QED BY <3>1, <3>2
  <2>2. Fits(f, expected', Len(received'))
    BY <1>1, <2>1
  <2>3. ASSUME remote' # "dead"
        PROVE  toRemote' = <<f>> /\ DOMAIN toRemote' = {1} /\ toRemote'[1] = f /\ Len(toRemote') = 1
    <3>1. toRemote' = <<f>>
      BY <1>1, <1>2, <2>3 DEF f
    <3>. QED BY <3>1
  <2>4. OneBlock'
    BY <2>2, <2>3 DEF OneBlock
  <2>5. Len(toHost') = 0
    OBVIOUS
  <2>6. Turns'
    <3>1. Len(toHost') <= 1
      BY <2>5
    <3>2. ASSUME remote' # "dead" PROVE Len(toRemote') + Len(toHost') <= 1
      <4>1. Len(toRemote') = 1
        BY <2>3, <3>2
      <4>. QED BY <2>5, <4>1
    <3>. QED BY <3>1, <3>2 DEF Turns
  <2>. QED BY <2>4, <2>6
<1>6. NotYet' /\ CompleteMeansStored'
  BY <1>1 DEF NotYet, CompleteMeansStored
<1>7. InStep'
  BY <1>1 DEF InStep
<1>8. Numbered'
  <2>1. ASSUME remote' # "dead", NEW k \in DOMAIN toRemote'
        PROVE toRemote'[k].kind # "eot" /\ toRemote'[k].num = block' % BlockMod
    <3>1. toRemote' = <<f>>
      BY <1>1, <1>2, <2>1 DEF f
    <3>2. k = 1 /\ toRemote'[1] = f
      BY <3>1
    <3>. QED BY <1>1, <1>3, <3>2
  <2>2. DOMAIN toHost' = {}
    OBVIOUS
  <2>. QED BY <2>1, <2>2 DEF Numbered
<1>. QED BY <1>4, <1>5, <1>6, <1>7, <1>8 DEF Lockstep

\* While a session runs, it reads all that is under way to it.
LEMMA ReadsAll ==
  ASSUME SendTypes, Lockstep, outcome = "none", NEW n \in DOMAIN toHost
  PROVE  /\ SubSeq(toHost, 1, n) = toHost /\ SubSeq(toHost, n + 1, Len(toHost)) = <<>>
         /\ DOMAIN toHost = {1} /\ (remote # "dead" => toRemote = <<>>)
<1>1. /\ toHost \in Seq(Answers) /\ Len(toHost) \in Nat /\ n \in 1 .. Len(toHost) /\ toRemote \in Seq(Frames)
      /\ DOMAIN toHost = 1 .. Len(toHost) /\ Len(toRemote) \in Nat
  BY LenProperties DEF SendTypes, LineOK
<1>2. Len(toHost) = 1 /\ n = 1
  BY <1>1 DEF Lockstep, Turns
<1>3. SubSeq(toHost, 1, n) = toHost
  BY <1>1, <1>2, SubSeqFull
<1>4. SubSeq(toHost, n + 1, Len(toHost)) = <<>>
  BY <1>1, <1>2, SubSeqEmpty
<1>5. ASSUME remote # "dead" PROVE toRemote = <<>>
  <2>1. Len(toRemote) = 0
    BY <1>1, <1>2, <1>5 DEF Lockstep, Turns
  <2>. QED BY <1>1, <2>1, EmptySeq
<1>. QED BY <1>1, <1>2, <1>3, <1>4, <1>5

\* The first of the answers read is one of them.
LEMMA FirstOfIs ==
  ASSUME NEW bs, NEW kinds, "none" \notin kinds, FirstOf(bs, kinds) # "none", DOMAIN bs = {1}
  PROVE  FirstOf(bs, kinds) = bs[1]
<1>. DEFINE at == {k \in DOMAIN bs : bs[k] \in kinds}
<1>1. CASE at = {}
  BY <1>1 DEF FirstOf, Earliest
<1>2. CASE at # {}
  <2>1. at = {1}
    BY <1>2
  <2>2. Earliest(at) = 1
    BY <2>1 DEF Earliest
  <2>. QED BY <2>2 DEF FirstOf
<1>. QED BY <1>1, <1>2

\* Nothing changes but the answers under way, of which none is new.
LEMMA AnswersDrop ==
  ASSUME SendTypes, SendTypes', Lockstep, UNCHANGED <<toRemote, peer, state, fd, block, sent, outcome>>,
         Len(toHost') <= Len(toHost),
         \A k \in DOMAIN toHost' : toHost'[k] # "ack" \/ \E i \in DOMAIN toHost : toHost'[k] = toHost[i]
  PROVE  Lockstep'
<1>1. /\ InPackets' /\ OneBlock' /\ NotYet' /\ InStep' /\ CompleteMeansStored'
  BY DEF peer, Lockstep, InPackets, RemoteGetsPrefix, OneBlock, NotYet, InStep, CompleteMeansStored
<1>2. Turns'
  <2>1. Len(toHost) \in Nat /\ Len(toHost') \in Nat /\ Len(toRemote) \in Nat
    BY LenProperties DEF SendTypes, LineOK
  <2>. QED BY <2>1 DEF Lockstep, Turns, peer
<1>3. Numbered'
  <2>1. ASSUME state' = "sending", NEW k \in DOMAIN toHost', toHost'[k] = "ack" PROVE expected' = block' + 1
    BY <2>1 DEF Lockstep, Numbered, peer
  <2>2. ASSUME state' = "sending", remote' # "dead", NEW k \in DOMAIN toRemote'
        PROVE  toRemote'[k].kind # "eot" /\ (toRemote'[k].kind = "block" => toRemote'[k].num = block' % BlockMod)
    BY <2>2 DEF Lockstep, Numbered, peer
  <2>. QED BY <2>1, <2>2 DEF Numbered
<1>. QED BY <1>1, <1>2, <1>3 DEF Lockstep

LEMMA ReadsInStep ==
  ASSUME SendTypes, SendTypes', Lockstep, HostReadsAnswers
  PROVE  Lockstep'
<1>1. PICK n \in DOMAIN toHost :
        /\ toHost' = SubSeq(toHost, n + 1, Len(toHost))
        /\ \/ state = "idle"    /\ Ignore
           \/ state = "waiting" /\ HandleSendWait(SubSeq(toHost, 1, n))
           \/ state = "sending" /\ HandleResponse(SubSeq(toHost, 1, n))
  BY DEF HostReadsAnswers
<1>0. /\ UNCHANGED peer /\ FileSize \in Nat /\ Packet \in Nat \ {0} /\ Len(received) \in Nat
      /\ block \in Nat \ {0} /\ sent \in Nat /\ expected \in Nat \ {0} /\ MaxRetries \in Nat
      /\ toHost \in Seq(Answers) /\ Len(toHost) \in Nat /\ n \in 1 .. Len(toHost)
      /\ (fd <=> state = "sending") /\ (state # "idle" => outcome = "none")
  <2>1. FileSize \in Nat /\ Packet \in Nat \ {0} /\ MaxRetries \in Nat
    BY SendAssumption, LineAssumption
  <2>2. /\ block \in Nat \ {0} /\ sent \in Nat
        /\ (fd <=> state = "sending") /\ (state # "idle" => outcome = "none")
    BY <2>1 DEF SendTypes, HostOK
  <2>3. expected \in Nat \ {0} /\ Len(received) \in Nat
    BY LenProperties DEF SendTypes, PeerOK
  <2>4. toHost \in Seq(Answers) /\ Len(toHost) \in Nat /\ n \in 1 .. Len(toHost)
    BY LenProperties DEF SendTypes, LineOK
  <2>5. UNCHANGED peer
    BY DEF HostReadsAnswers
  <2>. QED BY <2>1, <2>2, <2>3, <2>4, <2>5
<1>2. Len(toHost') <= Len(toHost)
      /\ \A k \in DOMAIN toHost' : \E i \in DOMAIN toHost : toHost'[k] = toHost[i]
  <2>1. \A i \in n + 1 .. Len(toHost) : toHost[i] \in Answers
    BY <1>0, ElementOfSeq
  <2>2. /\ toHost' \in Seq(Answers) /\ Len(toHost') = (IF n + 1 <= Len(toHost) THEN Len(toHost) - (n + 1) + 1 ELSE 0)
        /\ \A i \in 1 .. Len(toHost) - (n + 1) + 1 : toHost'[i] = toHost[(n + 1) + i - 1]
    <3>1. n + 1 \in Int /\ Len(toHost) \in Int
      BY <1>0
    <3>2. toHost' = SubSeq(toHost, n + 1, Len(toHost))
      BY <1>1
    <3>. QED BY <2>1, <3>1, <3>2, SubSeqProperties
  <2>3. DOMAIN toHost' = 1 .. Len(toHost') /\ DOMAIN toHost = 1 .. Len(toHost)
    BY <1>0, <2>2, LenProperties
  <2>4. Len(toHost') <= Len(toHost)
    BY <1>0, <2>2
  <2>5. ASSUME NEW k \in DOMAIN toHost' PROVE \E i \in DOMAIN toHost : toHost'[k] = toHost[i]
    <3>1. k \in 1 .. Len(toHost) - (n + 1) + 1 /\ (n + 1) + k - 1 \in DOMAIN toHost
      BY <1>0, <2>2, <2>3, <2>5
    <3>. QED BY <2>2, <3>1
  <2>. QED BY <2>4, <2>5
<1>3. CASE UNCHANGED <<state, fd, block, sent, outcome, toRemote>>
  BY <1>0, <1>2, <1>3, AnswersDrop
<1>4. ASSUME state = "waiting", SendNextPacket(block, sent, 0) PROVE Lockstep'
  <2>1. /\ outcome = "none" /\ toHost' = <<>> /\ (remote # "dead" => toRemote = <<>>)
        /\ fd = FALSE /\ expected = 1 /\ received = <<>>
    <3>1. outcome = "none" /\ fd = FALSE
      BY <1>0, <1>4 DEF SendTypes, HostOK
    <3>2. expected = 1 /\ received = <<>>
      BY <1>4, <3>1 DEF Lockstep, NotYet
    <3>. QED BY <1>1, <3>1, <3>2, ReadsAll
  <2>2. CASE NoneRemains(0) /\ SendEot
    <3>1. Len(received) >= FileSize
      BY <1>0, <2>1, <2>2 DEF NoneRemains
    <3>. QED BY <1>0, <2>2, <3>1, EndsInStep DEF SendEot, peer
  <2>3. CASE ~NoneRemains(0) /\ SendPacket(1, 0, 0)
    <3>1. Len(received) = 0 /\ 0 < FileSize
      BY <1>0, <2>1, <2>3 DEF NoneRemains
    <3>2. sent' = Lesser(Len(received) + Packet, FileSize)
      BY <1>0, <2>3, <3>1 DEF SendPacket, Lesser
    <3>. QED BY <1>0, <2>1, <2>3, <3>1, <3>2, SendsInStep
  <2>4. CASE EndSession(<<Frame("can")>>)
    BY <1>0, <2>4, EndsInStep DEF EndSession, peer
  <2>. QED BY <1>4, <2>1, <2>2, <2>3, <2>4 DEF SendNextPacket
<1>5. ASSUME state = "sending", HandleResponse(SubSeq(toHost, 1, n)) PROVE Lockstep'
  <2>1. /\ outcome = "none" /\ toHost' = <<>> /\ (remote # "dead" => toRemote = <<>>)
        /\ fd = TRUE /\ SubSeq(toHost, 1, n) = toHost /\ DOMAIN toHost = {1}
    <3>1. outcome = "none" /\ fd = TRUE
      BY <1>0, <1>5 DEF SendTypes, HostOK
    <3>. QED BY <1>1, <3>1, ReadsAll
  <2>2. FirstOf(toHost, {"ack", "nak", "can"}) = "ack" => toHost[1] = "ack"
    BY <2>1, FirstOfIs
  <2>3. CASE FirstOf(toHost, {"ack", "nak", "can"}) = "ack" /\ SendNextPacket(block + 1, sent, 0)
    <3>1. expected = block + 1 /\ sent = Lesser(Len(received), FileSize)
      BY <1>0, <1>5, <2>1, <2>2, <2>3 DEF Lockstep, Numbered, InStep
    <3>2. CASE NoneRemains(sent) /\ SendEot
      <4>1. Len(received) >= FileSize
        BY <1>0, <3>1, <3>2 DEF NoneRemains, Lesser
      <4>. QED BY <1>0, <3>2, <4>1, EndsInStep DEF SendEot, peer
    <3>3. CASE ~NoneRemains(sent) /\ SendPacket(block + 1, sent, 0)
      <4>1. sent = Len(received) /\ Len(received) < FileSize
        BY <1>0, <3>1, <3>3 DEF NoneRemains, Lesser
      <4>2. sent' = Lesser(Len(received) + Packet, FileSize)
        BY <1>0, <3>3, <4>1 DEF SendPacket, Lesser
      <4>3. block + 1 \in Nat \ {0}
        BY <1>0
      <4>. QED BY <1>0, <2>1, <3>1, <3>3, <4>1, <4>2, <4>3, SendsInStep
    <3>. QED BY <2>1, <2>3, <3>2, <3>3 DEF SendNextPacket
  <2>4. CASE Resend(retries + 1)
    <3>1. CASE EndSession(<<Frame("can")>>)
      BY <1>0, <3>1, EndsInStep DEF EndSession, peer
    <3>2. CASE SendNextPacket(block, Rewind, retries + 1)
      <4>1. /\ Rewind \in Nat /\ Rewind < FileSize /\ sent = Lesser(Rewind + Packet, FileSize)
            /\ (Whole /\ expected = block => Rewind = Len(received))
        BY <1>5, RewindIs
      <4>2. SendPacket(block, Rewind, retries + 1)
        <5>1. ~NoneRemains(Rewind)
          BY <1>0, <4>1 DEF NoneRemains
        <5>. QED BY <2>1, <3>2, <5>1 DEF SendNextPacket
      <4>3. sent' = sent
        BY <4>1, <4>2 DEF SendPacket, Lesser
      <4>4. \/ expected = block /\ Len(received) < FileSize /\ sent' = Lesser(Len(received) + Packet, FileSize)
               /\ (Whole => Rewind = Len(received))
            \/ expected = block + 1 /\ sent' = Lesser(Len(received), FileSize)
        BY <1>5, <4>1, <4>3 DEF Lockstep, InStep
      <4>. QED BY <1>0, <2>1, <4>1, <4>2, <4>4, SendsInStep
    <3>. QED BY <2>4, <3>1, <3>2 DEF Resend
  <2>5. CASE EndSession(<<>>)
    BY <1>0, <2>5, EndsInStep DEF EndSession, peer
  <2>6. CASE UNCHANGED <<state, pending, fd, block, sent, retries, outcome, toRemote, budget>>
    BY <1>3, <2>6
  <2>. QED BY <1>5, <2>1, <2>3, <2>4, <2>5, <2>6 DEF HandleResponse
<1>. QED BY <1>1, <1>3, <1>4, <1>5 DEF Ignore, host, HandleSendWait

\* A timer fires when the receiver is dead: nothing that is sent is read.
LEMMA TimeoutInStep ==
  ASSUME SendTypes, SendTypes', Lockstep, remote = "dead", HostTimeout
  PROVE  Lockstep'
<1>0. /\ UNCHANGED <<toHost, peer>> /\ remote' = "dead" /\ FileSize \in Nat /\ Packet \in Nat \ {0} /\ sent \in Nat
      /\ (state # "idle" => outcome = "none")
  BY SendAssumption DEF HostTimeout, peer, SendTypes, HostOK
<1>1. CASE EndSession(<<>>)
  BY <1>0, <1>1, EndsInStep DEF EndSession, peer
<1>2. CASE UNCHANGED <<state, block, sent, outcome>>
  <2>1. /\ InPackets' /\ OneBlock' /\ Turns' /\ NotYet' /\ InStep' /\ CompleteMeansStored'
    BY <1>0, <1>2 DEF peer, Lockstep, InPackets, RemoteGetsPrefix,
       OneBlock, Turns, NotYet, InStep, CompleteMeansStored
  <2>2. Numbered'
    BY <1>0, <1>2 DEF Lockstep, Numbered, peer
  <2>. QED BY <2>1, <2>2 DEF Lockstep
<1>3. CASE state = "sending" /\ SendPacket(block, Rewind, retries + 1)
  <2>1. sent' = sent
    BY <1>0, <1>3, RewindIs DEF SendPacket, Lesser
  <2>. QED BY <1>2, <1>3, <2>1 DEF SendPacket
<1>. QED BY <1>1, <1>2, <1>3 DEF HostTimeout, WaitTimeout, AckTimeout

\* What a stored block adds to the units received.
LEMMA StoredIs ==
  ASSUME SendTypes, Lockstep, NEW f \in Frames, received' = received \o f.data, expected' = expected + 1,
         Len(f.data) = Packet, Whole => \A k \in 1 .. Packet : f.data[k] = Unit(Len(received) + k)
  PROVE  Len(received') = Len(received) + Packet /\ InPackets'
<1>1. /\ received \in Seq(Nat) /\ Len(received) \in Nat /\ Packet \in Nat \ {0} /\ f.data \in Seq(Nat)
      /\ expected \in Nat \ {0}
  BY SendAssumption, LenProperties DEF SendTypes, PeerOK, Frames
<1>2. /\ received' \in Seq(Nat) /\ Len(received') = Len(received) + Packet
      /\ \A i \in 1 .. Len(received) + Packet :
           received'[i] = IF i <= Len(received) THEN received[i] ELSE f.data[i - Len(received)]
  BY <1>1, ConcatProperties
<1>3. \E j \in Nat : Len(received') = j * Packet
  <2>1. PICK j \in Nat : Len(received) = j * Packet
    BY DEF Lockstep, InPackets
  <2>2. Len(received') = (j + 1) * Packet
    BY <1>1, <1>2, <2>1
  <2>. QED BY <2>2
<1>4. Len(received') >= Packet
  BY <1>1, <1>2
<1>5. ASSUME Whole, NEW i \in DOMAIN received' PROVE received'[i] = Unit(i)
  <2>1. DOMAIN received' = 1 .. Len(received) + Packet /\ DOMAIN received = 1 .. Len(received)
    BY <1>1, <1>2, LenProperties
  <2>2. CASE i <= Len(received)
    BY <1>1, <1>2, <1>5, <2>1, <2>2 DEF Lockstep, InPackets, RemoteGetsPrefix
  <2>3. CASE ~(i <= Len(received))
    <3>. DEFINE d == i - Len(received)
    <3>1. d \in 1 .. Packet /\ Len(received) + d = i /\ received'[i] = f.data[d]
      BY <1>1, <1>2, <2>1, <2>3
    <3>. HIDE DEF d
    <3>. QED BY <1>5, <3>1
  <2>. QED BY <2>2, <2>3
<1>. QED BY <1>2, <1>3, <1>4, <1>5 DEF InPackets, RemoteGetsPrefix

\* The receiver takes one frame and answers it.
LEMMA RemoteInStep ==
  ASSUME SendTypes, SendTypes', Lockstep, RemoteReads
  PROVE  Lockstep'
<1>. DEFINE f == Head(toRemote)
<1>0. /\ toRemote # <<>> /\ remote # "dead" /\ toRemote' = Tail(toRemote) /\ UNCHANGED <<host, budget>>
      /\ state' = state /\ outcome' = outcome /\ block' = block /\ sent' = sent
  BY DEF RemoteReads, host
<1>1. /\ toRemote \in Seq(Frames) /\ Len(toRemote) \in Nat \ {0} /\ DOMAIN toRemote = 1 .. Len(toRemote)
      /\ f \in Frames /\ f = toRemote[1] /\ toRemote' \in Seq(Frames) /\ Len(toRemote') = Len(toRemote) - 1
      /\ (\A i \in 1 .. Len(toRemote') : toRemote'[i] = toRemote[i + 1])
      /\ DOMAIN toRemote' = 1 .. Len(toRemote')
  BY <1>0, HeadTailProperties, EmptySeq, LenProperties DEF SendTypes, LineOK
<1>2. /\ toHost \in Seq(Answers) /\ Len(toHost) \in Nat /\ DOMAIN toHost = 1 .. Len(toHost) /\ Len(received) \in Nat
      /\ expected \in Nat \ {0} /\ block \in Nat \ {0} /\ Packet \in Nat \ {0} /\ FileSize \in Nat
      /\ BlockMod \in Nat \ {0, 1} /\ (state # "idle" => outcome = "none")
  BY SendAssumption, LineAssumption, LenProperties DEF SendTypes, LineOK, PeerOK, HostOK
<1>. HIDE DEF f
<1>3. \A k \in DOMAIN toRemote' : toRemote'[k].kind # "block"
  <2>1. ASSUME NEW k \in DOMAIN toRemote', toRemote'[k].kind = "block" PROVE FALSE
    <3>1. k + 1 \in DOMAIN toRemote /\ toRemote'[k] = toRemote[k + 1] /\ k + 1 # 1
      BY <1>1
    <3>. QED BY <1>0, <2>1, <3>1 DEF Lockstep, OneBlock
  <2>. QED BY <2>1
<1>4. OneBlock'
  BY <1>3 DEF OneBlock
<1>5. outcome = "none" => toHost = <<>> /\ Len(toHost) = 0 /\ Len(toRemote') = 0 /\ state = "sending"
  <2>1. ASSUME outcome = "none" PROVE Len(toRemote) = 1 /\ Len(toHost) = 0
    BY <1>0, <1>1, <1>2, <2>1 DEF Lockstep, Turns
  <2>2. ASSUME outcome = "none" PROVE toHost = <<>>
    BY <1>2, <2>1, <2>2, EmptySeq
  <2>3. ASSUME outcome = "none" PROVE state = "sending"
    BY <1>0, <2>3 DEF Lockstep, NotYet
  <2>. QED BY <1>1, <2>1, <2>2, <2>3
\* What the answer does to the invariant, given what was stored.
<1>6. ASSUME NEW byte \in Answers, toHost' = Append(toHost, byte) \/ toHost' = toHost,
             outcome = "none" /\ byte = "ack" /\ toHost' # toHost => expected' = block + 1,
             InPackets', InStep', Len(received') >= Len(received)
      PROVE  Lockstep'
  <2>1. outcome' = "none" => Len(toHost') <= 1 /\ Len(toRemote') + Len(toHost') <= 1
    <3>1. ASSUME outcome = "none" PROVE Len(toHost') <= 1
      <4>1. Len(Append(toHost, byte)) = Len(toHost) + 1
        BY <1>2, AppendProperties
      <4>2. Len(toHost) = 0 /\ (Len(toHost') = Len(toHost) \/ Len(toHost') = Len(Append(toHost, byte)))
        BY <1>5, <1>6, <3>1
      <4>3. Len(toHost') = 0 \/ Len(toHost') = 1
        BY <4>1, <4>2
      <4>. DEFINE n == Len(toHost')
      <4>4. n = 0 \/ n = 1
        BY <4>3
      <4>. HIDE DEF n
      <4>5. n <= 1
        BY <4>4
      <4>. QED BY <4>5 DEF n
    <3>2. Len(toHost') \in Nat
      BY LenProperties DEF SendTypes, LineOK
    <3>3. ASSUME outcome = "none" PROVE Len(toRemote') + Len(toHost') <= 1
      <4>1. Len(toRemote') = 0
        BY <1>5, <3>3
      <4>. QED BY <3>1, <3>2, <3>3, <4>1
    <3>. QED BY <1>0, <3>1, <3>3
  <2>2. Turns' /\ NotYet'
    BY <1>0, <1>5, <2>1 DEF Turns, NotYet
  <2>3. ASSUME state = "sending", NEW k \in DOMAIN toHost', toHost'[k] = "ack" PROVE expected' = block + 1
    <3>1. outcome = "none" /\ toHost = <<>>
      BY <1>2, <1>5, <2>3
    <3>2. toHost' = <<byte>>
      BY <1>6, <2>3, <3>1
    <3>3. byte = "ack" /\ toHost' # toHost
      BY <2>3, <3>1, <3>2
    <3>. QED BY <1>6, <3>1, <3>3
  <2>4. Numbered'
    <3>1. ASSUME state = "sending" PROVE DOMAIN toRemote' = {}
      BY <1>1, <1>2, <1>5, <3>1
    <3>. QED BY <1>0, <2>3, <3>1 DEF Numbered
  <2>5. CompleteMeansStored'
    <3>1. Len(received') \in Nat
      BY LenProperties DEF SendTypes, PeerOK
    <3>. QED BY <1>0, <1>2, <1>6, <3>1 DEF Lockstep, CompleteMeansStored
  <2>. QED BY <1>4, <1>6, <2>2, <2>4, <2>5 DEF Lockstep
<1>7. ASSUME UNCHANGED <<expected, received>> PROVE InPackets' /\ InStep' /\ Len(received') >= Len(received)
  <2>1. InPackets'
    BY <1>7 DEF Lockstep, InPackets, RemoteGetsPrefix
  <2>2. InStep'
    BY <1>0, <1>7 DEF Lockstep, InStep
  <2>3. Len(received') >= Len(received)
    BY <1>2, <1>7
  <2>. QED BY <2>1, <2>2, <2>3
<1>8. (expected - 1) % BlockMod # expected % BlockMod /\ block % BlockMod # (block + 1) % BlockMod
  <2>1. expected - 1 \in Nat /\ expected \in Nat /\ expected - 1 < expected /\ expected < (expected - 1) + BlockMod
    BY <1>2
  <2>2. block \in Nat /\ block + 1 \in Nat /\ block < block + 1 /\ block + 1 < block + BlockMod
    BY <1>2
  <2>. QED BY <2>1, <2>2, Apart
<1>9. CASE f.kind = "block" /\ Store(f) /\ f.num = expected % BlockMod
  <2>1. Fits(f, expected, Len(received)) /\ (state = "sending" => f.num = block % BlockMod)
    BY <1>0, <1>1, <1>9 DEF Lockstep, OneBlock, Numbered
  <2>3. Len(f.data) = Packet /\ (Whole => \A k \in 1 .. Packet : f.data[k] = Unit(Len(received) + k))
    BY <1>9, <1>8, <2>1 DEF Fits
  <2>4. received' = received \o f.data /\ expected' = expected + 1 /\ toHost' = Append(toHost, "ack")
    BY <1>9 DEF Store, Answer
  <2>5. Len(received') = Len(received) + Packet /\ InPackets'
    BY <1>1, <2>3, <2>4, StoredIs
  <2>6. ASSUME state = "sending"
        PROVE  expected = block /\ Len(received) < FileSize /\ sent = Lesser(Len(received) + Packet, FileSize)
    <3>1. block % BlockMod # (block + 1) % BlockMod
      BY <1>8
    <3>2. expected # block + 1
      BY <1>9, <2>1, <2>6, <3>1
    <3>. QED BY <2>6, <3>2 DEF Lockstep, InStep
  <2>7. InStep'
    BY <1>0, <2>4, <2>5, <2>6 DEF InStep
  <2>8. "ack" \in Answers
    BY DEF Answers
  <2>9. outcome = "none" => expected' = block + 1
    BY <1>5, <2>4, <2>6
  <2>10. Len(received') >= Len(received)
    BY <1>2, <2>5
  <2>. QED BY <1>6, <2>4, <2>5, <2>7, <2>8, <2>9, <2>10
<1>10. CASE f.kind = "block" /\ f.num = (expected - 1) % BlockMod /\ Answer("ack") /\ UNCHANGED peer
  <2>1. state = "sending" => f.num = block % BlockMod
    BY <1>0, <1>1, <1>10 DEF Lockstep, Numbered
  <2>2. ASSUME outcome = "none" PROVE expected = block + 1
    <3>1. expected # block
      BY <1>5, <1>10, <1>8, <2>1, <2>2
    <3>. QED BY <1>5, <2>2, <3>1 DEF Lockstep, InStep
  <2>3. "ack" \in Answers
    BY DEF Answers
  <2>4. UNCHANGED <<expected, received>> /\ toHost' = Append(toHost, "ack")
    BY <1>10 DEF peer, Answer
  <2>. QED BY <1>6, <1>7, <2>2, <2>3, <2>4
<1>11. CASE f.kind # "eot" /\ (Stop("cancelled", "can") \/ (Answer("nak") /\ UNCHANGED peer))
  <2>1. UNCHANGED <<expected, received>> /\ \E byte \in {"can", "nak"} : toHost' = Append(toHost, byte)
    BY <1>11 DEF peer, Stop, Answer
  <2>2. {"can", "nak"} \subseteq Answers
    BY DEF Answers
  <2>. QED BY <1>6, <1>7, <2>1, <2>2
<1>12. CASE f.kind = "eot" /\ Stop("done", "ack")
  <2>1. outcome # "none"
    <3>1. ASSUME outcome = "none" PROVE FALSE
      BY <1>0, <1>1, <1>5, <1>12, <3>1 DEF Lockstep, Numbered
    <3>. QED BY <3>1
  <2>2. "ack" \in Answers
    BY DEF Answers
  <2>3. UNCHANGED <<expected, received>> /\ toHost' = Append(toHost, "ack")
    BY <1>12 DEF Stop, Answer
  <2>. QED BY <1>6, <1>7, <2>1, <2>2, <2>3
<1>13. CASE UNCHANGED <<toHost, expected, received>>
  <2>1. "nak" \in Answers
    BY DEF Answers
  <2>. QED BY <1>6, <1>7, <1>13, <2>1
<1>. QED BY <1>9, <1>10, <1>11, <1>12, <1>13 DEF RemoteReads, TakeBlock, f, peer

\* The line changes a frame or drops one.
LEMMA FramesDrop ==
  ASSUME SendTypes, SendTypes', Lockstep, UNCHANGED <<host, peer, toHost>>, Len(toRemote') <= Len(toRemote),
         \A k \in DOMAIN toRemote' :
           \/ toRemote'[k].kind = "bad"
           \/ k \in DOMAIN toRemote /\ toRemote'[k] = toRemote[k]
           \/ k + 1 \in DOMAIN toRemote /\ toRemote'[k] = toRemote[k + 1]
  PROVE  Lockstep'
<1>0. /\ UNCHANGED <<state, outcome, block, sent, remote, expected, received>>
      /\ DOMAIN toRemote' = 1 .. Len(toRemote') /\ Len(toRemote') \in Nat /\ Len(toRemote) \in Nat /\ Len(toHost) \in Nat
      /\ toHost' = toHost
  BY LenProperties DEF host, peer, SendTypes, LineOK
<1>1. InPackets' /\ InStep' /\ CompleteMeansStored'
  BY <1>0 DEF Lockstep, InPackets, RemoteGetsPrefix, InStep, CompleteMeansStored
<1>2. OneBlock'
  <2>1. ASSUME remote # "dead", NEW k \in DOMAIN toRemote', toRemote'[k].kind = "block"
        PROVE  k = 1 /\ Fits(toRemote'[k], expected, Len(received))
    <3>1. CASE k \in DOMAIN toRemote /\ toRemote'[k] = toRemote[k]
      BY <2>1, <3>1 DEF Lockstep, OneBlock
    <3>2. CASE k + 1 \in DOMAIN toRemote /\ toRemote'[k] = toRemote[k + 1]
      <4>1. k + 1 # 1
        BY <1>0
      <4>. QED BY <2>1, <3>2, <4>1 DEF Lockstep, OneBlock
    <3>. QED BY <2>1, <3>1, <3>2
  <2>. QED BY <1>0, <2>1 DEF OneBlock
<1>3. Turns'
  BY <1>0 DEF Lockstep, Turns
<1>4. NotYet'
  <2>1. ASSUME toRemote = <<>> PROVE toRemote' = <<>>
    <3>1. Len(toRemote') = 0
      BY <1>0, <2>1
    <3>. QED BY <3>1, EmptySeq DEF SendTypes, LineOK
  <2>. QED BY <1>0, <2>1 DEF Lockstep, NotYet
<1>5. Numbered'
  <2>1. ASSUME state = "sending", remote # "dead", NEW k \in DOMAIN toRemote'
        PROVE  toRemote'[k].kind # "eot" /\ (toRemote'[k].kind = "block" => toRemote'[k].num = block % BlockMod)
    BY <2>1 DEF Lockstep, Numbered
  <2>2. ASSUME state = "sending", NEW k \in DOMAIN toHost', toHost'[k] = "ack" PROVE expected = block + 1
    BY <1>0, <2>2 DEF Lockstep, Numbered
  <2>. QED BY <1>0, <2>1, <2>2 DEF Numbered
<1>. QED BY <1>1, <1>2, <1>3, <1>4, <1>5 DEF Lockstep

LEMMA LineInStep ==
  ASSUME SendTypes, SendTypes', Lockstep, SendLine
  PROVE  Lockstep'
<1>0. /\ toHost \in Seq(Answers) /\ toRemote \in Seq(Frames) /\ DOMAIN toHost = 1 .. Len(toHost)
      /\ DOMAIN toRemote = 1 .. Len(toRemote) /\ Len(toHost) \in Nat /\ Len(toRemote) \in Nat
      /\ DOMAIN toHost' = 1 .. Len(toHost') /\ DOMAIN toRemote' = 1 .. Len(toRemote')
      /\ UNCHANGED <<host, peer>>
  BY LenProperties DEF SendTypes, LineOK, SendLine, CorruptFrame, CorruptAnswer, LoseFrame, LoseAnswer
<1>1. CASE CorruptFrame
  <2>1. PICK k \in DOMAIN toRemote : toRemote' = [toRemote EXCEPT ![k] = Frame("bad")]
    BY <1>1 DEF CorruptFrame
  <2>2. Frame("bad") \in Frames /\ Frame("bad").kind = "bad"
    BY FrameOK DEF Kinds, Frame
  <2>3. Len(toRemote') = Len(toRemote)
        /\ \A j \in 1 .. Len(toRemote) : toRemote'[j] = IF j = k THEN Frame("bad") ELSE toRemote[j]
    BY <1>0, <2>1, <2>2, ExceptSeq
  <2>4. UNCHANGED toHost
    BY <1>1 DEF CorruptFrame
  <2>. QED BY <1>0, <2>2, <2>3, <2>4, FramesDrop
<1>2. CASE LoseFrame
  <2>1. PICK k \in DOMAIN toRemote : toRemote' = Without(toRemote, k)
    BY <1>2 DEF LoseFrame
  <2>2. Len(toRemote') = Len(toRemote) - 1
        /\ \A i \in 1 .. Len(toRemote) - 1 : toRemote'[i] = IF i < k THEN toRemote[i] ELSE toRemote[i + 1]
    BY <1>0, <2>1, WithoutIs
  <2>3. ASSUME NEW i \in DOMAIN toRemote'
        PROVE  \/ i \in DOMAIN toRemote /\ toRemote'[i] = toRemote[i]
               \/ i + 1 \in DOMAIN toRemote /\ toRemote'[i] = toRemote[i + 1]
    BY <1>0, <2>2
  <2>4. Len(toRemote') <= Len(toRemote) /\ UNCHANGED toHost
    BY <1>0, <1>2, <2>2 DEF LoseFrame
  <2>. QED BY <1>0, <2>3, <2>4, FramesDrop
<1>3. ASSUME CorruptAnswer \/ LoseAnswer
      PROVE  UNCHANGED <<toRemote, peer, state, fd, block, sent, outcome>>
  BY <1>3 DEF CorruptAnswer, LoseAnswer, host
<1>4. CASE CorruptAnswer
  <2>1. PICK k \in DOMAIN toHost : toHost' = [toHost EXCEPT ![k] = "junk"]
    BY <1>4 DEF CorruptAnswer
  <2>2. "junk" \in Answers
    BY DEF Answers
  <2>3. Len(toHost') = Len(toHost)
        /\ \A j \in 1 .. Len(toHost) : toHost'[j] = IF j = k THEN "junk" ELSE toHost[j]
    BY <1>0, <2>1, <2>2, ExceptSeq
  <2>4. ASSUME NEW j \in DOMAIN toHost' PROVE toHost'[j] # "ack" \/ \E i \in DOMAIN toHost : toHost'[j] = toHost[i]
    BY <1>0, <2>3
  <2>. QED BY <1>0, <1>3, <1>4, <2>3, <2>4, AnswersDrop
<1>5. CASE LoseAnswer
  <2>1. PICK k \in DOMAIN toHost : toHost' = Without(toHost, k)
    BY <1>5 DEF LoseAnswer
  <2>2. Len(toHost') = Len(toHost) - 1
        /\ \A i \in 1 .. Len(toHost) - 1 : toHost'[i] = IF i < k THEN toHost[i] ELSE toHost[i + 1]
    BY <1>0, <2>1, WithoutIs
  <2>3. ASSUME NEW j \in DOMAIN toHost' PROVE \E i \in DOMAIN toHost : toHost'[j] = toHost[i]
    <3>1. j \in DOMAIN toHost /\ j + 1 \in DOMAIN toHost /\ toHost'[j] \in {toHost[j], toHost[j + 1]}
      BY <1>0, <2>2
    <3>. QED BY <3>1
  <2>4. Len(toHost') <= Len(toHost)
    BY <1>0, <2>2
  <2>. QED BY <1>3, <1>5, <2>3, <2>4, AnswersDrop
<1>. QED BY <1>1, <1>2, <1>4, <1>5 DEF SendLine

\* On a quiet line the receiver prompts.
LEMMA AsksInStep ==
  ASSUME SendTypes, SendTypes', Lockstep, RemoteTimeout
  PROVE  Lockstep'
<1>0. /\ toRemote = <<>> /\ toHost = <<>> /\ UNCHANGED <<host, toRemote, peer>>
      /\ UNCHANGED <<state, outcome, block, sent, remote, expected, received>>
      /\ \E byte \in {"nak", "C"} : toHost' = <<byte>>
  BY DEF RemoteTimeout, RemoteAsks, Answer, host, peer
<1>1. InPackets' /\ OneBlock' /\ NotYet' /\ InStep' /\ CompleteMeansStored'
  BY <1>0 DEF Lockstep, InPackets, RemoteGetsPrefix, OneBlock, NotYet, InStep, CompleteMeansStored
<1>2. Len(toHost') = 1 /\ Len(toRemote') = 0 /\ DOMAIN toHost' = {1} /\ toHost'[1] # "ack" /\ DOMAIN toRemote' = {}
  BY <1>0
<1>3. Turns'
  BY <1>2 DEF Turns
<1>4. Numbered'
  BY <1>2 DEF Numbered
<1>. QED BY <1>1, <1>3, <1>4 DEF Lockstep

\* The session starts, the user gives the file, or the receiver dies.
LEMMA OthersInStep ==
  ASSUME SendTypes, Lockstep, StartSend \/ SetSendFiles \/ RemoteDies \/ UNCHANGED sendVars
  PROVE  Lockstep'
<1>0. /\ UNCHANGED <<toRemote, toHost, expected, received, outcome>> /\ remote' \in {remote, "dead"}
      /\ (state' = "sending" => state = "sending" /\ UNCHANGED <<block, sent>>)
      /\ (state = "sending" => state' = "sending")
  BY DEF StartSend, SetSendFiles, RemoteDies, sendVars, host, peer
<1>1. InPackets' /\ CompleteMeansStored'
  BY <1>0 DEF Lockstep, InPackets, RemoteGetsPrefix, CompleteMeansStored
<1>2. OneBlock' /\ Turns' /\ NotYet'
  BY <1>0 DEF Lockstep, OneBlock, Turns, NotYet
<1>3. InStep' /\ Numbered'
  BY <1>0 DEF Lockstep, InStep, Numbered
<1>. QED BY <1>1, <1>2, <1>3 DEF Lockstep

LEMMA LockstepInitially == SendInit => Lockstep
<1>. SUFFICES ASSUME SendInit PROVE Lockstep
  OBVIOUS
<1>1. Packet \in Nat \ {0} /\ Len(<<>>) = 0 /\ DOMAIN <<>> = {}
  BY SendAssumption
<1>2. InPackets
  <2>1. Len(received) = 0 * Packet /\ DOMAIN received = {} /\ expected = 1
    BY <1>1 DEF SendInit
  <2>. QED BY <2>1 DEF InPackets, RemoteGetsPrefix
<1>3. OneBlock /\ Turns /\ NotYet
  BY <1>1 DEF SendInit, OneBlock, Turns, NotYet
<1>4. InStep /\ Numbered /\ CompleteMeansStored
  BY DEF SendInit, InStep, Numbered, CompleteMeansStored
<1>. QED BY <1>2, <1>3, <1>4 DEF Lockstep

\* Without answers later than the timers the two sides go in step.
THEOREM StopAndWaitHolds == SendSpec => []StopAndWait
<1>1. SendInit => StopAndWait
  BY SendTypesInitially, LockstepInitially DEF StopAndWait
<1>2. ASSUME StopAndWait, [SendNext]_sendVars PROVE StopAndWait'
  <2>0. SendTypes /\ (InTime => Lockstep)
    BY <1>2 DEF StopAndWait
  <2>1. SendTypes' /\ (InTime' => InTime)
    BY <1>2, <2>0, SendTypesStep DEF InTime
  <2>2. ASSUME InTime PROVE Lockstep'
    <3>1. ~Fault("late")
      BY <2>2 DEF Fault, InTime
    <3>2. CASE CancelSend \/ DestroySend
      <4>1. /\ \E fs \in {<<>>, <<Frame("can")>>} : EndSession(fs)
            /\ UNCHANGED <<expected, received>> /\ remote' \in {remote, "dead"}
        BY <3>2 DEF CancelSend, DestroySend, peer
      <4>. QED BY <2>0, <2>2, <4>1, EndsInStep DEF EndSession
    <3>3. CASE HostTimeout
      BY <1>2, <2>0, <2>1, <2>2, <3>1, <3>3, TimeoutInStep DEF HostTimeout
    <3>4. CASE RemoteEarly
      BY <3>1, <3>4 DEF RemoteEarly
    <3>. QED BY <1>2, <2>0, <2>1, <2>2, <3>2, <3>3, <3>4, ReadsInStep, RemoteInStep, AsksInStep,
            LineInStep, OthersInStep
         DEF SendNext, SendUser, Session, Remote
  <2>. QED BY <2>1, <2>2 DEF StopAndWait
<1>. QED BY <1>1, <1>2, PTL DEF SendSpec

-----------------------------------------------------------------------------
(* A send: the results.                                                    *)

\* A send reported complete has put every unit of the file into the receiver's
\* hands, where no answer is later than the timers.
THEOREM CompleteInTimeHolds == SendSpec => []CompleteInTime
<1>1. StopAndWait => CompleteInTime
  BY DEF StopAndWait, Lockstep, CompleteInTime
<1>. QED BY <1>1, StopAndWaitHolds, PTL

\* The session stays in its types and holds the file open exactly while it sends,
\* whatever the line and the user do.
THEOREM SendTypesHold == SendSpec => [](SendTypeOK /\ (fd <=> state = "sending"))
<1>. DEFINE Types == SendTypeOK /\ (fd <=> state = "sending")
<1>1. StopAndWait => Types
  <2>. SUFFICES ASSUME SendTypes PROVE Types
    BY DEF StopAndWait
  <2>1. SendTypeOK
    BY SendTypesOK
  <2>2. fd <=> state = "sending"
    BY DEF SendTypes, HostOK
  <2>. QED BY <2>1, <2>2
<1>. QED BY <1>1, StopAndWaitHolds, PTL

\* The receiver's units are the file's, through corruption, loss, cancels and
\* deaths, for files of whole packets and answers that are in time.
THEOREM SendInvHolds == SendSpec => [](Whole /\ InTime => SendInv)
<1>. DEFINE Prefix == Whole /\ InTime => SendInv
<1>1. StopAndWait => Prefix
  <2>. SUFFICES ASSUME SendTypes, InTime => Lockstep, Whole, InTime PROVE SendInv
    BY DEF StopAndWait
  <2>1. RemoteGetsPrefix
    BY DEF Lockstep, InPackets
  <2>2. SendTypeOK
    BY SendTypesOK
  <2>3. fd <=> state = "sending"
    BY DEF SendTypes, HostOK
  <2>. QED BY <2>1, <2>2, <2>3 DEF SendInv
<1>. QED BY <1>1, StopAndWaitHolds, PTL

-----------------------------------------------------------------------------
(* A receive: the fields of the session after each of its methods.         *)

RawTokens == [kind : {"head", "tail", "byte"}, first : Reads,
              form : {"sound", "damaged", "short"},
              num : 0 .. BlockMod - 1, data : 0 .. Blocks]

\* Only a head opens a packet.
Tokens  == {t \in RawTokens : /\ IsHead(t) => t.data > 0
                              /\ ~IsHead(t) => t.first \notin {"soh", "stx"}}
Replies == {"ack", "nak", "can"}

\* What the session's fields say of each other between two tokens: a packet
\* begun starts with a head.
FieldsOK(r) ==
  /\ r \in SessionType /\ r.buf \in Seq(Tokens) /\ (r.buf # <<>> => IsHead(r.buf[1]))

LEMMA TypesOfFields ==
  ASSUME NEW r \in SessionType
  PROVE  /\ r.state \in {"idle", "waiting", "receiving"} /\ r.path \in BOOLEAN /\ r.stream \in BOOLEAN
         /\ r.expected \in Nat \ {0} /\ r.retries \in 0 .. MaxRetries /\ r.buf \in Seq(RawTokens)
         /\ r.written \in Seq(1 .. Blocks) /\ r.outcome \in {"none", "complete", "ended"}
         /\ r.reply \in Seq({"ack", "nak", "can"}) /\ r.stray \in SUBSET Controls
  BY DEF SessionType, RawTokens

\* The end of a session.
LEMMA EndedIs ==
  ASSUME NEW r \in SessionType, NEW o \in {"complete", "ended"}, NEW answer \in Seq(Replies)
  PROVE  /\ FieldsOK(Ended(r, o, answer))
         /\ Ended(r, o, answer).state = "idle" /\ ~Ended(r, o, answer).path
         /\ Ended(r, o, answer).buf = <<>> /\ Ended(r, o, answer).outcome = o
         /\ Ended(r, o, answer).written = r.written /\ Ended(r, o, answer).reply = r.reply \o answer
         /\ Ended(r, o, answer).stray = r.stray
<1>. DEFINE e == Ended(r, o, answer)
<1>1. /\ e.state = "idle" /\ e.path = FALSE /\ e.stream = FALSE /\ e.expected = 1 /\ e.retries = 0
      /\ e.buf = <<>> /\ e.outcome = o /\ e.written = r.written /\ e.reply = r.reply \o answer
      /\ e.stray = r.stray
  BY DEF Ended, SessionType
<1>2. r.reply \o answer \in Seq(Replies) /\ r.written \in Seq(1 .. Blocks)
  BY ConcatProperties, TypesOfFields DEF Replies
<1>3. 0 \in 0 .. MaxRetries
  BY LineAssumption
<1>4. <<>> \in Seq(RawTokens) /\ <<>> \in Seq(Tokens) /\ Len(<<>>) = 0
  OBVIOUS
<1>5. e \in SessionType
  <2>. DEFINE p == r.reply \o answer
              A == {"idle", "waiting", "receiving"}
              C == Nat \ {0}
              D == 0 .. MaxRetries
              E == Seq([kind : {"head", "tail", "byte"}, first : Reads,
                        form : {"sound", "damaged", "short"},
                        num : 0 .. BlockMod - 1, data : 0 .. Blocks])
              F == Seq(1 .. Blocks)
              G == {"none", "complete", "ended"}
              H == Seq({"ack", "nak", "can"})
              J == SUBSET Controls
              Type == [state : A, path : BOOLEAN, stream : BOOLEAN, expected : C, retries : D,
                       buf : E, written : F, outcome : G, reply : H, stray : J]
  <2>1. e = [r EXCEPT !.state = "idle", !.path = FALSE, !.stream = FALSE, !.expected = 1,
                      !.retries = 0, !.buf = <<>>, !.outcome = o, !.reply = p]
    BY DEF Ended
  <2>2. "idle" \in A /\ 1 \in C /\ 0 \in D /\ <<>> \in E /\ o \in G /\ p \in H
    BY <1>2, <1>3 DEF Replies
  <2>3. SessionType = Type
    BY DEF SessionType
  <2>. HIDE DEF e, p, A, C, D, E, F, G, H, J
  <2>4. r \in Type
    BY <2>3
  <2>5. e \in Type
    BY <2>1, <2>2, <2>4
  <2>. HIDE DEF Type
  <2>. QED BY <2>3, <2>5
<1>. QED BY <1>1, <1>4, <1>5 DEF FieldsOK

LEMMA AnsweredIs ==
  ASSUME NEW r \in SessionType, NEW byte \in Replies
  PROVE  /\ Answered(r, byte) \in SessionType /\ Answered(r, byte).reply = Append(r.reply, byte)
         /\ Answered(r, byte).state = r.state /\ Answered(r, byte).path = r.path
         /\ Answered(r, byte).stream = r.stream
         /\ Answered(r, byte).buf = r.buf /\ Answered(r, byte).outcome = r.outcome
         /\ Answered(r, byte).written = r.written /\ Answered(r, byte).expected = r.expected
         /\ Answered(r, byte).stray = r.stray
<1>1. Append(r.reply, byte) \in Seq(Replies)
  BY AppendProperties, TypesOfFields DEF Replies
<1>. QED BY <1>1 DEF Answered, SessionType, Replies

\* A nak, or the end of the retries.
LEMMA NakedIs ==
  ASSUME NEW r, FieldsOK(r)
  PROVE  /\ FieldsOK(Naked(r))
         /\ \/ Naked(r) = Ended(r, "ended", <<"can">>)
            \/ /\ Naked(r).reply = Append(r.reply, "nak") /\ Naked(r).state = r.state
               /\ Naked(r).path = r.path /\ Naked(r).buf = r.buf /\ Naked(r).outcome = r.outcome
               /\ Naked(r).written = r.written /\ Naked(r).expected = r.expected /\ Naked(r).stray = r.stray
<1>0. r \in SessionType /\ "nak" \in Replies /\ <<"can">> \in Seq(Replies)
  BY DEF FieldsOK, Replies
<1>1. CASE TooMany(r.retries + 1)
  BY <1>0, <1>1, EndedIs DEF Naked
<1>2. CASE ~TooMany(r.retries + 1)
  <2>. DEFINE a == Answered(r, "nak")  q == [a EXCEPT !.retries = @ + 1]
  <2>1. a \in SessionType /\ a.reply = Append(r.reply, "nak") /\ a.state = r.state /\ a.path = r.path
        /\ a.buf = r.buf /\ a.outcome = r.outcome /\ a.written = r.written /\ a.expected = r.expected
        /\ a.stray = r.stray
    BY <1>0, AnsweredIs
  <2>2. a.retries = r.retries
    BY <1>0 DEF Answered, SessionType
  <2>3. Naked(r) = q
    BY <1>2 DEF Naked
  <2>4. a.retries + 1 \in 0 .. MaxRetries
    BY <1>0, <1>2, <2>2, LineAssumption DEF TooMany, SessionType
  <2>. HIDE DEF a
  <2>5. /\ q.reply = a.reply /\ q.state = a.state /\ q.path = a.path /\ q.buf = a.buf
        /\ q.outcome = a.outcome /\ q.written = a.written /\ q.expected = a.expected /\ q.stray = a.stray
    BY <2>1 DEF SessionType
  <2>6. q \in SessionType
    BY <2>1, <2>4 DEF SessionType
  <2>. HIDE DEF q
  <2>7. FieldsOK(q)
    BY <2>1, <2>5, <2>6 DEF FieldsOK
  <2>. QED BY <2>1, <2>3, <2>5, <2>7
<1>. QED BY <1>1, <1>2

\* The write of a block.
LEMMA WrittenIs ==
  ASSUME NEW r \in SessionType, NEW b \in 1 .. Blocks
  PROVE  /\ Written(r, b) \in SessionType
         /\ Written(r, b).state = r.state /\ Written(r, b).path = r.path
         /\ Written(r, b).buf = r.buf /\ Written(r, b).outcome = r.outcome
         /\ Written(r, b).expected = r.expected /\ Written(r, b).reply = r.reply
         /\ Written(r, b).stray = r.stray
         /\ r.path => Written(r, b).written = Append(r.written, b)
<1>1. Append(r.written, b) \in Seq(1 .. Blocks)
  BY AppendProperties, TypesOfFields
<1>2. CASE r.stream \/ r.path
  BY <1>1, <1>2 DEF Written, SessionType
<1>3. CASE ~(r.stream \/ r.path)
  BY <1>3 DEF Written
<1>. QED BY <1>2, <1>3

-----------------------------------------------------------------------------
(* A receive: one token.                                                   *)

\* A token that opens a packet or closes the file.
Lead(t) == IsHead(t) \/ EndsFile(t)

\* The buffer begins with a packet, not with what was taken for one.
PlainBuf(buf) == buf # <<>> /\ Plain(buf[1])

\* The session ended, the client told o.
Stopped(q, r, o) ==
  q.state = "idle" /\ ~q.path /\ q.buf = <<>> /\ q.outcome = o /\ q.written = r.written

Keeps(q, r) == q.state = r.state /\ q.path = r.path /\ q.outcome = r.outcome

\* Nothing is answered or written.
Silent(q, r) == Keeps(q, r) /\ q.reply = r.reply /\ q.expected = r.expected /\ q.written = r.written

\* With an empty buffer: a token is dropped, ends the session, or begins a packet,
\* or what is taken for one.
Begun(q, r, t) ==
  \/ q = r
  \/ Stopped(q, r, "ended")
  \/ Stopped(q, r, "complete") /\ (EndsFile(t) \/ "eot" \in q.stray)
  \/ IsHead(t) /\ Silent(q, r) /\ q.buf = <<Opening(t)>>

\* A packet is complete and the session answers it: with a nak, or with an ack
\* when its head is of the expected block or else of the one before.
Settled(q, r) ==
  /\ Keeps(q, r) /\ q.buf = <<>>
  /\ \/ q.reply = Append(r.reply, "nak") /\ q.expected = r.expected /\ q.written = r.written
     \/ /\ q.reply = Append(r.reply, "ack") /\ q.expected = r.expected + 1
        /\ Plain(r.buf[1]) /\ r.buf[1].form = "sound" /\ r.buf[1].num = r.expected % BlockMod
        /\ r.path => q.written = Append(r.written, r.buf[1].data)
     \/ /\ q.reply = Append(r.reply, "ack") /\ q.expected = r.expected /\ q.written = r.written
        /\ Plain(r.buf[1]) /\ r.buf[1].form = "sound" /\ r.buf[1].num # r.expected % BlockMod
        /\ r.buf[1].num = (r.expected - 1) % BlockMod

\* A packet is complete with t; where t is a head, the parser goes on within it.
Filled(q, r, t) ==
  \/ Stopped(q, r, "ended")
  \/ ~IsHead(t) /\ Settled(q, r)
  \/ IsHead(t) /\ \E p : FieldsOK(p) /\ Settled(p, r) /\ Begun(q, p, Rest(t))

\* What a token may do.
Taken(q, r, t) ==
  \/ r.state # "receiving" /\ q = r
  \/ r.state = "receiving" /\ r.buf = <<>> /\ Begun(q, r, t)
  \/ r.state = "receiving" /\ r.buf # <<>> /\ ~IsHead(t) /\ ~Plain(r.buf[1]) /\ q = r
  \/ /\ r.state = "receiving" /\ r.buf # <<>> /\ (IsHead(t) \/ Plain(r.buf[1]))
     /\ Silent(q, r) /\ q.buf = Append(r.buf, t)
  \/ /\ r.state = "receiving" /\ r.buf # <<>> /\ (IsHead(t) \/ Plain(r.buf[1]))
     /\ Filled(q, r, t)

\* What a token is read as.
LEMMA ReadAsIs ==
  ASSUME NEW t \in Tokens
  PROVE  /\ ReadAs(t) \in Reads
         /\ ReadAs(t) = "eot" /\ Genuine(t) => EndsFile(t)
         /\ ReadAs(t) \in {"soh", "stx"} => IsHead(t)
         /\ IsHead(t) => Opening(t) \in Tokens /\ IsHead(Opening(t))
<1>1. t \in RawTokens /\ (IsHead(t) => t.data \in 1 .. Blocks) /\ t.first \in Reads
      /\ (~IsHead(t) => t.first \notin {"soh", "stx"})
  BY ReceiveAssumption DEF Tokens, RawTokens
<1>2. IsHead(t) => Inside[t.data] \in Reads
  BY <1>1, ReceiveAssumption
<1>3. ReadAs(t) \in Reads
  BY <1>1, <1>2 DEF ReadAs
<1>4. ReadAs(t) = "eot" /\ Genuine(t) => EndsFile(t)
  BY DEF ReadAs, Genuine
<1>5. ReadAs(t) \in {"soh", "stx"} => IsHead(t)
  BY <1>1 DEF ReadAs
<1>6. ASSUME IsHead(t) PROVE Opening(t) \in Tokens /\ IsHead(Opening(t))
  <2>. DEFINE a == ReadAs(t)
  <2>1. CASE t.first = "none"
    <3>1. Opening(t) = [t EXCEPT !.first = a, !.form = "short"]
      BY <2>1 DEF Opening
    <3>2. a \in Reads
      BY <1>3
    <3>. HIDE DEF a
    <3>3. Opening(t) \in RawTokens /\ Opening(t).kind = t.kind /\ Opening(t).data = t.data
      BY <1>1, <3>1, <3>2 DEF RawTokens
    <3>. QED BY <1>1, <1>6, <3>3, ReceiveAssumption DEF Tokens, IsHead
  <2>2. CASE t.first # "none"
    BY <1>6, <2>2 DEF Opening
  <2>. QED BY <2>1, <2>2
<1>. QED BY <1>3, <1>4, <1>5, <1>6

LEMMA RestIsToken ==
  ASSUME NEW t \in Tokens, IsHead(t)
  PROVE  /\ Rest(t) \in Tokens /\ IsHead(Rest(t)) /\ Rest(t).data = t.data /\ Rest(t).num = t.num
         /\ Rest(t).form = t.form /\ Rest(t).first = "none"
<1>1. t \in RawTokens /\ "none" \in Reads
  BY DEF Tokens, Reads
<1>2. /\ Rest(t) \in RawTokens /\ Rest(t).kind = t.kind /\ Rest(t).data = t.data /\ Rest(t).num = t.num
      /\ Rest(t).form = t.form /\ Rest(t).first = "none"
  BY <1>1 DEF Rest, RawTokens
<1>. QED BY <1>2 DEF Tokens, IsHead

\* The history of what was taken for control bytes.
LEMMA NotedIs ==
  ASSUME NEW r, FieldsOK(r), NEW t \in Tokens, ReadAs(t) # "none"
  PROVE  LET n == Noted(r, t) IN
         /\ FieldsOK(n) /\ Silent(n, r) /\ n.buf = r.buf /\ (Genuine(t) \/ ReadAs(t) \in n.stray)
<1>. DEFINE a == ReadAs(t)  n == Noted(r, t)
<1>0. r \in SessionType /\ r.stray \in SUBSET Controls /\ a \in Controls
  BY ReadAsIs, TypesOfFields DEF FieldsOK, Reads
<1>1. CASE Genuine(t)
  <2>1. n = r
    BY <1>1 DEF Noted
  <2>. QED BY <1>1, <2>1 DEF Silent, Keeps
<1>2. CASE ~Genuine(t)
  <2>1. n = [r EXCEPT !.stray = r.stray \cup {a}]
    BY <1>2 DEF Noted
  <2>. HIDE DEF a, n
  <2>2. r.stray \cup {a} \in SUBSET Controls
    BY <1>0
  <2>3. n \in SessionType
    BY <1>0, <2>1, <2>2 DEF SessionType
  <2>4. Silent(n, r) /\ n.buf = r.buf /\ a \in n.stray
    BY <1>0, <2>1 DEF SessionType, Silent, Keeps
  <2>5. FieldsOK(n)
    BY <2>3, <2>4 DEF FieldsOK
  <2>. QED BY <2>4, <2>5 DEF a, n
<1>. QED BY <1>1, <1>2

LEMMA BeginIs ==
  ASSUME NEW r, FieldsOK(r), r.buf = <<>>, NEW t \in Tokens
  PROVE  FieldsOK(Begin(r, t)) /\ Begun(Begin(r, t), r, t)
<1>. DEFINE q == Begin(r, t)  n == Noted(r, t)
<1>0. ReadAs(t) \in Reads /\ <<>> \in Seq(Replies) /\ <<"ack">> \in Seq(Replies)
  BY ReadAsIs DEF Replies
<1>1. CASE ReadAs(t) = "none"
  <2>1. q = r
    BY <1>1 DEF Begin
  <2>. QED BY <2>1 DEF Begun
<1>2. ASSUME ReadAs(t) # "none"
      PROVE  FieldsOK(n) /\ n \in SessionType /\ Silent(n, r) /\ n.buf = r.buf
             /\ (Genuine(t) \/ ReadAs(t) \in n.stray)
  <2>1. FieldsOK(n) /\ Silent(n, r) /\ n.buf = r.buf /\ (Genuine(t) \/ ReadAs(t) \in n.stray)
    BY <1>2, NotedIs
  <2>. QED BY <2>1 DEF FieldsOK
<1>. HIDE DEF n
<1>3. CASE ReadAs(t) = "eot"
  <2>1. q = Ended(n, "complete", <<"ack">>)
    BY <1>3 DEF Begin, ReceiveComplete, n
  <2>. HIDE DEF q
  <2>2. FieldsOK(q) /\ Stopped(q, n, "complete") /\ q.stray = n.stray
    BY <1>0, <1>2, <1>3, <2>1, EndedIs DEF Stopped
  <2>3. EndsFile(t) \/ "eot" \in q.stray
    BY <1>2, <1>3, <2>2, ReadAsIs
  <2>. QED BY <1>2, <1>3, <2>2, <2>3 DEF Begun, Stopped, Silent, q
<1>4. CASE ReadAs(t) = "can"
  <2>1. q = Ended(n, "ended", <<>>)
    BY <1>4 DEF Begin, n
  <2>. HIDE DEF q
  <2>2. FieldsOK(q) /\ Stopped(q, n, "ended")
    BY <1>0, <1>2, <1>4, <2>1, EndedIs DEF Stopped
  <2>. QED BY <1>2, <1>4, <2>2 DEF Begun, Stopped, Silent, q
<1>5. CASE ReadAs(t) \in {"soh", "stx"}
  <2>. DEFINE o == Opening(t)  b == <<o>>
  <2>1. q = [n EXCEPT !.buf = b]
    BY <1>5 DEF Begin, n
  <2>2. IsHead(t) /\ o \in Tokens /\ IsHead(o)
    BY <1>5, ReadAsIs
  <2>3. b \in Seq(Tokens) /\ b \in Seq(RawTokens) /\ b # <<>> /\ b[1] = o
    <3>1. o \in RawTokens
      BY <2>2 DEF Tokens
    <3>. HIDE DEF o
    <3>. QED BY <2>2, <3>1
  <2>4. n \in SessionType
    BY <1>2, <1>5
  <2>. HIDE DEF q, b
  <2>5. q \in SessionType
    BY <2>1, <2>3, <2>4 DEF SessionType, RawTokens
  <2>6. q.buf = b /\ Silent(q, n)
    BY <2>1, <2>4 DEF SessionType, Silent, Keeps
  <2>7. FieldsOK(q)
    BY <2>2, <2>3, <2>5, <2>6 DEF FieldsOK
  <2>8. Silent(q, r)
    BY <1>2, <1>5, <2>6 DEF Silent, Keeps
  <2>9. Begun(q, r, t)
    BY <2>2, <2>6, <2>8 DEF Begun, b
  <2>. QED BY <2>7, <2>9 DEF q
<1>. QED BY <1>0, <1>1, <1>3, <1>4, <1>5 DEF Reads, Controls

LEMMA ProcessedIs ==
  ASSUME NEW r, FieldsOK(r), r.buf # <<>>, NEW t \in Tokens, NEW packet, packet = Append(r.buf, t)
  PROVE  LET q == Processed([r EXCEPT !.buf = <<>>], packet) IN
           FieldsOK(q) /\ (Stopped(q, r, "ended") \/ Settled(q, r))
<1>. DEFINE c == [r EXCEPT !.buf = <<>>]
            q == Processed(c, packet)
            num == r.buf[1].num
<1>. SUFFICES FieldsOK(q) /\ (Stopped(q, r, "ended") \/ Settled(q, r))
  OBVIOUS
<1>1. r \in SessionType /\ r.buf \in Seq(Tokens) /\ Len(r.buf) \in Nat \ {0} /\ IsHead(r.buf[1])
      /\ r.buf[1] \in Tokens
  <2>1. Len(r.buf) # 0
    BY EmptySeq DEF FieldsOK
  <2>2. r.buf \in Seq(Tokens) /\ Len(r.buf) \in Nat \ {0}
    BY <2>1, LenProperties DEF FieldsOK
  <2>3. r.buf[1] \in Tokens
    BY <2>2, ElementOfSeq
  <2>. QED BY <2>2, <2>3 DEF FieldsOK
<1>2. packet[1] = r.buf[1]
  BY <1>1, AppendProperties
<1>3. c.state = r.state /\ c.path = r.path /\ c.outcome = r.outcome /\ c.expected = r.expected
      /\ c.written = r.written /\ c.reply = r.reply /\ c.buf = <<>> /\ c.stream = r.stream /\ c.retries = r.retries
  BY <1>1 DEF SessionType
<1>4. <<>> \in Seq(RawTokens) /\ <<>> \in Seq(Tokens) /\ Len(<<>>) = 0
  OBVIOUS
<1>5. FieldsOK(c)
  <2>1. c \in SessionType
    BY <1>1, <1>4 DEF SessionType, RawTokens
  <2>. HIDE DEF c
  <2>. QED BY <1>3, <1>4, <2>1 DEF FieldsOK
<1>6. r.buf[1].data \in 1 .. Blocks
  BY <1>1, ReceiveAssumption DEF Tokens, RawTokens
<1>. HIDE DEF c
<1>7. <<"can">> \in Seq(Replies) /\ "ack" \in Replies /\ c \in SessionType
  BY <1>5 DEF Replies, FieldsOK
<1>8. FieldsOK(Ended(c, "ended", <<"can">>)) /\ Stopped(Ended(c, "ended", <<"can">>), r, "ended")
  <2>1. "ended" \in {"complete", "ended"}
    OBVIOUS
  <2>. QED BY <1>3, <1>7, <2>1, EndedIs DEF Stopped
<1>13. q = Processed(c, packet)
  OBVIOUS
<1>. HIDE DEF q
<1>9. CASE ~Valid(packet)
  <2>1. q = Naked(c)
    BY <1>9 DEF Processed, q
  <2>2. FieldsOK(Naked(c))
    BY <1>5, NakedIs
  <2>3. CASE Naked(c) = Ended(c, "ended", <<"can">>)
    BY <1>8, <2>1, <2>3
  <2>4. CASE Naked(c) # Ended(c, "ended", <<"can">>)
    <3>1. Settled(Naked(c), r)
      BY <1>3, <1>5, <2>4, NakedIs DEF Settled, Keeps
    <3>. QED BY <2>1, <2>2, <3>1
  <2>. QED BY <2>3, <2>4
<1>10. CASE Valid(packet) /\ IsExpected(c, num)
  <2>. DEFINE w == Written(c, r.buf[1].data)  a == Answered(w, "ack")
              n == [a EXCEPT !.expected = @ + 1, !.retries = 0]
  <2>1. q = n
    BY <1>2, <1>10 DEF Processed, q
  <2>2. /\ w \in SessionType /\ w.state = c.state /\ w.path = c.path /\ w.buf = c.buf /\ w.outcome = c.outcome
        /\ w.expected = c.expected /\ w.reply = c.reply /\ (c.path => w.written = Append(c.written, r.buf[1].data))
    BY <1>6, <1>7, WrittenIs
  <2>. HIDE DEF w
  <2>3. /\ a \in SessionType /\ a.reply = Append(w.reply, "ack") /\ a.state = w.state /\ a.path = w.path
        /\ a.buf = w.buf /\ a.outcome = w.outcome /\ a.written = w.written /\ a.expected = w.expected
    BY <1>7, <2>2, AnsweredIs
  <2>. HIDE DEF a
  <2>4. /\ n.reply = a.reply /\ n.state = a.state /\ n.path = a.path /\ n.buf = a.buf
        /\ n.outcome = a.outcome /\ n.written = a.written /\ n.expected = a.expected + 1
    BY <2>3 DEF SessionType
  <2>5. n \in SessionType
    <3>1. a.expected + 1 \in Nat \ {0} /\ 0 \in 0 .. MaxRetries
      BY <2>3, LineAssumption DEF SessionType
    <3>. QED BY <2>3, <3>1 DEF SessionType
  <2>. HIDE DEF n
  <2>6. FieldsOK(n)
    BY <1>3, <1>4, <2>2, <2>3, <2>4, <2>5 DEF FieldsOK
  <2>7. Settled(n, r)
    <3>1. Keeps(n, r) /\ n.buf = <<>>
      BY <1>3, <2>2, <2>3, <2>4 DEF Keeps
    <3>2. Plain(r.buf[1]) /\ r.buf[1].form = "sound" /\ num = r.expected % BlockMod
      BY <1>2, <1>3, <1>10 DEF Valid, IsExpected
    <3>3. n.reply = Append(r.reply, "ack") /\ n.expected = r.expected + 1
          /\ (r.path => n.written = Append(r.written, r.buf[1].data))
      BY <1>3, <2>2, <2>3, <2>4
    <3>. QED BY <3>1, <3>2, <3>3 DEF Settled
  <2>. QED BY <2>1, <2>6, <2>7
<1>11. CASE Valid(packet) /\ ~IsExpected(c, num) /\ IsRepeated(c, num)
  <2>. DEFINE a == Answered(c, "ack")
  <2>1. q = a
    BY <1>2, <1>11 DEF Processed, q
  <2>2. /\ a \in SessionType /\ a.reply = Append(c.reply, "ack") /\ a.state = c.state /\ a.path = c.path
        /\ a.buf = c.buf /\ a.outcome = c.outcome /\ a.written = c.written /\ a.expected = c.expected
    BY <1>7, AnsweredIs
  <2>. HIDE DEF a
  <2>3. FieldsOK(a)
    BY <1>3, <1>4, <2>2 DEF FieldsOK
  <2>4. Settled(a, r)
    <3>1. Keeps(a, r) /\ a.buf = <<>>
      BY <1>3, <2>2 DEF Keeps
    <3>2. Plain(r.buf[1]) /\ r.buf[1].form = "sound" /\ num # r.expected % BlockMod /\ num = (r.expected - 1) % BlockMod
      BY <1>2, <1>3, <1>11 DEF Valid, IsExpected, IsRepeated
    <3>3. a.reply = Append(r.reply, "ack") /\ a.expected = r.expected /\ a.written = r.written
      BY <1>3, <2>2
    <3>. QED BY <3>1, <3>2, <3>3 DEF Settled
  <2>. QED BY <2>1, <2>3, <2>4
<1>12. CASE Valid(packet) /\ ~IsExpected(c, num) /\ ~IsRepeated(c, num)
  <2>1. q = Ended(c, "ended", <<"can">>)
    BY <1>2, <1>12 DEF Processed, q
  <2>. QED BY <1>8, <2>1
<1>. QED BY <1>9, <1>10, <1>11, <1>12

LEMMA TakeTokenIs ==
  ASSUME NEW r, FieldsOK(r), NEW t \in Tokens
  PROVE  FieldsOK(TakeToken(r, t)) /\ Taken(TakeToken(r, t), r, t)
<1>. DEFINE q == TakeToken(r, t)
<1>1. r \in SessionType /\ r.buf \in Seq(Tokens) /\ (r.buf = <<>> \/ Len(r.buf) \in Nat \ {0})
  <2>1. r.buf \in Seq(Tokens) /\ (r.buf = <<>> <=> Len(r.buf) = 0) /\ Len(r.buf) \in Nat
    BY EmptySeq, LenProperties DEF FieldsOK
  <2>. QED BY <2>1 DEF FieldsOK
<1>2. CASE r.state # "receiving"
  <2>1. q = r
    BY <1>2 DEF TakeToken
  <2>. QED BY <1>2, <2>1 DEF Taken
<1>3. CASE r.state = "receiving" /\ r.buf = <<>>
  <2>1. q = Begin(r, t)
    BY <1>3 DEF TakeToken
  <2>2. FieldsOK(q) /\ Begun(q, r, t)
    BY <1>3, <2>1, BeginIs
  <2>. QED BY <1>3, <2>2 DEF Taken
<1>4. CASE r.state = "receiving" /\ r.buf # <<>> /\ ~Fills(r.buf, t)
  <2>. DEFINE b == Kept(r.buf, t)
  <2>1. q = [r EXCEPT !.buf = b]
    BY <1>4 DEF TakeToken
  <2>2. CASE IsHead(t) \/ Plain(r.buf[1])
    <3>0. b = Append(r.buf, t)
      BY <2>2 DEF Kept
    <3>1. b \in Seq(Tokens) /\ b # <<>> /\ b[1] = r.buf[1]
      BY <1>1, <1>4, <3>0, AppendProperties
    <3>2. b \in Seq(RawTokens)
      <4>1. Tokens \subseteq RawTokens
        BY DEF Tokens
      <4>. QED BY <3>1, <4>1, SeqMonotonic
    <3>. HIDE DEF b, q
    <3>3. q \in SessionType
      BY <1>1, <2>1, <3>2 DEF SessionType, RawTokens
    <3>4. q.buf = b /\ Silent(q, r)
      BY <1>1, <2>1 DEF Silent, Keeps, SessionType
    <3>5. FieldsOK(q)
      BY <1>4, <3>1, <3>3, <3>4 DEF FieldsOK
    <3>6. Taken(q, r, t)
      BY <1>4, <2>2, <3>0, <3>4 DEF Taken
    <3>. QED BY <3>5, <3>6 DEF q
  <2>3. CASE ~(IsHead(t) \/ Plain(r.buf[1]))
    <3>1. b = r.buf
      BY <2>3 DEF Kept
    <3>2. [r EXCEPT !.buf = r.buf] = r
      BY <1>1 DEF SessionType
    <3>3. q = r
      BY <2>1, <3>1, <3>2
    <3>. QED BY <1>4, <2>3, <3>3 DEF Taken
  <2>. QED BY <2>2, <2>3
<1>5. CASE r.state = "receiving" /\ r.buf # <<>> /\ Fills(r.buf, t)
  <2>. DEFINE p == Processed([r EXCEPT !.buf = <<>>], Append(r.buf, t))
  <2>1. FieldsOK(p) /\ (Stopped(p, r, "ended") \/ Settled(p, r))
    BY <1>5, ProcessedIs
  <2>2. q = IF IsHead(t) /\ p.state = "receiving" THEN Begin(p, Rest(t)) ELSE p
    BY <1>5 DEF TakeToken
  <2>3. IsHead(t) \/ Plain(r.buf[1])
    BY <1>5 DEF Fills
  <2>. HIDE DEF p, q
  <2>4. CASE Stopped(p, r, "ended")
    <3>1. q = p
      BY <2>2, <2>4 DEF Stopped
    <3>. QED BY <1>5, <2>1, <2>3, <2>4, <3>1 DEF Taken, Filled, q
  <2>5. CASE Settled(p, r) /\ ~IsHead(t)
    <3>1. q = p
      BY <2>2, <2>5
    <3>. QED BY <1>5, <2>1, <2>3, <2>5, <3>1 DEF Taken, Filled, q
  <2>6. CASE Settled(p, r) /\ IsHead(t)
    <3>1. q = Begin(p, Rest(t)) /\ p.buf = <<>>
      BY <1>5, <2>2, <2>6 DEF Settled, Keeps
    <3>2. FieldsOK(q) /\ Begun(q, p, Rest(t))
      BY <2>1, <2>6, <3>1, BeginIs, RestIsToken
    <3>. QED BY <1>5, <2>1, <2>3, <2>6, <3>2 DEF Taken, Filled, q
  <2>. QED BY <2>1, <2>4, <2>5, <2>6
<1>. QED BY <1>2, <1>3, <1>4, <1>5

-----------------------------------------------------------------------------
(* A receive: the tokens of one read.                                      *)

Sessions == {r \in SessionType : FieldsOK(r)}

\* The fields after each of the first n tokens.
Runs(f, r, tokens, n) ==
  f[0] = r /\ \A i \in 1 .. n : f[i] = TakeToken(f[i - 1], tokens[i])

LEMMA RunExists ==
  ASSUME NEW r \in Sessions, NEW tokens \in Seq(Tokens)
  PROVE  \E f \in [0 .. Len(tokens) -> Sessions] : Runs(f, r, tokens, Len(tokens))
<1>. DEFINE Has(n) == \E f \in [0 .. n -> Sessions] : Runs(f, r, tokens, n)
            not == {n \in 0 .. Len(tokens) : ~Has(n)}
<1>1. ASSUME not # {} PROVE FALSE
  <2>0. not \subseteq Nat
    OBVIOUS
  <2>1. PICK m \in not : \A n \in not : m <= n
    <3>. HIDE DEF not
    <3>. QED BY <1>1, <2>0, LeastOne
  <2>2. m # 0
    <3>. DEFINE z == [i \in 0 .. 0 |-> r]
    <3>1. z \in [0 .. 0 -> Sessions] /\ z[0] = r
      OBVIOUS
    <3>2. 1 .. 0 = {}
      OBVIOUS
    <3>. HIDE DEF z
    <3>3. Has(0)
      BY <3>1, <3>2, Zenon DEF Runs
    <3>. QED BY <3>3
  <2>3. m \in 1 .. Len(tokens) /\ m - 1 \in 0 .. Len(tokens)
    BY <2>2
  <2>4. Has(m - 1)
    <3>. HIDE DEF Has
    <3>. QED BY <2>1, <2>3
  <2>5. PICK g \in [0 .. m - 1 -> Sessions] : Runs(g, r, tokens, m - 1)
    BY <2>4
  <2>. DEFINE last == TakeToken(g[m - 1], tokens[m])
              h == [i \in 0 .. m |-> IF i = m THEN last ELSE g[i]]
  <2>6. last \in Sessions
    <3>1. FieldsOK(g[m - 1]) /\ tokens[m] \in Tokens
      <4>1. g[m - 1] \in Sessions
        BY <2>3
      <4>2. tokens[m] \in Tokens
        BY <2>3, ElementOfSeq
      <4>. QED BY <4>1, <4>2 DEF Sessions
    <3>2. FieldsOK(last)
      BY <3>1, TakeTokenIs
    <3>. HIDE DEF last
    <3>. QED BY <3>2 DEF Sessions, FieldsOK
  <2>7. h \in [0 .. m -> Sessions] /\ h[0] = r
    <3>. HIDE DEF last
    <3>0. m \in Nat
      BY <2>1
    <3>1. ASSUME NEW i \in 0 .. m, i # m PROVE i \in 0 .. m - 1
      BY <3>0, <3>1
    <3>2. g \in [0 .. m - 1 -> Sessions]
      BY <2>5
    <3>3. ASSUME NEW i \in 0 .. m PROVE h[i] \in Sessions
      <4>1. CASE i = m
        BY <2>6, <4>1
      <4>2. CASE i # m
        <5>1. g[i] \in Sessions
          BY <3>1, <3>2, <4>2
        <5>. QED BY <4>2, <5>1
      <4>. QED BY <4>1, <4>2
    <3>4. 0 \in 0 .. m /\ 0 # m /\ g[0] = r
      BY <2>3, <2>5 DEF Runs
    <3>. QED BY <3>3, <3>4
  <2>8. \A i \in 1 .. m : h[i] = TakeToken(h[i - 1], tokens[i])
    <3>1. h[m] = last /\ h[m - 1] = g[m - 1]
      BY <2>3
    <3>2. \A i \in 1 .. m - 1 : h[i] = g[i] /\ h[i - 1] = g[i - 1]
      BY <2>3
    <3>. HIDE DEF h
    <3>3. ASSUME NEW i \in 1 .. m - 1 PROVE h[i] = TakeToken(h[i - 1], tokens[i])
      BY <2>5, <3>2 DEF Runs
    <3>4. h[m] = TakeToken(h[m - 1], tokens[m])
      BY <3>1
    <3>5. 1 .. m = (1 .. m - 1) \cup {m}
      BY <2>3
    <3>. QED BY <3>3, <3>4, <3>5
  <2>9. Has(m)
    <3>. HIDE DEF h
    <3>. QED BY <2>7, <2>8 DEF Runs
  <2>. QED BY <2>9
<1>2. Has(Len(tokens))
  BY <1>1
<1>. QED BY <1>2

\* handleReceiveData takes the tokens one by one.
LEMMA HandleReceiveDataIs ==
  ASSUME NEW r \in Sessions, NEW tokens \in Seq(Tokens)
  PROVE  \E f : Runs(f, r, tokens, Len(tokens)) /\ HandleReceiveData(r, tokens) = f[Len(tokens)]
<1>. DEFINE f == CHOOSE f : f = [k \in 0 .. Len(tokens) |->
                                   IF k = 0 THEN r ELSE TakeToken(f[k - 1], tokens[k])]
<1>1. PICK h \in [0 .. Len(tokens) -> Sessions] : Runs(h, r, tokens, Len(tokens))
  BY RunExists
<1>2. h = [k \in 0 .. Len(tokens) |-> IF k = 0 THEN r ELSE TakeToken(h[k - 1], tokens[k])]
  <2>1. 0 .. Len(tokens) = {0} \cup 1 .. Len(tokens) /\ 0 \notin 1 .. Len(tokens)
    OBVIOUS
  <2>2. \A k \in 0 .. Len(tokens) : h[k] = IF k = 0 THEN r ELSE TakeToken(h[k - 1], tokens[k])
    BY <1>1, <2>1 DEF Runs
  <2>. QED BY <1>1, <2>2
<1>3. f = [k \in 0 .. Len(tokens) |-> IF k = 0 THEN r ELSE TakeToken(f[k - 1], tokens[k])]
  BY <1>2, Zenon
<1>4. HandleReceiveData(r, tokens) = f[Len(tokens)]
  BY DEF HandleReceiveData
<1>. HIDE DEF f
<1>5. Runs(f, r, tokens, Len(tokens))
  <2>1. f[0] = r
    BY <1>3
  <2>2. ASSUME NEW i \in 1 .. Len(tokens) PROVE f[i] = TakeToken(f[i - 1], tokens[i])
    <3>1. i \in 0 .. Len(tokens) /\ i # 0
      OBVIOUS
    <3>. QED BY <1>3, <3>1
  <2>. QED BY <2>1, <2>2 DEF Runs
<1>. QED BY <1>4, <1>5

\* Every token leaves fields of the right types.
LEMMA RunTypes ==
  ASSUME NEW r \in Sessions, NEW tokens \in Seq(Tokens), NEW f, Runs(f, r, tokens, Len(tokens))
  PROVE  \A k \in 0 .. Len(tokens) : FieldsOK(f[k])
<1>. DEFINE not == {k \in 0 .. Len(tokens) : ~FieldsOK(f[k])}
<1>1. ASSUME not # {} PROVE FALSE
  <2>0. not \subseteq Nat
    OBVIOUS
  <2>1. PICK m \in not : \A n \in not : m <= n
    <3>. HIDE DEF not
    <3>. QED BY <1>1, <2>0, LeastOne
  <2>2. m # 0
    BY DEF Runs, Sessions
  <2>3. m \in 1 .. Len(tokens) /\ m - 1 \in 0 .. Len(tokens)
    BY <2>2
  <2>4. FieldsOK(f[m - 1])
    BY <2>1, <2>3
  <2>5. tokens[m] \in Tokens /\ f[m] = TakeToken(f[m - 1], tokens[m])
    BY <2>3, ElementOfSeq DEF Runs
  <2>. QED BY <2>1, <2>4, <2>5, TakeTokenIs
<1>. QED BY <1>1

-----------------------------------------------------------------------------
(* A receive: types.                                                       *)

Words == {"ack", "nak", "can", "junk"}

ReceiveTypes ==
  /\ FieldsOK(session) /\ session.reply = <<>>
  /\ started \in BOOLEAN /\ BudgetOK
  /\ toHost \in Seq(Tokens) /\ toRemote \in Seq(Words)
  /\ next \in 1 .. Blocks + 1 /\ (sender = "sending" => next <= Blocks)
  /\ sender \in {"ready", "sending", "eot", "done", "cancelled", "dead"}

\* What the session takes of n tokens: all, or those from the first head on.
From(tokens, at) == SubSeq(tokens, at, Len(tokens))

LEMMA OpenedIs ==
  ASSUME NEW r, FieldsOK(r)
  PROVE  /\ Opened(r) \in Sessions /\ Opened(r).state = "receiving" /\ Opened(r).buf = <<>>
         /\ Opened(r).path = r.path /\ Opened(r).expected = r.expected /\ Opened(r).written = r.written
         /\ Opened(r).outcome = r.outcome /\ Opened(r).reply = r.reply /\ Opened(r).stray = r.stray
<1>. DEFINE q == Opened(r)
<1>1. <<>> \in Seq(RawTokens) /\ <<>> \in Seq(Tokens) /\ Len(<<>>) = 0 /\ r \in SessionType
  BY DEF FieldsOK
<1>2. q \in SessionType
  BY <1>1 DEF Opened, SessionType, RawTokens
<1>3. /\ q.state = "receiving" /\ q.buf = <<>> /\ q.path = r.path /\ q.expected = r.expected
      /\ q.written = r.written /\ q.outcome = r.outcome /\ q.reply = r.reply /\ q.stray = r.stray
  BY <1>1 DEF Opened, SessionType
<1>. HIDE DEF q
<1>4. FieldsOK(q)
  BY <1>1, <1>2, <1>3 DEF FieldsOK
<1>5. q \in Sessions
  BY <1>2, <1>4 DEF Sessions
<1>. QED BY <1>3, <1>5 DEF q

\* The token that a waiting session wakes at.
LEMMA WokenIs ==
  ASSUME NEW t \in Tokens, Wakes(t)
  PROVE  IsHead(t) /\ Woken(t) \in Tokens /\ Woken(t) \in {t, Rest(t)}
<1>1. IsHead(t)
  BY DEF Wakes, Tokens
<1>. QED BY <1>1, RestIsToken DEF Woken

\* A session that wakes at t.
Woke(r, t) == Begin(Opened(r), Woken(t))

LEMMA WokeIs ==
  ASSUME NEW r, FieldsOK(r), NEW t \in Tokens, Wakes(t)
  PROVE  Woke(r, t) \in Sessions /\ Begun(Woke(r, t), Opened(r), Woken(t))
<1>1. FieldsOK(Opened(r)) /\ Opened(r).buf = <<>> /\ Woken(t) \in Tokens
  BY OpenedIs, WokenIs DEF Sessions
<1>2. FieldsOK(Woke(r, t)) /\ Begun(Woke(r, t), Opened(r), Woken(t))
  BY <1>1, BeginIs DEF Woke
<1>. QED BY <1>2 DEF Sessions, FieldsOK

LEMMA HandleDataIs ==
  ASSUME NEW r, FieldsOK(r), NEW tokens \in Seq(Tokens)
  PROVE  \/ HandleData(r, tokens) = r
         \/ \E f : /\ r.state = "receiving" /\ HandleData(r, tokens) = f[Len(tokens)]
                   /\ Runs(f, r, tokens, Len(tokens))
         \/ \E f : \E at \in 1 .. Len(tokens) :
              /\ r.state = "waiting" /\ Wakes(tokens[at]) /\ From(tokens, at + 1) \in Seq(Tokens)
              /\ HandleData(r, tokens) = f[Len(From(tokens, at + 1))]
              /\ Runs(f, Woke(r, tokens[at]), From(tokens, at + 1), Len(From(tokens, at + 1)))
<1>1. r \in Sessions /\ r.state \in {"idle", "waiting", "receiving"}
  BY DEF Sessions, FieldsOK, SessionType
<1>2. CASE r.state = "idle"
  BY <1>2 DEF HandleData
<1>3. CASE r.state = "receiving"
  <2>1. HandleData(r, tokens) = HandleReceiveData(r, tokens)
    BY <1>3 DEF HandleData
  <2>. QED BY <1>1, <1>3, <2>1, HandleReceiveDataIs
<1>4. CASE r.state = "waiting"
  <2>. DEFINE heads == {k \in DOMAIN tokens : Wakes(tokens[k])}  at == Earliest(heads)
  <2>1. HandleData(r, tokens) = HandleReceiveWait(r, tokens)
    BY <1>4 DEF HandleData
  <2>2. CASE at = 0
    BY <2>1, <2>2 DEF HandleReceiveWait
  <2>3. CASE at # 0
    <3>1. HandleData(r, tokens) = HandleReceiveData(Woke(r, tokens[at]), From(tokens, at + 1))
      BY <2>1, <2>3 DEF HandleReceiveWait, Woke, From
    <3>2. heads # {} /\ heads \subseteq Nat /\ heads \subseteq 1 .. Len(tokens)
      BY <2>3, LenProperties DEF Earliest
    <3>3. at \in heads
      <4>. HIDE DEF heads
      <4>1. \E k \in heads : \A j \in heads : k <= j
        BY <3>2, LeastOne
      <4>. QED BY <2>3, <3>2, <4>1 DEF Earliest
    <3>4. at \in 1 .. Len(tokens) /\ Wakes(tokens[at]) /\ tokens[at] \in Tokens
      BY <3>2, <3>3, ElementOfSeq
    <3>. HIDE DEF at
    <3>5. From(tokens, at + 1) \in Seq(Tokens)
      <4>1. \A i \in at + 1 .. Len(tokens) : tokens[i] \in Tokens
        BY <3>4, ElementOfSeq
      <4>2. at + 1 \in Nat \ {0} /\ Len(tokens) \in Nat
        BY <3>4, LenProperties
      <4>. QED BY <4>1, <4>2, SubSeqProperties, LenProperties DEF From
    <3>6. \E f : Runs(f, Woke(r, tokens[at]), From(tokens, at + 1), Len(From(tokens, at + 1)))
               /\ HandleReceiveData(Woke(r, tokens[at]), From(tokens, at + 1)) = f[Len(From(tokens, at + 1))]
      BY <3>4, <3>5, WokeIs, HandleReceiveDataIs
    <3>. QED BY <1>4, <3>1, <3>4, <3>5, <3>6
  <2>. QED BY <2>2, <2>3
<1>. QED BY <1>1, <1>2, <1>3, <1>4

LEMMA RunEnds ==
  ASSUME NEW r \in Sessions, NEW tokens \in Seq(Tokens), NEW f, Runs(f, r, tokens, Len(tokens))
  PROVE  FieldsOK(f[Len(tokens)])
<1>1. Len(tokens) \in 0 .. Len(tokens)
  BY LenProperties
<1>. QED BY <1>1, RunTypes

LEMMA HandleDataOK ==
  ASSUME NEW r, FieldsOK(r), NEW tokens \in Seq(Tokens)
  PROVE  FieldsOK(HandleData(r, tokens))
<1>1. r \in Sessions
  BY DEF Sessions, FieldsOK
<1>2. ASSUME NEW at \in 1 .. Len(tokens), Wakes(tokens[at]) PROVE Woke(r, tokens[at]) \in Sessions
  BY <1>2, ElementOfSeq, WokeIs
<1>. QED BY <1>1, <1>2, HandleDataIs, RunEnds

\* The session's replies go to the line.
LEMMA BecomeIs ==
  ASSUME NEW r, FieldsOK(r), Become(r), toRemote \in Seq(Words)
  PROVE  /\ FieldsOK(session') /\ session'.reply = <<>>
         /\ toRemote' = toRemote \o r.reply /\ toRemote' \in Seq(Words)
         /\ session'.state = r.state /\ session'.path = r.path /\ session'.expected = r.expected
         /\ session'.buf = r.buf /\ session'.written = r.written /\ session'.outcome = r.outcome
         /\ session'.stray = r.stray
<1>. DEFINE q == [r EXCEPT !.reply = <<>>]
<1>1. r \in SessionType /\ r.reply \in Seq(Words) /\ <<>> \in Seq({"ack", "nak", "can"})
  <2>1. r \in SessionType /\ r.reply \in Seq({"ack", "nak", "can"})
    BY TypesOfFields DEF FieldsOK
  <2>2. {"ack", "nak", "can"} \subseteq Words
    BY DEF Words
  <2>. QED BY <2>1, <2>2, SeqMonotonic
<1>2. q \in SessionType
  BY <1>1 DEF SessionType
<1>3. /\ q.state = r.state /\ q.path = r.path /\ q.expected = r.expected /\ q.reply = <<>>
      /\ q.buf = r.buf /\ q.written = r.written /\ q.outcome = r.outcome /\ q.stray = r.stray
  BY <1>1 DEF SessionType
<1>. HIDE DEF q
<1>4. FieldsOK(q)
  BY <1>2, <1>3 DEF FieldsOK
<1>5. session' = q /\ toRemote' = toRemote \o r.reply
  BY DEF Become, q
<1>6. toRemote' \in Seq(Words)
  BY <1>1, <1>5, ConcatProperties
<1>. QED BY <1>3, <1>4, <1>5, <1>6

LEMMA TokensOK ==
  /\ TailByte \in Tokens /\ ~Lead(TailByte) /\ EotByte \in Tokens /\ EndsFile(EotByte) /\ ~IsHead(EotByte)
  /\ \A c \in {"none", "eot", "can"} :
       Byte("byte", c, "damaged") \in Tokens /\ ~Lead(Byte("byte", c, "damaged"))
  /\ \A b \in 1 .. Blocks : /\ HeadOf(b) \in Tokens /\ IsHead(HeadOf(b)) /\ HeadOf(b).data = b
                            /\ HeadOf(b).num = b % BlockMod
<1>1. 0 \in 0 .. BlockMod - 1 /\ 0 \in 0 .. Blocks /\ Reads = {"none", "soh", "stx", "eot", "can"}
  BY LineAssumption, ReceiveAssumption DEF Reads, Controls
<1>2. TailByte \in Tokens /\ ~Lead(TailByte)
  BY <1>1 DEF TailByte, Byte, Tokens, RawTokens, IsHead, Lead, EndsFile
<1>3. EotByte \in Tokens /\ EndsFile(EotByte) /\ ~IsHead(EotByte)
  BY <1>1 DEF EotByte, Byte, Tokens, RawTokens, IsHead, EndsFile
<1>4. ASSUME NEW c \in {"none", "eot", "can"}
      PROVE  Byte("byte", c, "damaged") \in Tokens /\ ~Lead(Byte("byte", c, "damaged"))
  BY <1>1 DEF Byte, Tokens, RawTokens, IsHead, Lead, EndsFile
<1>5. ASSUME NEW b \in 1 .. Blocks
      PROVE  HeadOf(b) \in Tokens /\ IsHead(HeadOf(b)) /\ HeadOf(b).data = b /\ HeadOf(b).num = b % BlockMod
  <2>1. b % BlockMod \in 0 .. BlockMod - 1 /\ b \in 0 .. Blocks /\ b > 0
    BY <1>5, LineAssumption, ReceiveAssumption
  <2>. QED BY <1>1, <2>1 DEF HeadOf, Tokens, RawTokens, IsHead
<1>. QED BY <1>2, <1>3, <1>4, <1>5

\* A damaged token opens nothing that it did not open before.
LEMMA DamagedIs ==
  ASSUME NEW t \in Tokens, NEW u \in Damaged(t)
  PROVE  /\ u \in Tokens /\ (Lead(u) => Lead(t))
         /\ IsHead(u) => IsHead(t) /\ u.data = t.data /\ u.num = t.num /\ (u.form = "sound" => t.form = "sound")
         /\ ~EndsFile(u)
<1>1. CASE IsHead(t)
  <2>1. t \in RawTokens /\ t.data > 0
    BY <1>1 DEF Tokens
  <2>2. ASSUME NEW c \in Reads, u = [t EXCEPT !.first = c]
        PROVE  /\ u \in RawTokens /\ u.kind = t.kind /\ u.data = t.data /\ u.num = t.num /\ u.form = t.form
    BY <2>1, <2>2 DEF RawTokens
  <2>3. ASSUME u = [t EXCEPT !.form = "damaged"]
        PROVE  /\ u \in RawTokens /\ u.kind = t.kind /\ u.data = t.data /\ u.num = t.num /\ u.form = "damaged"
    BY <2>1, <2>3 DEF RawTokens
  <2>4. /\ u \in RawTokens /\ u.kind = t.kind /\ u.data = t.data /\ u.num = t.num
        /\ (u.form = "sound" => t.form = "sound")
    BY <1>1, <2>2, <2>3 DEF Damaged
  <2>. QED BY <1>1, <2>1, <2>4 DEF Tokens, IsHead, Lead, EndsFile
<1>2. CASE ~IsHead(t)
  <2>1. PICK c \in {"none", "eot", "can"} : u = Byte("byte", c, "damaged")
    BY <1>2 DEF Damaged
  <2>2. u \in Tokens /\ ~Lead(u)
    BY <2>1, TokensOK
  <2>. QED BY <2>2 DEF Lead
<1>. QED BY <1>1, <1>2

\* A head without its SOH or a part of its data.
LEMMA PartIs ==
  ASSUME NEW t \in Tokens, IsHead(t),
         NEW u, u \in {[t EXCEPT !.first = "none"], [t EXCEPT !.form = "short"]}
  PROVE  /\ u \in Tokens /\ IsHead(u) /\ u.data = t.data /\ u.num = t.num
         /\ (u.form = "sound" => t.form = "sound")
<1>1. t \in RawTokens /\ t.data > 0 /\ "none" \in Reads
  BY DEF Tokens, Reads
<1>2. CASE u = [t EXCEPT !.first = "none"]
  <2>1. u \in RawTokens /\ u.kind = t.kind /\ u.data = t.data /\ u.num = t.num /\ u.form = t.form
    BY <1>1, <1>2 DEF RawTokens
  <2>. QED BY <1>1, <2>1 DEF Tokens, IsHead
<1>3. CASE u = [t EXCEPT !.form = "short"]
  <2>1. u \in RawTokens /\ u.kind = t.kind /\ u.data = t.data /\ u.num = t.num /\ u.form = "short"
    BY <1>1, <1>3 DEF RawTokens
  <2>. QED BY <1>1, <2>1 DEF Tokens, IsHead
<1>. QED BY <1>2, <1>3

\* The packet of a block: its head, then tails.
LEMMA PacketIs ==
  ASSUME NEW b \in 1 .. Blocks
  PROVE  /\ PacketOf(b) \in Seq(Tokens) /\ Len(PacketOf(b)) \in 2 .. 3 /\ PacketOf(b)[1] = HeadOf(b)
         /\ \A k \in 2 .. Len(PacketOf(b)) : PacketOf(b)[k] = TailByte
<1>. DEFINE t == TailByte  h == HeadOf(b)
<1>1. t \in Tokens /\ h \in Tokens
  BY TokensOK
<1>2. PacketOf(b) = <<h, t>> \o (IF AlwaysCrc THEN <<t>> ELSE <<>>)
  BY DEF PacketOf
<1>. HIDE DEF t, h
<1>3. CASE AlwaysCrc
  <2>1. <<h, t>> \in Seq(Tokens) /\ <<t>> \in Seq(Tokens) /\ Len(<<h, t>>) = 2 /\ Len(<<t>>) = 1
        /\ <<h, t>>[1] = h /\ <<h, t>>[2] = t /\ <<t>>[1] = t
    BY <1>1
  <2>. DEFINE p == <<h, t>>  q == <<t>>
  <2>2. PacketOf(b) = p \o q
    BY <1>2, <1>3
  <2>. HIDE DEF p, q
  <2>3. p \o q \in Seq(Tokens) /\ Len(p \o q) = 3
        /\ \A k \in 1 .. 3 : (p \o q)[k] = IF k <= 2 THEN p[k] ELSE q[k - 2]
    BY <2>1, ConcatProperties DEF p, q
  <2>4. (p \o q)[1] = h /\ (p \o q)[2] = t /\ (p \o q)[3] = t
    BY <2>1, <2>3 DEF p, q
  <2>5. \A k \in 2 .. 3 : k = 2 \/ k = 3
    OBVIOUS
  <2>. QED BY <2>2, <2>3, <2>4, <2>5 DEF t, h
<1>4. CASE ~AlwaysCrc
  <2>1. PacketOf(b) = <<h, t>>
    BY <1>2, <1>4
  <2>. QED BY <1>1, <2>1 DEF t, h
<1>. QED BY <1>3, <1>4

\* The sender's next words.
LEMMA SendBlockOK ==
  ASSUME ReceiveTypes, NEW b \in 1 .. Blocks + 1, SendBlock(b)
  PROVE  /\ toHost' \in Seq(Tokens) /\ next' \in 1 .. Blocks + 1
         /\ sender' \in {"sending", "eot"} /\ (sender' = "sending" => next' <= Blocks)
<1>1. Blocks \in Nat \ {0} /\ toHost \in Seq(Tokens)
  BY ReceiveAssumption DEF ReceiveTypes
<1>2. CASE b <= Blocks
  <2>1. PacketOf(b) \in Seq(Tokens)
    BY <1>1, <1>2, PacketIs
  <2>2. toHost' \in Seq(Tokens)
    BY <1>1, <1>2, <2>1, ConcatProperties DEF SendBlock
  <2>. QED BY <1>2, <2>2 DEF SendBlock
<1>3. CASE ~(b <= Blocks)
  <2>1. <<EotByte>> \in Seq(Tokens)
    <3>1. EotByte \in Tokens
      BY TokensOK
    <3>. QED BY <3>1
  <2>2. toHost' \in Seq(Tokens)
    BY <1>1, <1>3, <2>1, ConcatProperties DEF SendBlock
  <2>. QED BY <1>3, <2>2 DEF SendBlock
<1>. QED BY <1>2, <1>3

\* Starting, and giving the path with nothing buffered.
LEMMA RestartOK ==
  ASSUME NEW r, FieldsOK(r)
  PROVE  /\ FieldsOK([r EXCEPT !.state = "waiting", !.expected = 1, !.buf = <<>>, !.retries = 0])
         /\ FieldsOK([r EXCEPT !.path = TRUE]) /\ FieldsOK([[r EXCEPT !.path = TRUE] EXCEPT !.state = "waiting"])
<1>1. /\ <<>> \in Seq(RawTokens) /\ <<>> \in Seq(Tokens) /\ Len(<<>>) = 0 /\ r \in SessionType
      /\ 0 \in 0 .. MaxRetries
  BY LineAssumption DEF FieldsOK
<1>2. ASSUME NEW s, FieldsOK(s) PROVE FieldsOK([s EXCEPT !.path = TRUE]) /\ FieldsOK([s EXCEPT !.state = "waiting"])
  <2>1. s \in SessionType
    BY <1>2 DEF FieldsOK
  <2>2. [s EXCEPT !.path = TRUE] \in SessionType /\ [s EXCEPT !.path = TRUE].buf = s.buf
    BY <2>1 DEF SessionType
  <2>3. [s EXCEPT !.state = "waiting"] \in SessionType /\ [s EXCEPT !.state = "waiting"].buf = s.buf
    BY <2>1 DEF SessionType
  <2>. QED BY <1>2, <2>2, <2>3 DEF FieldsOK
<1>4. FieldsOK([r EXCEPT !.state = "waiting", !.expected = 1, !.buf = <<>>, !.retries = 0])
  <2>. DEFINE q == [r EXCEPT !.state = "waiting", !.expected = 1, !.buf = <<>>, !.retries = 0]
  <2>1. q.buf = <<>>
    BY <1>1 DEF SessionType
  <2>. DEFINE A == {"idle", "waiting", "receiving"}
              C == Nat \ {0}
              D == 0 .. MaxRetries
              E == Seq([kind : {"head", "tail", "byte"}, first : Reads,
                        form : {"sound", "damaged", "short"},
                        num : 0 .. BlockMod - 1, data : 0 .. Blocks])
              F == Seq(1 .. Blocks)
              G == {"none", "complete", "ended"}
              H == Seq({"ack", "nak", "can"})
              J == SUBSET Controls
              Type == [state : A, path : BOOLEAN, stream : BOOLEAN, expected : C, retries : D,
                       buf : E, written : F, outcome : G, reply : H, stray : J]
  <2>2. "waiting" \in A /\ 1 \in C /\ 0 \in D /\ <<>> \in E
    BY <1>1
  <2>3. SessionType = Type
    BY DEF SessionType
  <2>. HIDE DEF A, C, D, E, F, G, H, J
  <2>4. r \in Type
    BY <1>1, <2>3
  <2>5. q \in Type
    BY <2>2, <2>4
  <2>. HIDE DEF Type, q
  <2>6. FieldsOK(q)
    BY <1>1, <2>1, <2>3, <2>5 DEF FieldsOK
  <2>. QED BY <2>6 DEF q
<1>. QED BY <1>2, <1>4

LEMMA TimedOutIs ==
  ASSUME NEW r, FieldsOK(r)
  PROVE  /\ FieldsOK(TimedOut(r))
         /\ \/ \E answer \in Seq(Replies) : TimedOut(r) = Ended(r, "ended", answer)
            \/ TimedOut(r) = Naked(r) /\ Naked(r).reply = Append(r.reply, "nak") /\ Naked(r).state = r.state
               /\ Naked(r).path = r.path /\ Naked(r).buf = r.buf /\ Naked(r).outcome = r.outcome
               /\ Naked(r).written = r.written /\ Naked(r).expected = r.expected
<1>1. <<>> \in Seq(Replies) /\ <<"can">> \in Seq(Replies) /\ r \in SessionType
  BY DEF Replies, FieldsOK
<1>2. CASE r.state = "waiting" /\ TooMany(r.retries + 1)
  <2>1. TimedOut(r) = Ended(r, "ended", <<>>)
    BY <1>2 DEF TimedOut
  <2>. QED BY <1>1, <2>1, EndedIs
<1>3. CASE ~(r.state = "waiting" /\ TooMany(r.retries + 1))
  <2>1. TimedOut(r) = Naked(r)
    BY <1>3 DEF TimedOut
  <2>. QED BY <1>1, <2>1, NakedIs
<1>. QED BY <1>2, <1>3

LEMMA ReceiveTypesStep ==
  ASSUME ReceiveTypes, [ReceiveNext]_receiveVars
  PROVE  ReceiveTypes' /\ budget'.faults = budget.faults
<1>0. /\ FieldsOK(session) /\ BudgetOK /\ toHost \in Seq(Tokens) /\ toRemote \in Seq(Words)
      /\ Blocks \in Nat \ {0} /\ next \in 1 .. Blocks + 1 /\ session \in SessionType
  BY ReceiveAssumption DEF ReceiveTypes, FieldsOK
<1>. DEFINE Hosted == FieldsOK(session') /\ session'.reply = <<>> /\ toRemote' \in Seq(Words)
            Other == UNCHANGED <<toHost, sender, next>>
<1>1. ASSUME NEW r, FieldsOK(r), Become(r) PROVE Hosted
  BY <1>0, <1>1, BecomeIs
<1>2. CASE UNCHANGED receiveVars
  BY <1>2 DEF receiveVars, ReceiveTypes, BudgetOK
<1>3. CASE StartReceive
  <2>1. Hosted
    BY <1>0, <1>1, <1>3, RestartOK DEF StartReceive
  <2>2. Other /\ UNCHANGED budget /\ started' \in BOOLEAN
    BY <1>3 DEF StartReceive
  <2>. QED BY <1>0, <2>1, <2>2 DEF ReceiveTypes, BudgetOK
<1>4. CASE SetSavePath
  <2>. DEFINE r == [session EXCEPT !.path = TRUE]
              h == HandleReceiveData(Opened(r), r.buf)
              w == [r EXCEPT !.state = "waiting"]
  <2>1. FieldsOK(w) /\ FieldsOK(r)
    BY <1>0, RestartOK
  <2>2. FieldsOK(h)
    <3>. HIDE DEF r
    <3>1. Opened(r) \in Sessions /\ r.buf \in Seq(Tokens)
      BY <2>1, OpenedIs DEF FieldsOK
    <3>2. FieldsOK(HandleReceiveData(Opened(r), r.buf))
      BY <3>1, HandleReceiveDataIs, RunEnds
    <3>. QED BY <3>2
  <2>3. Become(IF r.buf # <<>> THEN h ELSE w)
    BY <1>4 DEF SetSavePath
  <2>4. UNCHANGED <<started, toHost, sender, next, budget>>
    BY <1>4 DEF SetSavePath
  <2>. HIDE DEF h, w, r
  <2>5. Hosted
    BY <1>1, <2>1, <2>2, <2>3
  <2>. QED BY <1>0, <2>4, <2>5 DEF ReceiveTypes, BudgetOK
<1>5. CASE HostReadsTokens
  <2>1. PICK n \in DOMAIN toHost : /\ Become(HandleData(session, SubSeq(toHost, 1, n)))
                                   /\ toHost' = SubSeq(toHost, n + 1, Len(toHost))
    BY <1>5 DEF HostReadsTokens
  <2>2. SubSeq(toHost, 1, n) \in Seq(Tokens) /\ toHost' \in Seq(Tokens)
    BY <1>0, <2>1, ReadOK
  <2>3. Hosted
    BY <1>0, <1>1, <2>1, <2>2, HandleDataOK
  <2>4. UNCHANGED <<started, sender, next, budget>>
    BY <1>5 DEF HostReadsTokens
  <2>. QED BY <1>0, <2>2, <2>3, <2>4 DEF ReceiveTypes, BudgetOK
<1>6. CASE Timeout
  <2>1. Hosted
    BY <1>0, <1>1, <1>6, TimedOutIs DEF Timeout
  <2>2. BudgetOK' /\ budget'.faults = budget.faults
    BY <1>0, <1>6, FaultOK DEF Timeout, BudgetOK
  <2>3. UNCHANGED <<started, toHost, sender, next>>
    BY <1>6 DEF Timeout
  <2>. QED BY <1>0, <2>1, <2>2, <2>3 DEF ReceiveTypes
<1>7. CASE CancelReceive \/ DestroyReceive
  <2>0. <<>> \in Seq(Replies) /\ <<"can">> \in Seq(Replies)
    BY DEF Replies
  <2>1. Hosted
    BY <1>0, <1>1, <1>7, <2>0, EndedIs DEF CancelReceive, DestroyReceive
  <2>2. BudgetOK' /\ budget'.faults = budget.faults
    BY <1>0, <1>7, FaultOK DEF CancelReceive, DestroyReceive
  <2>3. UNCHANGED <<started, toHost, next>> /\ sender' \in {sender, "dead"}
    BY <1>7 DEF CancelReceive, DestroyReceive
  <2>. QED BY <1>0, <2>1, <2>2, <2>3 DEF ReceiveTypes
<1>8. CASE SenderReads
  <2>1. toRemote' \in Seq(Words)
    BY <1>0, <1>8, HeadTailProperties DEF SenderReads
  <2>2. UNCHANGED <<session, started, budget>>
    BY <1>8 DEF SenderReads
  <2>3. toHost' \in Seq(Tokens) /\ next' \in 1 .. Blocks + 1 /\ (sender' = "sending" => next' <= Blocks)
        /\ sender' \in {"ready", "sending", "eot", "done", "cancelled", "dead"}
    <3>1. CASE UNCHANGED <<toHost, sender, next>>
      BY <1>0, <3>1 DEF ReceiveTypes
    <3>2. CASE \E how \in {"done", "cancelled"} : SenderStops(how)
      BY <1>0, <3>2 DEF SenderStops
    <3>3. CASE \E b \in 1 .. Blocks + 1 : SendBlock(b)
      BY <3>3, SendBlockOK
    <3>4. 1 \in 1 .. Blocks + 1 /\ (sender = "sending" => next + 1 \in 1 .. Blocks + 1)
      BY <1>0 DEF ReceiveTypes
    <3>. QED BY <1>0, <1>8, <3>1, <3>2, <3>3, <3>4 DEF SenderReads
  <2>. QED BY <1>0, <2>1, <2>2, <2>3 DEF ReceiveTypes, BudgetOK
<1>9. CASE SenderDies
  BY <1>0, <1>9, FaultOK DEF SenderDies, ReceiveTypes
<1>10. CASE ReceiveLine
  <2>1. BudgetOK' /\ budget'.faults = budget.faults /\ UNCHANGED <<session, started, sender, next>>
    BY <1>0, <1>10, FaultOK DEF ReceiveLine, CorruptToken, CorruptReply, LoseToken, LoseReply
  <2>2. toHost' \in Seq(Tokens) /\ toRemote' \in Seq(Words)
    <3>0. ASSUME NEW k \in DOMAIN toHost, NEW u \in Tokens PROVE [toHost EXCEPT ![k] = u] \in Seq(Tokens)
      BY <1>0, ExceptSeq, LenProperties
    <3>1. CASE CorruptToken
      <4>0. PICK k \in DOMAIN toHost : \E u \in Damaged(toHost[k]) : toHost' = [toHost EXCEPT ![k] = u]
        BY <3>1 DEF CorruptToken
      <4>1. PICK u \in Damaged(toHost[k]) : toHost' = [toHost EXCEPT ![k] = u]
        BY <4>0
      <4>2. u \in Tokens
        BY <1>0, <4>1, ElementOfSeq, LenProperties, DamagedIs
      <4>3. toHost' \in Seq(Tokens)
        BY <3>0, <4>1, <4>2
      <4>. QED BY <1>0, <3>1, <4>3 DEF CorruptToken
    <3>2. CASE CorruptReply
      <4>1. "junk" \in Words
        BY DEF Words
      <4>2. PICK k \in DOMAIN toRemote : toRemote' = [toRemote EXCEPT ![k] = "junk"]
        BY <3>2 DEF CorruptReply
      <4>3. toRemote' \in Seq(Words)
        BY <1>0, <4>1, <4>2, ExceptSeq, LenProperties
      <4>. QED BY <1>0, <3>2, <4>3 DEF CorruptReply
    <3>3. CASE LoseToken
      <4>1. PICK k \in DOMAIN toHost :
              \/ toHost' = Without(toHost, k)
              \/ /\ IsHead(toHost[k])
                 /\ \/ toHost' = [toHost EXCEPT ![k].first = "none"]
                    \/ toHost' = [toHost EXCEPT ![k].form = "short"]
        BY <3>3 DEF LoseToken
      <4>2. CASE toHost' = Without(toHost, k)
        BY <1>0, <3>3, <4>2, WithoutIs DEF LoseToken
      <4>3. CASE toHost' # Without(toHost, k)
        <5>. DEFINE Parts == {[toHost[k] EXCEPT !.first = "none"], [toHost[k] EXCEPT !.form = "short"]}
        <5>1. PICK u \in Parts : toHost' = [toHost EXCEPT ![k] = u]
          BY <4>1, <4>3
        <5>2. u \in Tokens
          BY <1>0, <4>1, <4>3, ElementOfSeq, LenProperties, PartIs
        <5>3. toHost' \in Seq(Tokens)
          BY <3>0, <5>1, <5>2
        <5>. QED BY <1>0, <3>3, <5>3 DEF LoseToken
      <4>. QED BY <4>2, <4>3
    <3>4. CASE LoseReply
      BY <1>0, <3>4, WithoutIs DEF LoseReply
    <3>. QED BY <1>10, <3>1, <3>2, <3>3, <3>4 DEF ReceiveLine
  <2>. QED BY <1>0, <2>1, <2>2 DEF ReceiveTypes
<1>. QED BY <1>2, <1>3, <1>4, <1>5, <1>6, <1>7, <1>8, <1>9, <1>10 DEF ReceiveNext, ReceiveUser

LEMMA ReceiveTypesInitially == ReceiveInit => ReceiveTypes
<1>. SUFFICES ASSUME ReceiveInit PROVE ReceiveTypes
  OBVIOUS
<1>1. MaxRetries \in Nat /\ Budget \in Nat /\ Blocks \in Nat \ {0}
  BY LineAssumption, ReceiveAssumption
<1>2. <<>> \in Seq(RawTokens) /\ <<>> \in Seq(Tokens) /\ Len(<<>>) = 0 /\ <<>> \in Seq(1 .. Blocks)
      /\ <<>> \in Seq({"ack", "nak", "can"}) /\ <<>> \in Seq(Words)
  OBVIOUS
<1>3. session \in SessionType
  BY <1>1, <1>2 DEF ReceiveInit, SessionType, RawTokens
<1>4. session.buf = <<>> /\ session.reply = <<>>
  BY DEF ReceiveInit
<1>5. FieldsOK(session)
  BY <1>2, <1>3, <1>4 DEF FieldsOK
<1>6. BudgetOK
  BY <1>1 DEF ReceiveInit, BudgetOK
<1>7. /\ started \in BOOLEAN /\ toHost = <<>> /\ toRemote = <<>>
      /\ next = 1 /\ sender = "ready"
  BY DEF ReceiveInit
<1>8. next \in 1 .. Blocks + 1
  BY <1>1, <1>7
<1>. QED BY <1>2, <1>4, <1>5, <1>6, <1>7, <1>8 DEF ReceiveTypes

\* The session stays in its types, whatever the line and the user do.
THEOREM ReceiveTypesHold == ReceiveSpec => []ReceiveTypeOK
<1>1. ReceiveInit => ReceiveTypes
  BY ReceiveTypesInitially
<1>2. ReceiveTypes /\ [ReceiveNext]_receiveVars => ReceiveTypes'
  BY ReceiveTypesStep
<1>3. ReceiveTypes => ReceiveTypeOK
  BY DEF ReceiveTypes, ReceiveTypeOK, FieldsOK, BudgetOK
<1>. QED BY <1>1, <1>2, <1>3, PTL DEF ReceiveSpec

-----------------------------------------------------------------------------
(* A receive: alternation.                                                 *)

\* A head on its way is of block b, and the end of the file follows block Blocks.
OfBlock(t, b) ==
  /\ IsHead(t) => t.data = b /\ (t.form = "sound" => t.num = b % BlockMod)
  /\ EndsFile(t) => b = Blocks + 1

NoLead(s, from) == \A k \in DOMAIN s : k >= from => ~Lead(s[k])
OneLead(s)      == \A i, j \in DOMAIN s : Lead(s[i]) /\ Lead(s[j]) => i = j

\* What was written is the file's start, all of it when the receive is complete,
\* unless a byte was taken for EOT.
KeepsPrefix(r) ==
  /\ \A k \in DOMAIN r.written : r.written[k] = k
  /\ r.outcome = "complete" => Len(r.written) = Blocks \/ "eot" \in r.stray
  /\ r.outcome # "none" => r.state = "idle"

\* The session expects the block b the sender is at, or has it already.
AtBlock(r, b) ==
  /\ r.expected \in {b, b + 1} /\ r.expected <= Blocks + 1
  /\ Len(r.written) = r.expected - 1
  /\ r.state # "receiving" => r.expected = 1 /\ r.buf = <<>>
  /\ r.path <=> r.state # "idle"
  /\ PlainBuf(r.buf) => OfBlock(r.buf[1], b)

\* One packet at most is under way, and nothing is before the rest of a packet begun.
\* What was taken for a packet may be followed by one: it swallows its first bytes.
TokensAt(s, buf, b) ==
  /\ \A k \in DOMAIN s : OfBlock(s[k], b)
  /\ OneLead(s) /\ (PlainBuf(buf) => NoLead(s, 2))

\* One answer at most is under way, and then no packet is.
RepliesAt(a, s, buf, e, b) ==
  /\ Len(a) <= 1
  /\ a # <<>> => NoLead(s, 1) /\ (s = <<>> \/ ~PlainBuf(buf))
  /\ \A k \in DOMAIN a : a[k] # "can" /\ (a[k] = "ack" => e = b + 1 /\ ~PlainBuf(buf))

SenderAt(who, b) ==
  /\ who \in {"ready", "sending", "eot", "dead"}
  /\ (who = "ready" => b = 1) /\ (who = "eot" => b = Blocks + 1)

InSequence == session.outcome = "none" =>
  /\ AtBlock(session, next) /\ TokensAt(toHost, session.buf, next) /\ SenderAt(sender, next)
  /\ sender # "dead" => RepliesAt(toRemote, toHost, session.buf, session.expected, next)

Alternate == KeepsPrefix(session) /\ InSequence

ReceiveInStep == ReceiveTypes /\ (PathFirst /\ InTime => Alternate)

\* Once the client was told, nothing is written.
LEMMA EndsAlternate ==
  ASSUME KeepsPrefix(session), session'.written = session.written, session'.outcome = "ended",
         session'.state = "idle"
  PROVE  Alternate'
BY DEF Alternate, KeepsPrefix, InSequence

\* One answer, of what is under way or was.
AnswerOf(q) == q.reply = <<"nak">> \/ (q.reply = <<"ack">> /\ q.expected = next + 1)

\* The session's fields after the tokens under way up to the n-th.
Between(q, n) ==
  /\ FieldsOK(q) /\ KeepsPrefix(q)
  /\ q.outcome = "none" =>
       /\ q.state = "receiving" /\ AtBlock(q, next)
       /\ \/ q.reply = <<>> /\ (PlainBuf(q.buf) => NoLead(toHost, n + 2))
          \/ ~PlainBuf(q.buf) /\ NoLead(toHost, n + 1) /\ AnswerOf(q)

LEMMA EmptyIsNotPlain == ~PlainBuf(<<>>)
  BY DEF PlainBuf

\* The line has no lead further on if it has none here.
LEMMA NoLeadOn ==
  ASSUME NEW n \in Nat, NEW m \in Nat, n <= m, NoLead(toHost, n), ReceiveTypes
  PROVE  NoLead(toHost, m)
<1>1. DOMAIN toHost \subseteq Nat
  BY LenProperties DEF ReceiveTypes
<1>. QED BY <1>1 DEF NoLead

\* A head is the only lead, so none follows it; the same after the end of the file.
LEMMA OneLeadIs ==
  ASSUME ReceiveTypes, OneLead(toHost), NEW k \in DOMAIN toHost, Lead(toHost[k])
  PROVE  NoLead(toHost, k + 1) /\ NoLead(toHost, k + 2)
<1>1. DOMAIN toHost \subseteq Nat
  BY LenProperties DEF ReceiveTypes
<1>. QED BY <1>1 DEF NoLead, OneLead

\* The k-th token, or what remains of it, met an empty buffer.
LEMMA BeginAlternates ==
  ASSUME ReceiveTypes, NEW k \in DOMAIN toHost,
         NEW q, FieldsOK(q), q.outcome = "none", q.state = "receiving", KeepsPrefix(q), AtBlock(q, next), q.buf = <<>>,
         NEW t \in Tokens, OfBlock(t, next), IsHead(t) => NoLead(toHost, k + 1),
         q.reply = <<>> \/ ((IsHead(t) => ~Plain(Opening(t))) /\ NoLead(toHost, k + 1) /\ AnswerOf(q)),
         NEW q2, FieldsOK(q2), Begun(q2, q, t)
  PROVE  Between(q2, k)
<1>0. /\ next \in 1 .. Blocks + 1 /\ Blocks \in Nat \ {0} /\ k \in Nat /\ q.expected \in Nat \ {0}
  <2>1. DOMAIN toHost \subseteq Nat
    BY LenProperties DEF ReceiveTypes
  <2>2. q.expected \in Nat \ {0}
    BY TypesOfFields DEF FieldsOK
  <2>. QED BY <2>1, <2>2, ReceiveAssumption DEF ReceiveTypes
<1>1. CASE q2 = q
  BY <1>1, EmptyIsNotPlain DEF Between
<1>2. CASE Stopped(q2, q, "ended")
  BY <1>2 DEF Stopped, KeepsPrefix, Between
<1>3. CASE Stopped(q2, q, "complete") /\ (EndsFile(t) \/ "eot" \in q2.stray)
  <2>1. ASSUME EndsFile(t) PROVE Len(q2.written) = Blocks
    <3>1. next = Blocks + 1
      BY <2>1 DEF OfBlock
    <3>2. Len(q.written) = Blocks
      BY <1>0, <3>1 DEF AtBlock
    <3>. QED BY <1>3, <3>2 DEF Stopped
  <2>. QED BY <1>3, <2>1 DEF Stopped, KeepsPrefix, Between
<1>4. CASE IsHead(t) /\ Silent(q2, q) /\ q2.buf = <<Opening(t)>>
  <2>1. /\ q2.state = "receiving" /\ q2.path = q.path /\ q2.outcome = "none" /\ q2.reply = q.reply
        /\ q2.expected = q.expected /\ q2.written = q.written
    BY <1>4 DEF Silent, Keeps
  <2>2. KeepsPrefix(q2)
    BY <2>1 DEF KeepsPrefix
  <2>3. q2.buf[1] = Opening(t)
    BY <1>4
  <2>4. Plain(Opening(t)) => Opening(t) = t
    <3>1. ASSUME t.first = "none" PROVE ~Plain(Opening(t))
      <4>. DEFINE a == ReadAs(t)
      <4>1. Opening(t) = [t EXCEPT !.first = a, !.form = "short"]
        BY <3>1 DEF Opening
      <4>. HIDE DEF a
      <4>2. Opening(t).form = "short"
        BY <4>1 DEF Tokens, RawTokens
      <4>. QED BY <4>2 DEF Plain
    <3>. QED BY <3>1 DEF Opening
  <2>5. AtBlock(q2, next)
    BY <2>1, <2>3, <2>4 DEF AtBlock, PlainBuf
  <2>6. NoLead(toHost, k + 1) /\ NoLead(toHost, k + 2)
    BY <1>0, <1>4, NoLeadOn
  <2>7. AnswerOf(q) => AnswerOf(q2)
    BY <2>1 DEF AnswerOf
  <2>. QED BY <1>4, <2>1, <2>2, <2>3, <2>5, <2>6, <2>7 DEF Between, PlainBuf
<1>. QED BY <1>1, <1>2, <1>3, <1>4 DEF Begun

\* A packet was answered.
LEMMA SettledAlternates ==
  ASSUME ReceiveTypes, NEW q, FieldsOK(q), q.outcome = "none", q.state = "receiving", KeepsPrefix(q),
         AtBlock(q, next), q.buf # <<>>, q.reply = <<>>, NEW p, Settled(p, q)
  PROVE  /\ p.outcome = "none" /\ p.state = "receiving" /\ KeepsPrefix(p) /\ AtBlock(p, next)
         /\ p.buf = <<>> /\ AnswerOf(p)
<1>0. /\ Blocks \in Nat \ {0} /\ next \in 1 .. Blocks + 1
      /\ q.buf \in Seq(Tokens) /\ q.written \in Seq(1 .. Blocks) /\ q.expected \in Nat \ {0} /\ q.path
  <2>1. next \in 1 .. Blocks + 1 /\ Blocks \in Nat \ {0}
    BY ReceiveAssumption DEF ReceiveTypes
  <2>2. q.buf \in Seq(Tokens) /\ q.written \in Seq(1 .. Blocks) /\ q.expected \in Nat \ {0}
    BY TypesOfFields DEF FieldsOK
  <2>3. q.path
    BY DEF AtBlock
  <2>. QED BY <2>1, <2>2, <2>3
<1>1. p.state = "receiving" /\ p.path = q.path /\ p.outcome = "none" /\ p.buf = <<>> /\ ~PlainBuf(p.buf)
  BY EmptyIsNotPlain DEF Settled, Keeps
<1>2. CASE p.reply = Append(q.reply, "nak") /\ p.expected = q.expected /\ p.written = q.written
  <2>1. p.reply = <<"nak">>
    BY <1>2
  <2>2. KeepsPrefix(p)
    BY <1>1, <1>2 DEF KeepsPrefix
  <2>3. AtBlock(p, next)
    BY <1>1, <1>2 DEF AtBlock
  <2>. QED BY <1>1, <2>1, <2>2, <2>3 DEF AnswerOf
<1>3. ASSUME Plain(q.buf[1])
      PROVE  OfBlock(q.buf[1], next) /\ IsHead(q.buf[1]) /\ q.buf[1].data = next /\ next <= Blocks
  <2>1. OfBlock(q.buf[1], next) /\ IsHead(q.buf[1])
    BY <1>3 DEF AtBlock, PlainBuf, FieldsOK
  <2>2. Len(q.buf) # 0 /\ Len(q.buf) \in Nat
    BY <1>0, EmptySeq, LenProperties
  <2>3. q.buf[1] \in Tokens
    BY <1>0, <2>2, ElementOfSeq
  <2>4. q.buf[1].data = next /\ next <= Blocks
    BY <1>0, <2>1, <2>3 DEF OfBlock, Tokens, RawTokens
  <2>. QED BY <2>1, <2>4
<1>4. CASE /\ p.reply = Append(q.reply, "ack") /\ p.expected = q.expected + 1
           /\ Plain(q.buf[1]) /\ q.buf[1].form = "sound" /\ q.buf[1].num = q.expected % BlockMod
           /\ p.written = Append(q.written, q.buf[1].data)
  <2>1. q.expected = next
    <3>1. ASSUME q.expected = next + 1 PROVE FALSE
      <4>1. next % BlockMod = (next + 1) % BlockMod
        BY <1>3, <1>4, <3>1 DEF OfBlock
      <4>2. next \in Nat /\ next + 1 \in Nat /\ next < next + 1 /\ next + 1 < next + BlockMod
        BY <1>0, LineAssumption
      <4>. QED BY <4>1, <4>2, Apart
    <3>. QED BY <3>1 DEF AtBlock
  <2>2. p.reply = <<"ack">> /\ p.expected = next + 1
    BY <1>4, <2>1
  <2>3. p.written = Append(q.written, next) /\ Len(q.written) = next - 1
    BY <1>3, <1>4, <2>1 DEF AtBlock
  <2>4. KeepsPrefix(p)
    <3>1. \A i \in DOMAIN p.written : p.written[i] = i
      <4>1. Len(p.written) = next /\ DOMAIN p.written = 1 .. next /\ p.written[next] = next
            /\ \A i \in 1 .. next - 1 : p.written[i] = q.written[i]
        <5>1. next \in 1 .. Blocks
          BY <1>0, <1>3, <1>4
        <5>. QED BY <1>0, <2>3, <5>1, AppendProperties, LenProperties
      <4>2. \A i \in 1 .. next - 1 : q.written[i] = i
        BY <1>0, <2>3, LenProperties DEF KeepsPrefix
      <4>3. ASSUME NEW i \in 1 .. next PROVE i \in 1 .. next - 1 \/ i = next
        BY <1>0
      <4>. QED BY <4>1, <4>2, <4>3
    <3>. QED BY <1>1, <3>1 DEF KeepsPrefix
  <2>5. AtBlock(p, next)
    <3>1. Len(p.written) = next
      BY <1>0, <1>3, <1>4, <2>3, AppendProperties
    <3>. QED BY <1>0, <1>1, <1>3, <1>4, <2>2, <3>1 DEF AtBlock
  <2>. QED BY <1>1, <2>2, <2>4, <2>5 DEF AnswerOf
<1>5. CASE /\ p.reply = Append(q.reply, "ack") /\ p.expected = q.expected /\ p.written = q.written
           /\ Plain(q.buf[1]) /\ q.buf[1].form = "sound" /\ q.buf[1].num # q.expected % BlockMod
  <2>1. q.expected = next + 1
    BY <1>3, <1>5 DEF OfBlock, AtBlock
  <2>2. p.reply = <<"ack">> /\ p.expected = next + 1
    BY <1>5, <2>1
  <2>3. KeepsPrefix(p)
    BY <1>1, <1>5 DEF KeepsPrefix
  <2>4. AtBlock(p, next)
    BY <1>1, <1>5 DEF AtBlock
  <2>. QED BY <1>1, <2>2, <2>3, <2>4 DEF AnswerOf
<1>. QED BY <1>0, <1>2, <1>4, <1>5 DEF Settled

\* One token more: q2 comes after q when the k-th token under way was read.
LEMMA TokenAlternates ==
  ASSUME ReceiveTypes, OneLead(toHost), NEW k \in DOMAIN toHost, OfBlock(toHost[k], next),
         NEW q, Between(q, k - 1), q.outcome = "none",
         NEW q2, FieldsOK(q2), Taken(q2, q, toHost[k])
  PROVE  /\ Between(q2, k)
         /\ ~PlainBuf(q.buf) /\ NoLead(toHost, 1) => q2 = q \/ q2.outcome # "none"
<1>. DEFINE t == toHost[k]
<1>0. k \in Nat /\ k >= 1 /\ t \in Tokens /\ (k - 1) + 2 = k + 1 /\ (k - 1) + 1 = k
  <2>1. toHost \in Seq(Tokens) /\ DOMAIN toHost = 1 .. Len(toHost) /\ Len(toHost) \in Nat
    BY LenProperties DEF ReceiveTypes
  <2>2. t \in Tokens
    BY <2>1, ElementOfSeq
  <2>. QED BY <2>1, <2>2
<1>1. /\ FieldsOK(q) /\ KeepsPrefix(q) /\ q.state = "receiving" /\ AtBlock(q, next)
      /\ \/ q.reply = <<>> /\ (PlainBuf(q.buf) => NoLead(toHost, k + 1))
         \/ ~PlainBuf(q.buf) /\ NoLead(toHost, k) /\ AnswerOf(q)
  BY <1>0 DEF Between
<1>2. IsHead(t) => Lead(t) /\ NoLead(toHost, k + 1) /\ NoLead(toHost, k + 2)
  <2>1. IsHead(t) => Lead(t)
    BY DEF Lead
  <2>. QED BY <2>1, OneLeadIs
<1>3. ASSUME NEW n \in Nat, n <= k, NoLead(toHost, n) PROVE ~Lead(t)
  BY <1>0, <1>3 DEF NoLead
<1>4. NoLead(toHost, k) => ~IsHead(t) /\ NoLead(toHost, k + 1)
  BY <1>0, <1>2, <1>3, NoLeadOn
<1>5. NoLead(toHost, k + 1) => NoLead(toHost, k + 2)
  BY <1>0, NoLeadOn
<1>. HIDE DEF t
<1>6. CASE q.buf = <<>> /\ Begun(q2, q, t)
  <2>1. Between(q2, k)
    <3>1. q.reply = <<>> \/ ((IsHead(t) => ~Plain(Opening(t))) /\ NoLead(toHost, k + 1) /\ AnswerOf(q))
      BY <1>1, <1>4
    <3>2. OfBlock(t, next)
      BY DEF t
    <3>. QED BY <1>0, <1>1, <1>2, <1>6, <3>1, <3>2, BeginAlternates
  <2>2. ASSUME NoLead(toHost, 1) PROVE q2 = q \/ q2.outcome # "none"
    <3>1. ~IsHead(t)
      BY <1>0, <1>2, <1>3, <2>2
    <3>. QED BY <1>6, <3>1 DEF Begun, Stopped
  <2>. QED BY <2>1, <2>2
<1>7. CASE q2 = q /\ ~Plain(q.buf[1])
  <2>1. ~PlainBuf(q.buf)
    BY <1>7 DEF PlainBuf
  <2>. QED BY <1>1, <1>4, <1>7, <2>1 DEF Between
<1>8. ASSUME q.buf # <<>>, IsHead(t) \/ Plain(q.buf[1])
      PROVE  q.reply = <<>> /\ NoLead(toHost, k + 1) /\ (PlainBuf(q.buf) \/ ~NoLead(toHost, 1))
  <2>1. CASE IsHead(t)
    <3>1. ~NoLead(toHost, 1) /\ ~NoLead(toHost, k)
      BY <1>0, <1>2, <1>3, <2>1
    <3>. QED BY <1>1, <1>2, <2>1, <3>1
  <2>2. CASE Plain(q.buf[1])
    <3>1. PlainBuf(q.buf)
      BY <1>8, <2>2 DEF PlainBuf
    <3>. QED BY <1>1, <3>1
  <2>. QED BY <1>8, <2>1, <2>2
<1>9. CASE /\ q.buf # <<>> /\ (IsHead(t) \/ Plain(q.buf[1]))
           /\ Silent(q2, q) /\ q2.buf = Append(q.buf, t)
  <2>1. /\ q2.state = "receiving" /\ q2.path = q.path /\ q2.outcome = "none" /\ q2.reply = <<>>
        /\ q2.expected = q.expected /\ q2.written = q.written
    BY <1>1, <1>8, <1>9 DEF Silent, Keeps
  <2>2. q2.buf[1] = q.buf[1] /\ q2.buf # <<>>
    <3>1. q.buf \in Seq(Tokens)
      BY <1>1 DEF FieldsOK
    <3>. QED BY <1>0, <1>9, <3>1, AppendProperties, EmptySeq, LenProperties
  <2>3. KeepsPrefix(q2)
    BY <1>1, <2>1 DEF KeepsPrefix
  <2>4. AtBlock(q2, next)
    BY <1>1, <1>9, <2>1, <2>2 DEF AtBlock, PlainBuf
  <2>5. Between(q2, k)
    BY <1>5, <1>8, <1>9, <2>1, <2>3, <2>4 DEF Between
  <2>. QED BY <1>8, <1>9, <2>5
<1>10. CASE /\ q.buf # <<>> /\ (IsHead(t) \/ Plain(q.buf[1])) /\ Filled(q2, q, t)
  <2>0. q.reply = <<>> /\ NoLead(toHost, k + 1) /\ (PlainBuf(q.buf) \/ ~NoLead(toHost, 1))
    BY <1>8, <1>10
  <2>1. ASSUME NEW p, Settled(p, q)
        PROVE  /\ p.outcome = "none" /\ p.state = "receiving" /\ KeepsPrefix(p) /\ AtBlock(p, next)
               /\ p.buf = <<>> /\ AnswerOf(p)
    BY <1>1, <1>10, <2>0, <2>1, SettledAlternates
  <2>2. CASE Stopped(q2, q, "ended")
    BY <1>1, <2>2 DEF Stopped, KeepsPrefix, Between
  <2>3. CASE Settled(q2, q)
    <3>1. Between(q2, k)
      BY <2>0, <2>1, <2>3, EmptyIsNotPlain DEF Between
    <3>. QED BY <2>0, <3>1
  <2>4. CASE IsHead(t) /\ \E p : FieldsOK(p) /\ Settled(p, q) /\ Begun(q2, p, Rest(t))
    <3>1. PICK p : FieldsOK(p) /\ Settled(p, q) /\ Begun(q2, p, Rest(t))
      BY <2>4
    <3>2. /\ Rest(t) \in Tokens /\ IsHead(Rest(t)) /\ Rest(t).data = t.data /\ Rest(t).num = t.num
          /\ Rest(t).form = t.form /\ Rest(t).first = "none"
      BY <1>0, <2>4, RestIsToken
    <3>3. OfBlock(Rest(t), next)
      BY <2>4, <3>2 DEF OfBlock, EndsFile, t
    <3>4. ~Plain(Opening(Rest(t)))
      <4>. DEFINE u == Rest(t)  a == ReadAs(u)
      <4>1. Opening(u) = [u EXCEPT !.first = a, !.form = "short"]
        BY <3>2 DEF Opening
      <4>. HIDE DEF a, u
      <4>2. u \in RawTokens
        BY <3>2 DEF Tokens, u
      <4>3. Opening(u).form = "short"
        BY <4>1, <4>2 DEF RawTokens
      <4>. QED BY <4>3 DEF Plain, u
    <3>5. Between(q2, k)
      BY <2>0, <2>1, <3>1, <3>2, <3>3, <3>4, BeginAlternates
    <3>. QED BY <2>0, <3>5
  <2>. QED BY <1>10, <2>2, <2>3, <2>4 DEF Filled
<1>11. Taken(q2, q, t)
  BY DEF t
<1>. QED BY <1>1, <1>6, <1>7, <1>9, <1>10, <1>11 DEF Taken

LEMMA RunAlternates ==
  ASSUME ReceiveTypes, OneLead(toHost), \A k \in DOMAIN toHost : OfBlock(toHost[k], next),
         NEW r \in Sessions, NEW o \in Nat, Between(r, o),
         NEW tokens \in Seq(Tokens), o + Len(tokens) <= Len(toHost),
         \A i \in 1 .. Len(tokens) : tokens[i] = toHost[o + i],
         NEW f, Runs(f, r, tokens, Len(tokens))
  PROVE  /\ Between(f[Len(tokens)], o + Len(tokens))
         /\ ~PlainBuf(r.buf) /\ NoLead(toHost, 1) => f[Len(tokens)] = r \/ f[Len(tokens)].outcome # "none"
<1>. DEFINE Holds(k) == /\ Between(f[k], o + k)
                        /\ ~PlainBuf(r.buf) /\ NoLead(toHost, 1) => f[k] = r \/ f[k].outcome # "none"
            not == {k \in 0 .. Len(tokens) : ~Holds(k)}
<1>0. Len(tokens) \in Nat /\ Len(toHost) \in Nat /\ DOMAIN toHost = 1 .. Len(toHost)
  BY LenProperties DEF ReceiveTypes
<1>1. ASSUME not # {} PROVE FALSE
  <2>0. not \subseteq Nat
    OBVIOUS
  <2>1. PICK m \in not : \A n \in not : m <= n
    <3>. HIDE DEF not
    <3>. QED BY <1>1, <2>0, LeastOne
  <2>2. m # 0
    <3>1. f[0] = r /\ o + 0 = o
      BY DEF Runs
    <3>2. Holds(0)
      BY <3>1
    <3>. HIDE DEF Holds
    <3>. QED BY <3>2
  <2>3. m \in 1 .. Len(tokens) /\ m - 1 \in 0 .. Len(tokens) /\ m \in Nat
    BY <2>2
  <2>4. Holds(m - 1)
    <3>. HIDE DEF Holds
    <3>. QED BY <2>1, <2>3
  <2>. DEFINE k == o + m  q == f[m - 1]
  <2>5. k \in DOMAIN toHost /\ tokens[m] = toHost[k] /\ k - 1 = o + (m - 1) /\ tokens[m] \in Tokens
    <3>1. tokens[m] \in Tokens
      BY <2>3, ElementOfSeq
    <3>. QED BY <1>0, <2>3, <3>1
  <2>6. f[m] = TakeToken(q, toHost[k]) /\ FieldsOK(q)
    BY <2>3, <2>4, <2>5 DEF Runs, Between
  <2>7. FieldsOK(f[m]) /\ Taken(f[m], q, toHost[k])
    BY <2>5, <2>6, TakeTokenIs
  <2>8. CASE q.outcome # "none"
    <3>1. q.state = "idle"
      BY <2>4, <2>8 DEF Between, KeepsPrefix
    <3>2. f[m] = q
      BY <2>6, <3>1 DEF TakeToken
    <3>3. Between(q, o + m)
      BY <2>4, <2>8 DEF Between
    <3>. QED BY <2>1, <2>8, <3>2, <3>3
  <2>9. CASE q.outcome = "none"
    <3>. HIDE DEF k, q
    <3>1. Between(q, k - 1) /\ (~PlainBuf(r.buf) /\ NoLead(toHost, 1) => q = r)
      BY <2>4, <2>5, <2>9 DEF q
    <3>2. /\ Between(f[m], k)
          /\ ~PlainBuf(q.buf) /\ NoLead(toHost, 1) => f[m] = q \/ f[m].outcome # "none"
      BY <2>5, <2>7, <2>9, <3>1, TokenAlternates
    <3>3. Holds(m)
      BY <3>1, <3>2 DEF k
    <3>. HIDE DEF Holds
    <3>. QED BY <2>1, <3>3
  <2>. QED BY <2>8, <2>9
<1>2. Holds(Len(tokens))
  <2>1. Len(tokens) \in 0 .. Len(tokens)
    BY <1>0
  <2>. HIDE DEF Holds
  <2>. QED BY <1>1, <2>1
<1>. QED BY <1>2

\* A waiting session woke at the k-th token.
LEMMA WokeAlternates ==
  ASSUME ReceiveTypes, OneLead(toHost), NEW k \in DOMAIN toHost, OfBlock(toHost[k], next),
         session.outcome = "none", session.state = "waiting", KeepsPrefix(session), AtBlock(session, next),
         Wakes(toHost[k])
  PROVE  Between(Woke(session, toHost[k]), k) /\ ~NoLead(toHost, 1)
<1>. DEFINE t == toHost[k]  o == Opened(session)
<1>1. t \in Tokens /\ k >= 1
  <2>1. toHost \in Seq(Tokens) /\ DOMAIN toHost = 1 .. Len(toHost) /\ Len(toHost) \in Nat
    BY LenProperties DEF ReceiveTypes
  <2>. QED BY <2>1, ElementOfSeq
<1>2. /\ FieldsOK(o) /\ o.state = "receiving" /\ o.buf = <<>> /\ o.path = session.path
      /\ o.expected = session.expected /\ o.written = session.written
      /\ o.outcome = session.outcome /\ o.reply = <<>>
  BY OpenedIs DEF ReceiveTypes, Sessions
<1>. HIDE DEF t, o
<1>3. IsHead(t) /\ Woken(t) \in Tokens /\ Woken(t) \in {t, Rest(t)}
  BY <1>1, WokenIs DEF t
<1>4. NoLead(toHost, k + 1) /\ ~NoLead(toHost, 1)
  <2>1. Lead(t)
    BY <1>3 DEF Lead
  <2>2. NoLead(toHost, k + 1)
    BY <2>1, OneLeadIs DEF t
  <2>3. ~NoLead(toHost, 1)
    BY <1>1, <2>1 DEF NoLead, t
  <2>. QED BY <2>2, <2>3
<1>5. KeepsPrefix(o) /\ AtBlock(o, next)
  <2>1. KeepsPrefix(o)
    BY <1>2 DEF KeepsPrefix
  <2>2. session.path
    BY DEF AtBlock
  <2>3. AtBlock(o, next)
    BY <1>2, <2>2, EmptyIsNotPlain DEF AtBlock
  <2>. QED BY <2>1, <2>3
<1>6. OfBlock(Woken(t), next)
  <2>1. OfBlock(t, next)
    BY DEF t
  <2>2. OfBlock(Rest(t), next)
    <3>1. /\ IsHead(Rest(t)) /\ Rest(t).data = t.data /\ Rest(t).num = t.num /\ Rest(t).form = t.form
      BY <1>1, <1>3, RestIsToken
    <3>. QED BY <1>3, <2>1, <3>1 DEF OfBlock, EndsFile
  <2>. QED BY <1>3, <2>1, <2>2
<1>7. Woke(session, t) \in Sessions /\ Begun(Woke(session, t), o, Woken(t))
  BY <1>1, WokeIs DEF ReceiveTypes, t, o
<1>8. Between(Woke(session, t), k)
  <2>1. FieldsOK(Woke(session, t)) /\ o.outcome = "none"
    BY <1>2, <1>7 DEF Sessions
  <2>. QED BY <1>2, <1>3, <1>4, <1>5, <1>6, <1>7, <2>1, BeginAlternates
<1>. QED BY <1>4, <1>8 DEF t

\* The line carries less, the session is as before.
LEMMA LineShrinks ==
  ASSUME ReceiveTypes, ReceiveTypes', Alternate, UNCHANGED <<session, toRemote, sender, next>>,
         NEW p \in [DOMAIN toHost' -> DOMAIN toHost], toHost = <<>> => toHost' = <<>>,
         \A i \in DOMAIN toHost' : p[i] >= i,
         \A i, j \in DOMAIN toHost' : p[i] = p[j] => i = j,
         \A i \in DOMAIN toHost' : Lead(toHost'[i]) => Lead(toHost[p[i]]),
         \A i \in DOMAIN toHost' : OfBlock(toHost[p[i]], next) => OfBlock(toHost'[i], next)
  PROVE  Alternate'
<1>0. /\ DOMAIN toHost = 1 .. Len(toHost) /\ Len(toHost) \in Nat
      /\ DOMAIN toHost' = 1 .. Len(toHost') /\ Len(toHost') \in Nat
  BY LenProperties DEF ReceiveTypes
<1>1. KeepsPrefix(session)'
  BY DEF Alternate, KeepsPrefix
<1>2. ASSUME NEW n \in {1, 2}, NoLead(toHost, n) PROVE NoLead(toHost', n)
  <2>1. ASSUME NEW i \in DOMAIN toHost', i >= n PROVE ~Lead(toHost'[i])
    <3>1. p[i] \in DOMAIN toHost /\ p[i] >= n
      BY <1>0, <2>1
    <3>. QED BY <1>2, <3>1 DEF NoLead
  <2>. QED BY <2>1 DEF NoLead
<1>3. ASSUME session.outcome = "none"
      PROVE  /\ TokensAt(toHost', session.buf, next)
             /\ sender # "dead" => RepliesAt(toRemote, toHost', session.buf, session.expected, next)
  <2>1. TokensAt(toHost, session.buf, next)
        /\ (sender # "dead" => RepliesAt(toRemote, toHost, session.buf, session.expected, next))
    BY <1>3 DEF Alternate, InSequence
  <2>2. (\A i \in DOMAIN toHost' : OfBlock(toHost'[i], next)) /\ OneLead(toHost')
    BY <2>1 DEF TokensAt, OneLead
  <2>3. TokensAt(toHost', session.buf, next)
    BY <1>2, <2>1, <2>2 DEF TokensAt
  <2>4. sender # "dead" => RepliesAt(toRemote, toHost', session.buf, session.expected, next)
    BY <1>2, <2>1 DEF RepliesAt
  <2>. QED BY <2>3, <2>4
<1>4. InSequence'
  BY <1>3 DEF Alternate, InSequence
<1>. QED BY <1>1, <1>4 DEF Alternate

\* What is left of the line after the first n tokens.
LEMMA RestIs ==
  ASSUME NEW S, NEW s \in Seq(S), NEW n \in DOMAIN s, NEW u, u = SubSeq(s, n + 1, Len(s))
  PROVE  /\ u \in Seq(S) /\ Len(u) = Len(s) - n /\ DOMAIN u = 1 .. Len(s) - n
         /\ \A i \in 1 .. Len(s) - n : u[i] = s[n + i] /\ n + i \in DOMAIN s
<1>1. Len(s) \in Nat /\ n \in 1 .. Len(s) /\ DOMAIN s = 1 .. Len(s)
  BY LenProperties
<1>2. \A i \in n + 1 .. Len(s) : s[i] \in S
  BY <1>1, ElementOfSeq
<1>3. u \in Seq(S) /\ Len(u) = (IF n + 1 <= Len(s) THEN Len(s) - (n + 1) + 1 ELSE 0)
      /\ \A i \in 1 .. Len(s) - (n + 1) + 1 : u[i] = s[(n + 1) + i - 1]
  BY <1>1, <1>2, SubSeqProperties
<1>4. Len(u) = Len(s) - n /\ DOMAIN u = 1 .. Len(u)
  BY <1>1, <1>3, LenProperties
<1>5. ASSUME NEW i \in 1 .. Len(s) - n PROVE u[i] = s[n + i] /\ n + i \in DOMAIN s
  <2>. DEFINE l == Len(s)
  <2>1. l \in Nat /\ n \in Nat /\ i \in 1 .. l - n
    BY <1>1
  <2>. HIDE DEF l
  <2>2. i \in 1 .. l - (n + 1) + 1 /\ (n + 1) + i - 1 = n + i /\ n + i \in 1 .. l
    BY <2>1
  <2>. QED BY <1>1, <1>3, <2>2 DEF l
<1>. QED BY <1>3, <1>4, <1>5

LEMMA FrontIs ==
  ASSUME NEW S, NEW s \in Seq(S), NEW n \in DOMAIN s, NEW at \in 1 .. n + 1
  PROVE  LET t == SubSeq(s, 1, n)  u == SubSeq(t, at, Len(t)) IN
         /\ t \in Seq(S) /\ Len(t) = n /\ \A i \in 1 .. n : t[i] = s[i]
         /\ u \in Seq(S) /\ Len(u) = n - (at - 1) /\ \A i \in 1 .. n - (at - 1) : u[i] = s[(at - 1) + i]
<1>. DEFINE t == SubSeq(s, 1, n)  u == SubSeq(t, at, Len(t))
<1>. SUFFICES /\ t \in Seq(S) /\ Len(t) = n /\ \A i \in 1 .. n : t[i] = s[i]
              /\ u \in Seq(S) /\ Len(u) = n - (at - 1) /\ \A i \in 1 .. n - (at - 1) : u[i] = s[(at - 1) + i]
  OBVIOUS
<1>1. Len(s) \in Nat /\ n \in 1 .. Len(s) /\ n \in Nat
  BY LenProperties
<1>2. \A i \in 1 .. n : s[i] \in S
  BY <1>1, ElementOfSeq
<1>3. t \in Seq(S) /\ Len(t) = n /\ \A i \in 1 .. n : t[i] = s[i]
  BY <1>1, <1>2, SubSeqProperties
<1>. HIDE DEF t
<1>4. \A i \in at .. Len(t) : t[i] \in S
  BY <1>2, <1>3
<1>5. u \in Seq(S) /\ Len(u) = (IF at <= n THEN n - at + 1 ELSE 0)
      /\ \A i \in 1 .. n - at + 1 : u[i] = t[at + i - 1]
  BY <1>1, <1>3, <1>4, SubSeqProperties
<1>. HIDE DEF u
<1>6. ASSUME NEW i \in 1 .. n - (at - 1) PROVE u[i] = s[(at - 1) + i]
  <2>1. i \in 1 .. n - at + 1 /\ at + i - 1 \in 1 .. n /\ at + i - 1 = (at - 1) + i
    BY <1>1
  <2>. QED BY <1>3, <1>5, <2>1
<1>7. Len(u) = n - (at - 1)
  BY <1>1, <1>5
<1>. QED BY <1>3, <1>5, <1>6, <1>7

\* The session has read n tokens and has become q.
LEMMA ReadEnds ==
  ASSUME ReceiveTypes, ReceiveTypes', Alternate, session.outcome = "none",
         NEW n \in DOMAIN toHost, toHost' = SubSeq(toHost, n + 1, Len(toHost)),
         NEW q, Become(q), Between(q, n), UNCHANGED <<sender, next>>,
         ~PlainBuf(session.buf) /\ NoLead(toHost, 1) /\ q.outcome = "none" =>
           q.reply = <<>> /\ ~PlainBuf(q.buf) /\ q.expected = session.expected
  PROVE  Alternate'
<1>0. /\ toHost \in Seq(Tokens) /\ DOMAIN toHost = 1 .. Len(toHost) /\ Len(toHost) \in Nat /\ toRemote \in Seq(Words)
      /\ n \in 1 .. Len(toHost) /\ toHost # <<>>
  <2>1. toHost \in Seq(Tokens) /\ DOMAIN toHost = 1 .. Len(toHost) /\ Len(toHost) \in Nat /\ toRemote \in Seq(Words)
    BY LenProperties DEF ReceiveTypes
  <2>. QED BY <2>1
<1>1. /\ toRemote' = toRemote \o q.reply
      /\ session'.state = q.state /\ session'.path = q.path /\ session'.expected = q.expected
      /\ session'.buf = q.buf /\ session'.written = q.written /\ session'.outcome = q.outcome
      /\ session'.stray = q.stray
  BY <1>0, BecomeIs DEF Between
<1>2. /\ DOMAIN toHost' = 1 .. Len(toHost) - n
      /\ \A i \in 1 .. Len(toHost) - n : toHost'[i] = toHost[n + i] /\ n + i \in DOMAIN toHost
  BY <1>0, RestIs
<1>3. KeepsPrefix(session)'
  BY <1>1 DEF Between, KeepsPrefix
<1>4. ASSUME NEW j \in Nat, NoLead(toHost, n + j) PROVE NoLead(toHost', j)
  <2>1. ASSUME NEW i \in DOMAIN toHost', i >= j PROVE ~Lead(toHost'[i])
    <3>1. n + i \in DOMAIN toHost /\ n + i >= n + j
      BY <1>0, <1>2, <2>1
    <3>. QED BY <1>2, <1>4, <2>1, <3>1 DEF NoLead
  <2>. QED BY <2>1 DEF NoLead
<1>5. ASSUME q.outcome = "none"
      PROVE  /\ AtBlock(session', next) /\ TokensAt(toHost', q.buf, next) /\ SenderAt(sender, next)
             /\ sender # "dead" => RepliesAt(toRemote', toHost', q.buf, q.expected, next)
  <2>1. /\ TokensAt(toHost, session.buf, next) /\ SenderAt(sender, next)
        /\ (sender # "dead" => RepliesAt(toRemote, toHost, session.buf, session.expected, next))
    BY DEF Alternate, InSequence
  <2>2. /\ AtBlock(q, next)
        /\ \/ q.reply = <<>> /\ (PlainBuf(q.buf) => NoLead(toHost, n + 2))
           \/ /\ ~PlainBuf(q.buf) /\ NoLead(toHost, n + 1)
              /\ q.reply = <<"nak">> \/ (q.reply = <<"ack">> /\ q.expected = next + 1)
    BY <1>5 DEF Between, AnswerOf
  <2>3. AtBlock(session', next)
    BY <1>1, <2>2 DEF AtBlock
  <2>4. TokensAt(toHost', q.buf, next)
    <3>1. \A i \in DOMAIN toHost' : OfBlock(toHost'[i], next)
      BY <1>2, <2>1 DEF TokensAt
    <3>2. OneLead(toHost')
      <4>1. ASSUME NEW i \in DOMAIN toHost', NEW j \in DOMAIN toHost', Lead(toHost'[i]), Lead(toHost'[j])
            PROVE  i = j
        <5>1. n + i = n + j
          BY <1>2, <2>1, <4>1 DEF TokensAt, OneLead
        <5>2. i \in Int /\ j \in Int /\ n \in Int
          BY <1>0, <1>2
        <5>. QED BY <5>1, <5>2
      <4>. QED BY <4>1 DEF OneLead
    <3>3. PlainBuf(q.buf) => NoLead(toHost', 2)
      BY <1>4, <2>2
    <3>. QED BY <3>1, <3>2, <3>3 DEF TokensAt
  <2>5. ASSUME sender # "dead" PROVE RepliesAt(toRemote', toHost', q.buf, q.expected, next)
    <3>0. RepliesAt(toRemote, toHost, session.buf, session.expected, next)
      BY <2>1, <2>5
    <3>1. CASE toRemote # <<>>
      <4>1. ~PlainBuf(session.buf) /\ NoLead(toHost, 1)
        BY <1>0, <3>0, <3>1 DEF RepliesAt
      <4>2. q.reply = <<>> /\ ~PlainBuf(q.buf) /\ q.expected = session.expected
        BY <1>5, <4>1
      <4>3. toRemote' = toRemote
        BY <1>0, <1>1, <4>2, ConcatEmptySeq
      <4>4. NoLead(toHost', 1)
        <5>1. NoLead(toHost, n + 1)
          BY <1>0, <4>1 DEF NoLead
        <5>. QED BY <1>4, <5>1
      <4>. QED BY <3>0, <4>2, <4>3, <4>4 DEF RepliesAt
    <3>2. CASE toRemote = <<>>
      <4>1. toRemote' = q.reply
        <5>1. q.reply \in Seq(Replies)
          BY TypesOfFields DEF Between, FieldsOK, Replies
        <5>. QED BY <1>1, <3>2, <5>1, ConcatEmptySeq
      <4>2. CASE q.reply = <<>>
        BY <4>1, <4>2 DEF RepliesAt
      <4>3. CASE q.reply # <<>>
        <5>1. ~PlainBuf(q.buf) /\ NoLead(toHost', 1) /\ (q.reply = <<"nak">> \/ (q.reply = <<"ack">> /\ q.expected = next + 1))
          BY <1>4, <2>2, <4>3
        <5>2. Len(toRemote') = 1 /\ DOMAIN toRemote' = {1} /\ toRemote'[1] \in {"nak", "ack"}
              /\ (toRemote'[1] = "ack" => q.expected = next + 1)
          <6>1. CASE toRemote' = <<"nak">>
            BY <6>1
          <6>2. CASE toRemote' = <<"ack">> /\ q.expected = next + 1
            BY <6>2
          <6>. QED BY <4>1, <5>1, <6>1, <6>2
        <5>. QED BY <5>1, <5>2 DEF RepliesAt
      <4>. QED BY <4>2, <4>3
    <3>. QED BY <3>1, <3>2
  <2>. QED BY <2>1, <2>3, <2>4, <2>5
<1>6. InSequence'
  BY <1>1, <1>5 DEF InSequence
<1>. QED BY <1>3, <1>6 DEF Alternate

LEMMA HostReadsAlternate ==
  ASSUME ReceiveTypes, ReceiveTypes', Alternate, HostReadsTokens
  PROVE  Alternate'
<1>1. PICK n \in DOMAIN toHost : /\ Become(HandleData(session, SubSeq(toHost, 1, n)))
                                 /\ toHost' = SubSeq(toHost, n + 1, Len(toHost))
  BY DEF HostReadsTokens
<1>. DEFINE tokens == SubSeq(toHost, 1, n)
            q == HandleData(session, tokens)
<1>2. /\ toHost \in Seq(Tokens) /\ DOMAIN toHost = 1 .. Len(toHost) /\ Len(toHost) \in Nat /\ toRemote \in Seq(Words)
      /\ n \in 1 .. Len(toHost) /\ n \in Nat /\ FieldsOK(session) /\ session.reply = <<>> /\ UNCHANGED <<sender, next>>
  BY LenProperties DEF ReceiveTypes, HostReadsTokens
<1>3. tokens \in Seq(Tokens) /\ Len(tokens) = n /\ \A i \in 1 .. n : tokens[i] = toHost[i]
  <2>1. n \in 1 .. n
    BY <1>2
  <2>. QED BY <1>2, <2>1, FrontIs
<1>4. CASE q = session
  <2>1. session' = session /\ toRemote' = toRemote
    <3>1. session' = [session EXCEPT !.reply = <<>>] /\ toRemote' = toRemote \o session.reply
      BY <1>1, <1>4 DEF Become
    <3>2. [session EXCEPT !.reply = <<>>] = session
      BY <1>2 DEF FieldsOK, SessionType
    <3>. QED BY <1>2, <3>1, <3>2, ConcatEmptySeq
  <2>. DEFINE p == [i \in 1 .. Len(toHost) - n |-> n + i]
  <2>2. /\ DOMAIN toHost' = 1 .. Len(toHost) - n
        /\ \A i \in 1 .. Len(toHost) - n : toHost'[i] = toHost[n + i] /\ n + i \in DOMAIN toHost
    BY <1>1, <1>2, RestIs
  <2>3. \A i \in DOMAIN toHost' : p[i] = n + i /\ p[i] \in DOMAIN toHost /\ p[i] >= i /\ toHost'[i] = toHost[p[i]]
    BY <1>2, <2>2
  <2>4. \A i, j \in DOMAIN toHost' : p[i] = p[j] => i = j
    BY <1>2, <2>2
  <2>5. toHost # <<>> /\ p \in [DOMAIN toHost' -> DOMAIN toHost]
    BY <1>2, <2>2
  <2>. HIDE DEF p
  <2>. QED BY <1>2, <2>1, <2>3, <2>4, <2>5, LineShrinks
<1>5. CASE q # session
  <2>0. session.outcome = "none" /\ KeepsPrefix(session) /\ AtBlock(session, next)
        /\ TokensAt(toHost, session.buf, next)
    <3>1. session.state # "idle"
      BY <1>5 DEF HandleData
    <3>2. session.outcome = "none" /\ KeepsPrefix(session)
      BY <3>1 DEF Alternate, KeepsPrefix
    <3>. QED BY <3>2 DEF Alternate, InSequence
  <2>1. CASE \E f : /\ session.state = "receiving" /\ q = f[Len(tokens)]
                    /\ Runs(f, session, tokens, Len(tokens))
    <3>1. PICK f : q = f[n] /\ Runs(f, session, tokens, n) /\ session.state = "receiving"
      BY <1>3, <2>1
    <3>2. session \in Sessions /\ 0 \in Nat /\ 0 + Len(tokens) <= Len(toHost) /\ 0 + 2 = 2
          /\ \A i \in 1 .. Len(tokens) : tokens[i] = toHost[0 + i]
      BY <1>2, <1>3 DEF Sessions, FieldsOK
    <3>. HIDE DEF q, tokens
    <3>3. Between(session, 0)
      BY <1>2, <2>0, <3>1 DEF Between, TokensAt
    <3>4. /\ Between(q, 0 + n)
          /\ ~PlainBuf(session.buf) /\ NoLead(toHost, 1) => q = session \/ q.outcome # "none"
      BY <1>2, <1>3, <2>0, <3>1, <3>2, <3>3, RunAlternates DEF TokensAt
    <3>5. Between(q, n) /\ Become(q)
      BY <1>1, <1>2, <3>4 DEF q, tokens
    <3>. QED BY <1>1, <1>2, <2>0, <3>4, <3>5, ReadEnds
  <2>2. CASE \E f : \E at \in 1 .. Len(tokens) :
              /\ session.state = "waiting" /\ Wakes(tokens[at]) /\ From(tokens, at + 1) \in Seq(Tokens)
              /\ q = f[Len(From(tokens, at + 1))]
              /\ Runs(f, Woke(session, tokens[at]), From(tokens, at + 1), Len(From(tokens, at + 1)))
    <3>9. PICK f : \E at \in 1 .. Len(tokens) :
              /\ session.state = "waiting" /\ Wakes(tokens[at]) /\ From(tokens, at + 1) \in Seq(Tokens)
              /\ q = f[Len(From(tokens, at + 1))]
              /\ Runs(f, Woke(session, tokens[at]), From(tokens, at + 1), Len(From(tokens, at + 1)))
      BY <2>2
    <3>10. PICK at \in 1 .. Len(tokens) :
              /\ session.state = "waiting" /\ Wakes(tokens[at]) /\ From(tokens, at + 1) \in Seq(Tokens)
              /\ q = f[Len(From(tokens, at + 1))]
              /\ Runs(f, Woke(session, tokens[at]), From(tokens, at + 1), Len(From(tokens, at + 1)))
      BY <3>9
    <3>. DEFINE u == From(tokens, at + 1)  r == Woke(session, toHost[at])
    <3>1. /\ session.state = "waiting" /\ u \in Seq(Tokens) /\ q = f[Len(u)] /\ at \in 1 .. n
          /\ tokens[at] = toHost[at] /\ Wakes(toHost[at]) /\ Runs(f, r, u, Len(u))
      BY <1>3, <3>10
    <3>2. Len(u) = n - at /\ \A i \in 1 .. n - at : u[i] = toHost[at + i]
      <4>1. at + 1 \in 1 .. n + 1 /\ (at + 1) - 1 = at
        BY <1>2, <3>1
      <4>. QED BY <1>2, <4>1, FrontIs DEF From
    <3>3. r \in Sessions /\ Between(r, at) /\ ~NoLead(toHost, 1)
      <4>1. at \in DOMAIN toHost /\ toHost[at] \in Tokens
        BY <1>2, <3>1, ElementOfSeq
      <4>2. Between(r, at) /\ ~NoLead(toHost, 1)
        BY <2>0, <3>1, <4>1, WokeAlternates DEF TokensAt
      <4>3. r \in Sessions
        BY <1>2, <3>1, <4>1, WokeIs
      <4>. QED BY <4>2, <4>3
    <3>. HIDE DEF u, r
    <3>4. at \in Nat /\ at + Len(u) = n /\ at + Len(u) <= Len(toHost)
      BY <1>2, <3>1, <3>2
    <3>. HIDE DEF q, tokens
    <3>5. Between(q, at + Len(u))
      <4>1. OneLead(toHost) /\ \A k \in DOMAIN toHost : OfBlock(toHost[k], next)
        BY <2>0 DEF TokensAt
      <4>. QED BY <3>1, <3>2, <3>3, <3>4, <4>1, RunAlternates
    <3>6. Between(q, n) /\ Become(q)
      BY <1>1, <3>4, <3>5 DEF q, tokens
    <3>. QED BY <1>1, <1>2, <2>0, <3>3, <3>6, ReadEnds
  <2>. QED BY <1>2, <1>3, <1>5, <2>1, <2>2, HandleDataIs
<1>. QED BY <1>4, <1>5

\* The sender goes on to a block, or sends one again.
LEMMA SendBlockAlternates ==
  ASSUME ReceiveTypes, Alternate, session.outcome = "none", UNCHANGED session,
         TokensAt(toHost, session.buf, next), NoLead(toHost, 1), toHost = <<>> \/ ~PlainBuf(session.buf),
         toRemote' = <<>>, NEW b \in 1 .. Blocks + 1, SendBlock(b), AtBlock(session, b)
  PROVE  Alternate'
<1>. DEFINE w == IF b <= Blocks THEN PacketOf(b) ELSE <<EotByte>>
<1>0. toHost \in Seq(Tokens) /\ Blocks \in Nat \ {0} /\ b \in Nat
      /\ Len(toHost) \in Nat /\ DOMAIN toHost = 1 .. Len(toHost)
  BY ReceiveAssumption, LenProperties DEF ReceiveTypes
<1>1. /\ w \in Seq(Tokens) /\ Len(w) \in 1 .. 3 /\ Lead(w[1]) /\ OfBlock(w[1], b)
      /\ \A k \in 2 .. Len(w) : ~Lead(w[k]) /\ OfBlock(w[k], b)
  <2>1. CASE b <= Blocks
    <3>0. b \in 1 .. Blocks
      BY <1>0, <2>1
    <3>1. /\ w \in Seq(Tokens) /\ Len(w) \in 2 .. 3 /\ w[1] = HeadOf(b)
          /\ \A k \in 2 .. Len(w) : w[k] = TailByte
      BY <2>1, <3>0, PacketIs
    <3>2. /\ HeadOf(b) \in Tokens /\ IsHead(HeadOf(b)) /\ HeadOf(b).data = b /\ HeadOf(b).num = b % BlockMod
          /\ ~Lead(TailByte)
      BY <3>0, TokensOK
    <3>3. Lead(HeadOf(b)) /\ OfBlock(HeadOf(b), b) /\ ~Lead(TailByte) /\ OfBlock(TailByte, b)
      BY <3>2 DEF Lead, OfBlock, EndsFile
    <3>. HIDE DEF w
    <3>. QED BY <3>1, <3>3
  <2>2. CASE ~(b <= Blocks)
    <3>1. w = <<EotByte>> /\ b = Blocks + 1
      BY <1>0, <2>2
    <3>2. EotByte \in Tokens /\ EndsFile(EotByte) /\ ~IsHead(EotByte)
      BY TokensOK
    <3>3. Lead(EotByte) /\ OfBlock(EotByte, b)
      BY <3>1, <3>2 DEF Lead, OfBlock
    <3>4. w \in Seq(Tokens) /\ Len(w) = 1 /\ w[1] = EotByte
      <4>1. \A t \in Tokens : <<t>> \in Seq(Tokens) /\ Len(<<t>>) = 1 /\ <<t>>[1] = t
        OBVIOUS
      <4>. HIDE DEF w
      <4>. QED BY <3>1, <3>2, <4>1
    <3>. HIDE DEF w
    <3>. QED BY <3>3, <3>4
  <2>. QED BY <2>1, <2>2
<1>2. toHost' = toHost \o w /\ next' = b /\ sender' \in {"sending", "eot"} /\ (sender' = "eot" => b = Blocks + 1)
  BY <1>0 DEF SendBlock
<1>. HIDE DEF w
<1>3. /\ Len(toHost') = Len(toHost) + Len(w) /\ DOMAIN toHost' = 1 .. Len(toHost) + Len(w)
      /\ \A k \in 1 .. Len(toHost) + Len(w) : toHost'[k] = IF k <= Len(toHost) THEN toHost[k] ELSE w[k - Len(toHost)]
  BY <1>0, <1>1, <1>2, ConcatProperties, LenProperties
<1>4. ASSUME NEW k \in DOMAIN toHost'
      PROVE  OfBlock(toHost'[k], b) /\ (Lead(toHost'[k]) => k = Len(toHost) + 1)
  <2>1. CASE k <= Len(toHost)
    <3>1. toHost'[k] = toHost[k] /\ k \in DOMAIN toHost /\ ~Lead(toHost[k])
      BY <1>0, <1>3, <1>4, <2>1 DEF NoLead
    <3>2. OfBlock(toHost[k], b)
      BY <3>1 DEF OfBlock, Lead
    <3>. QED BY <3>1, <3>2
  <2>2. CASE ~(k <= Len(toHost))
    <3>1. toHost'[k] = w[k - Len(toHost)] /\ (k - Len(toHost) = 1 \/ k - Len(toHost) \in 2 .. Len(w))
      BY <1>0, <1>1, <1>3, <1>4, <2>2
    <3>2. k - Len(toHost) = 1 => k = Len(toHost) + 1
      BY <1>0, <1>3, <1>4
    <3>. QED BY <1>1, <3>1, <3>2
  <2>. QED BY <2>1, <2>2
<1>5. TokensAt(toHost', session.buf, b)
  <2>1. OneLead(toHost')
    BY <1>4 DEF OneLead
  <2>2. ASSUME PlainBuf(session.buf) PROVE NoLead(toHost', 2)
    <3>1. Len(toHost) = 0
      BY <2>2
    <3>. QED BY <1>4, <3>1 DEF NoLead
  <2>. QED BY <1>4, <2>1, <2>2 DEF TokensAt
<1>6. RepliesAt(toRemote', toHost', session.buf, session.expected, b)
  BY DEF RepliesAt
<1>7. KeepsPrefix(session)'
  BY DEF Alternate, KeepsPrefix
<1>8. InSequence'
  <2>1. AtBlock(session', next') /\ TokensAt(toHost', session'.buf, next') /\ SenderAt(sender', next')
    BY <1>2, <1>5 DEF SenderAt
  <2>2. RepliesAt(toRemote', toHost', session'.buf, session'.expected, next')
    BY <1>2, <1>6
  <2>. QED BY <2>1, <2>2 DEF InSequence
<1>. QED BY <1>7, <1>8 DEF Alternate

LEMMA SenderAlternates ==
  ASSUME ReceiveTypes, Alternate, SenderReads
  PROVE  Alternate'
<1>0. /\ toRemote # <<>> /\ sender # "dead" /\ toRemote' = Tail(toRemote) /\ UNCHANGED session
      /\ toRemote \in Seq(Words) /\ next \in 1 .. Blocks + 1 /\ Blocks \in Nat \ {0}
      /\ session \in SessionType /\ (sender = "sending" => next <= Blocks)
  BY ReceiveAssumption DEF SenderReads, ReceiveTypes, FieldsOK
<1>1. KeepsPrefix(session)'
  BY <1>0 DEF Alternate, KeepsPrefix
<1>2. CASE session.outcome # "none"
  BY <1>0, <1>1, <1>2 DEF Alternate, InSequence
<1>3. CASE session.outcome = "none"
  <2>. DEFINE answer == Head(toRemote)
  <2>1. /\ AtBlock(session, next) /\ TokensAt(toHost, session.buf, next) /\ SenderAt(sender, next)
        /\ RepliesAt(toRemote, toHost, session.buf, session.expected, next)
    BY <1>0, <1>3 DEF Alternate, InSequence
  <2>2. NoLead(toHost, 1) /\ (toHost = <<>> \/ ~PlainBuf(session.buf))
    BY <1>0, <2>1 DEF RepliesAt
  <2>3. toRemote' = <<>> /\ answer = toRemote[1] /\ 1 \in DOMAIN toRemote
    <3>1. Len(toRemote) = 1 /\ 1 \in DOMAIN toRemote
      <4>1. Len(toRemote) \in Nat /\ Len(toRemote) # 0 /\ DOMAIN toRemote = 1 .. Len(toRemote)
        BY <1>0, EmptySeq, LenProperties
      <4>2. Len(toRemote) <= 1
        BY <2>1 DEF RepliesAt
      <4>. QED BY <4>1, <4>2
    <3>2. answer = toRemote[1] /\ toRemote' \in Seq(Words) /\ Len(toRemote') = 0
      BY <1>0, <3>1, HeadTailProperties
    <3>. QED BY <3>1, <3>2, EmptySeq
  <2>4. answer # "can" /\ (answer = "ack" => session.expected = next + 1 /\ ~PlainBuf(session.buf))
    BY <2>1, <2>3 DEF RepliesAt
  <2>5. ASSUME NEW b \in 1 .. Blocks + 1, SendBlock(b), AtBlock(session, b) PROVE Alternate'
    BY <1>0, <1>3, <2>1, <2>2, <2>3, <2>5, SendBlockAlternates
  <2>6. CASE sender = "ready" /\ answer = "nak" /\ SendBlock(1)
    <3>1. next = 1 /\ 1 \in 1 .. Blocks + 1
      BY <1>0, <2>1, <2>6 DEF SenderAt
    <3>. QED BY <2>1, <2>5, <2>6, <3>1
  <2>7. CASE sender = "sending" /\ answer = "ack" /\ SendBlock(next + 1)
    <3>1. next + 1 \in 1 .. Blocks + 1
      BY <1>0, <2>7
    <3>2. AtBlock(session, next + 1)
      BY <1>0, <2>1, <2>4, <2>7 DEF AtBlock
    <3>. QED BY <2>5, <2>7, <3>1, <3>2
  <2>8. CASE answer = "nak" /\ SendBlock(next)
    BY <1>0, <2>1, <2>5, <2>8
  <2>9. sender = "eot" => answer # "ack"
    BY <1>0, <2>1, <2>4 DEF AtBlock, SenderAt
  <2>10. CASE UNCHANGED <<toHost, sender, next>>
    <3>1. RepliesAt(toRemote', toHost', session'.buf, session'.expected, next')
      BY <2>3 DEF RepliesAt
    <3>2. InSequence'
      BY <1>0, <2>1, <2>10, <3>1 DEF InSequence
    <3>. QED BY <1>1, <3>2 DEF Alternate
  <2>. QED BY <2>4, <2>6, <2>7, <2>8, <2>9, <2>10 DEF SenderReads
<1>. QED BY <1>2, <1>3

LEMMA TimeoutAlternates ==
  ASSUME ReceiveTypes, Alternate, Timeout, Quiet
  PROVE  Alternate'
<1>0. /\ FieldsOK(session) /\ session \in SessionType /\ session.reply = <<>> /\ toRemote \in Seq(Words)
      /\ session.state # "idle" /\ Become(TimedOut(session)) /\ UNCHANGED <<toHost, sender, next>>
      /\ toHost = <<>> /\ (toRemote = <<>> \/ sender = "dead")
  BY DEF ReceiveTypes, FieldsOK, Timeout, Quiet
<1>. DEFINE q == TimedOut(session)
<1>1. /\ FieldsOK(q)
      /\ toRemote' = toRemote \o q.reply
      /\ session'.state = q.state /\ session'.path = q.path /\ session'.expected = q.expected
      /\ session'.buf = q.buf /\ session'.written = q.written /\ session'.outcome = q.outcome
  BY <1>0, TimedOutIs, BecomeIs
<1>2. ASSUME NEW answer \in Seq(Replies), q = Ended(session, "ended", answer) PROVE Alternate'
  <2>1. q.written = session.written /\ q.outcome = "ended" /\ q.state = "idle"
    BY <1>0, <1>2, EndedIs
  <2>. HIDE DEF q
  <2>2. KeepsPrefix(session)
    BY DEF Alternate
  <2>3. session'.written = session.written /\ session'.outcome = "ended" /\ session'.state = "idle"
    BY <1>1, <2>1
  <2>. QED BY <2>2, <2>3, EndsAlternate
<1>3. CASE /\ q.reply = Append(session.reply, "nak") /\ q.state = session.state
           /\ q.path = session.path /\ q.buf = session.buf /\ q.outcome = session.outcome
           /\ q.written = session.written /\ q.expected = session.expected
  <2>. HIDE DEF q
  <2>1. session.outcome = "none"
    BY <1>0 DEF Alternate, KeepsPrefix
  <2>2. /\ AtBlock(session, next) /\ TokensAt(toHost, session.buf, next) /\ SenderAt(sender, next)
    BY <2>1 DEF Alternate, InSequence
  <2>3. KeepsPrefix(session)'
    BY <1>1, <1>3, <2>1 DEF Alternate, KeepsPrefix
  <2>4. AtBlock(session', next') /\ TokensAt(toHost', session'.buf, next') /\ SenderAt(sender', next')
    BY <1>0, <1>1, <1>3, <2>2 DEF AtBlock
  <2>5. ASSUME sender # "dead"
        PROVE  RepliesAt(toRemote', toHost', session'.buf, session'.expected, next')
    <3>1. toRemote' = <<"nak">>
      <4>1. q.reply = <<"nak">> /\ toRemote = <<>>
        BY <1>0, <1>3, <2>5
      <4>. QED BY <1>1, <4>1
    <3>2. toHost' = <<>> /\ DOMAIN toHost' = {}
      BY <1>0
    <3>3. NoLead(toHost', 1)
      BY <3>2 DEF NoLead
    <3>4. Len(toRemote') = 1 /\ DOMAIN toRemote' = {1} /\ toRemote'[1] = "nak"
      BY <3>1
    <3>. QED BY <3>2, <3>3, <3>4 DEF RepliesAt
  <2>6. InSequence'
    BY <1>0, <2>4, <2>5 DEF InSequence
  <2>. QED BY <2>3, <2>6 DEF Alternate
<1>4. \/ \E answer \in Seq(Replies) : q = Ended(session, "ended", answer)
      \/ /\ q.reply = Append(session.reply, "nak") /\ q.state = session.state
         /\ q.path = session.path /\ q.buf = session.buf /\ q.outcome = session.outcome
         /\ q.written = session.written /\ q.expected = session.expected
  <2>1. \/ \E answer \in Seq(Replies) : TimedOut(session) = Ended(session, "ended", answer)
        \/ TimedOut(session) = Naked(session) /\ Naked(session).reply = Append(session.reply, "nak")
           /\ Naked(session).state = session.state
           /\ Naked(session).path = session.path /\ Naked(session).buf = session.buf
           /\ Naked(session).outcome = session.outcome
           /\ Naked(session).written = session.written /\ Naked(session).expected = session.expected
    BY <1>0, TimedOutIs
  <2>. QED BY <2>1
<1>. QED BY <1>2, <1>3, <1>4

LEMMA UserAlternates ==
  ASSUME ReceiveTypes, Alternate, PathFirst, ReceiveUser
  PROVE  Alternate'
<1>0. /\ FieldsOK(session) /\ session \in SessionType /\ session.reply = <<>> /\ toRemote \in Seq(Words)
      /\ KeepsPrefix(session) /\ (session.outcome = "none" => AtBlock(session, next))
  BY DEF ReceiveTypes, FieldsOK, Alternate, InSequence
<1>1. ASSUME NEW r, FieldsOK(r), Become(r), UNCHANGED <<toHost, sender, next>>, r.reply = <<>>,
             r.outcome = session.outcome, r.written = session.written, r.expected = session.expected,
             r.buf = session.buf, r.state = "waiting", r.path, session.outcome = "none",
             session.expected = 1, session.buf = <<>>
      PROVE  Alternate'
  <2>1. /\ toRemote' = toRemote
        /\ session'.state = r.state /\ session'.path = r.path /\ session'.expected = r.expected
        /\ session'.buf = r.buf /\ session'.written = r.written /\ session'.outcome = r.outcome
    <3>1. toRemote' = toRemote \o r.reply
      BY <1>0, <1>1, BecomeIs
    <3>2. toRemote' = toRemote
      BY <1>0, <1>1, <3>1, ConcatEmptySeq
    <3>. QED BY <1>0, <1>1, <3>2, BecomeIs
  <2>2. KeepsPrefix(session)'
    BY <1>0, <1>1, <2>1 DEF KeepsPrefix
  <2>3. AtBlock(session', next')
    BY <1>0, <1>1, <2>1 DEF AtBlock
  <2>4. InSequence'
    <3>1. /\ TokensAt(toHost, session.buf, next) /\ SenderAt(sender, next)
          /\ sender # "dead" => RepliesAt(toRemote, toHost, session.buf, session.expected, next)
      BY <1>1 DEF Alternate, InSequence
    <3>2. /\ TokensAt(toHost', session'.buf, next') /\ SenderAt(sender', next')
          /\ sender' # "dead" => RepliesAt(toRemote', toHost', session'.buf, session'.expected, next')
      BY <1>1, <2>1, <3>1
    <3>. QED BY <2>3, <3>2 DEF InSequence
  <2>. QED BY <2>2, <2>4 DEF Alternate
<1>2. CASE StartReceive
  <2>. DEFINE r == [session EXCEPT !.state = "waiting", !.expected = 1, !.buf = <<>>, !.retries = 0]
  <2>1. /\ session.state # "receiving" /\ session.outcome = "none" /\ session.path /\ Become(r)
        /\ UNCHANGED <<toHost, sender, next>>
    BY <1>2 DEF StartReceive
  <2>2. session.expected = 1 /\ session.buf = <<>>
    BY <1>0, <2>1 DEF AtBlock
  <2>3. /\ r.reply = <<>> /\ r.outcome = session.outcome /\ r.written = session.written /\ r.path = session.path
        /\ r.state = "waiting" /\ r.expected = 1 /\ r.buf = <<>>
    BY <1>0 DEF SessionType
  <2>4. FieldsOK(r)
    BY <1>0, RestartOK
  <2>. HIDE DEF r
  <2>. QED BY <1>1, <2>1, <2>2, <2>3, <2>4
<1>3. CASE SetSavePath
  <2>. DEFINE s == [session EXCEPT !.path = TRUE]
              r == [s EXCEPT !.state = "waiting"]
  <2>0. ~session.path /\ session.outcome = "none" /\ UNCHANGED <<toHost, sender, next>>
    BY <1>3 DEF SetSavePath
  <2>1. session.expected = 1 /\ session.buf = <<>>
    BY <1>0, <2>0 DEF AtBlock
  <2>2. s.buf = session.buf
    BY <1>0 DEF SessionType
  <2>3. Become(r)
    <3>1. Become(IF s.buf # <<>>
                 THEN HandleReceiveData(Opened(s), s.buf) ELSE r)
      BY <1>3 DEF SetSavePath
    <3>. HIDE DEF s, r
    <3>. QED BY <2>1, <2>2, <3>1
  <2>4. /\ r.reply = <<>> /\ r.outcome = session.outcome /\ r.written = session.written
        /\ r.state = "waiting" /\ r.expected = session.expected /\ r.buf = session.buf
    BY <1>0 DEF SessionType
  <2>5. r.path
    <3>1. r.path = TRUE
      BY <1>0 DEF SessionType
    <3>. QED BY <3>1
  <2>6. FieldsOK(r)
    BY <1>0, RestartOK
  <2>. HIDE DEF r
  <2>. QED BY <1>1, <2>0, <2>1, <2>3, <2>4, <2>5, <2>6
<1>4. CASE CancelReceive \/ DestroyReceive
  <2>1. PICK answer \in {<<>>, <<"can">>} : Become(Ended(session, "ended", answer))
    BY <1>4 DEF CancelReceive, DestroyReceive
  <2>2. answer \in Seq(Replies)
    <3>1. <<>> \in Seq(Replies) /\ <<"can">> \in Seq(Replies)
      BY DEF Replies
    <3>. QED BY <2>1, <3>1
  <2>. DEFINE q == Ended(session, "ended", answer)
  <2>3. FieldsOK(q) /\ q.written = session.written /\ q.outcome = "ended" /\ q.state = "idle"
    BY <1>0, <2>2, EndedIs
  <2>4. Become(q)
    BY <2>1
  <2>. HIDE DEF q
  <2>5. session'.written = session.written /\ session'.outcome = "ended" /\ session'.state = "idle"
    BY <1>0, <2>3, <2>4, BecomeIs
  <2>. QED BY <1>0, <2>5, EndsAlternate
<1>. QED BY <1>2, <1>3, <1>4 DEF ReceiveUser

LEMMA LineAlternates ==
  ASSUME ReceiveTypes, ReceiveTypes', Alternate, ReceiveLine
  PROVE  Alternate'
<1>0. /\ toHost \in Seq(Tokens) /\ toRemote \in Seq(Words) /\ DOMAIN toHost = 1 .. Len(toHost) /\ Len(toHost) \in Nat
      /\ DOMAIN toRemote = 1 .. Len(toRemote) /\ Len(toRemote) \in Nat
      /\ DOMAIN toHost' = 1 .. Len(toHost') /\ DOMAIN toRemote' = 1 .. Len(toRemote')
      /\ UNCHANGED <<session, sender, next>>
  BY LenProperties DEF ReceiveTypes, ReceiveLine, CorruptToken, CorruptReply, LoseToken, LoseReply
<1>8. ASSUME NEW k \in DOMAIN toHost, NEW u \in Tokens, toHost' = [toHost EXCEPT ![k] = u], UNCHANGED toRemote,
             Lead(u) => Lead(toHost[k]), OfBlock(toHost[k], next) => OfBlock(u, next)
      PROVE  Alternate'
  <2>1. Len(toHost') = Len(toHost) /\ \A i \in 1 .. Len(toHost) : toHost'[i] = IF i = k THEN u ELSE toHost[i]
    BY <1>0, <1>8, ExceptSeq
  <2>. DEFINE p == [i \in 1 .. Len(toHost) |-> i]
  <2>2. \A i \in DOMAIN toHost' : p[i] = i /\ i \in DOMAIN toHost /\ i >= i
    BY <1>0, <2>1
  <2>3. /\ \A i \in DOMAIN toHost' : Lead(toHost'[i]) => Lead(toHost[i])
        /\ \A i \in DOMAIN toHost' : OfBlock(toHost[i], next) => OfBlock(toHost'[i], next)
    BY <1>0, <1>8, <2>1
  <2>4. toHost # <<>>
    <3>1. Len(toHost) # 0
      BY <1>0
    <3>. QED BY <1>0, <3>1, EmptySeq
  <2>. HIDE DEF p
  <2>5. /\ \A i \in DOMAIN toHost' : p[i] \in DOMAIN toHost /\ p[i] >= i
        /\ \A i, j \in DOMAIN toHost' : p[i] = p[j] => i = j
    BY <2>2
  <2>6. /\ \A i \in DOMAIN toHost' : Lead(toHost'[i]) => Lead(toHost[p[i]])
        /\ \A i \in DOMAIN toHost' : OfBlock(toHost[p[i]], next) => OfBlock(toHost'[i], next)
    BY <2>2, <2>3
  <2>7. UNCHANGED <<session, toRemote, sender, next>>
    BY <1>0, <1>8
  <2>8. (toHost = <<>> => toHost' = <<>>) /\ p \in [DOMAIN toHost' -> DOMAIN toHost]
    BY <1>0, <2>1, <2>4 DEF p
  <2>. QED BY <2>5, <2>6, <2>7, <2>8, LineShrinks
<1>1. CASE CorruptToken
  <2>0. PICK k \in DOMAIN toHost : \E u \in Damaged(toHost[k]) : toHost' = [toHost EXCEPT ![k] = u]
    BY <1>1 DEF CorruptToken
  <2>1. PICK u \in Damaged(toHost[k]) : toHost' = [toHost EXCEPT ![k] = u]
    BY <2>0
  <2>2. /\ u \in Tokens /\ (Lead(u) => Lead(toHost[k])) /\ ~EndsFile(u)
        /\ IsHead(u) => /\ IsHead(toHost[k]) /\ u.data = toHost[k].data /\ u.num = toHost[k].num
                        /\ (u.form = "sound" => toHost[k].form = "sound")
    BY <1>0, <2>1, ElementOfSeq, DamagedIs
  <2>3. OfBlock(toHost[k], next) => OfBlock(u, next)
    BY <2>2 DEF OfBlock
  <2>4. UNCHANGED toRemote
    BY <1>1 DEF CorruptToken
  <2>. QED BY <1>8, <2>1, <2>2, <2>3, <2>4
<1>7. CASE LoseToken /\ \E k \in DOMAIN toHost :
              /\ IsHead(toHost[k])
              /\ \/ toHost' = [toHost EXCEPT ![k].first = "none"]
                 \/ toHost' = [toHost EXCEPT ![k].form = "short"]
  <2>1. PICK k \in DOMAIN toHost :
              /\ IsHead(toHost[k])
              /\ \/ toHost' = [toHost EXCEPT ![k].first = "none"]
                 \/ toHost' = [toHost EXCEPT ![k].form = "short"]
    BY <1>7
  <2>. DEFINE Parts == {[toHost[k] EXCEPT !.first = "none"], [toHost[k] EXCEPT !.form = "short"]}
  <2>2. PICK u \in Parts : toHost' = [toHost EXCEPT ![k] = u]
    BY <2>1
  <2>3. /\ u \in Tokens /\ IsHead(u) /\ u.data = toHost[k].data /\ u.num = toHost[k].num
        /\ (u.form = "sound" => toHost[k].form = "sound")
    <3>1. toHost[k] \in Tokens
      BY <1>0, ElementOfSeq
    <3>. QED BY <2>1, <2>2, <3>1, PartIs
  <2>. HIDE DEF Parts
  <2>4. /\ Lead(u) => Lead(toHost[k])
        /\ OfBlock(toHost[k], next) => OfBlock(u, next)
    BY <2>1, <2>3 DEF Lead, OfBlock, EndsFile
  <2>5. UNCHANGED toRemote
    BY <1>7 DEF LoseToken
  <2>. QED BY <1>8, <2>2, <2>3, <2>4, <2>5
<1>2. CASE LoseToken /\ \E k \in DOMAIN toHost : toHost' = Without(toHost, k)
  <2>1. PICK k \in DOMAIN toHost : toHost' = Without(toHost, k)
    BY <1>2
  <2>2. Len(toHost') = Len(toHost) - 1
        /\ \A i \in 1 .. Len(toHost) - 1 : toHost'[i] = IF i < k THEN toHost[i] ELSE toHost[i + 1]
    BY <1>0, <2>1, WithoutIs
  <2>. DEFINE p == [i \in 1 .. Len(toHost) - 1 |-> IF i < k THEN i ELSE i + 1]
  <2>3. \A i \in DOMAIN toHost' : p[i] \in DOMAIN toHost /\ p[i] >= i /\ toHost'[i] = toHost[p[i]]
    <3>1. ASSUME NEW i \in DOMAIN toHost' PROVE p[i] \in DOMAIN toHost /\ p[i] >= i /\ toHost'[i] = toHost[p[i]]
      BY <1>0, <2>2
    <3>. QED BY <3>1
  <2>4. \A i, j \in DOMAIN toHost' : p[i] = p[j] => i = j
    BY <1>0, <2>2
  <2>5. UNCHANGED toRemote /\ toHost # <<>>
    <3>1. UNCHANGED toRemote
      BY <1>2 DEF LoseToken
    <3>2. Len(toHost) # 0
      BY <1>0
    <3>. QED BY <1>0, <3>1, <3>2, EmptySeq
  <2>6. p \in [DOMAIN toHost' -> DOMAIN toHost]
    BY <1>0, <2>2
  <2>. HIDE DEF p
  <2>. QED BY <1>0, <2>3, <2>4, <2>5, <2>6, LineShrinks
<1>3. ASSUME UNCHANGED toHost, Len(toRemote') <= Len(toRemote),
             \A i \in DOMAIN toRemote' : toRemote'[i] = "junk" \/ \E j \in DOMAIN toRemote : toRemote'[i] = toRemote[j]
      PROVE  Alternate'
  <2>1. KeepsPrefix(session)'
    BY <1>0 DEF Alternate, KeepsPrefix
  <2>2. ASSUME session.outcome = "none", sender # "dead"
        PROVE  RepliesAt(toRemote', toHost, session.buf, session.expected, next)
    <3>1. RepliesAt(toRemote, toHost, session.buf, session.expected, next)
      BY <2>2 DEF Alternate, InSequence
    <3>2. Len(toRemote') <= 1
      <4>1. Len(toRemote') \in Nat
        BY LenProperties DEF ReceiveTypes
      <4>. QED BY <1>0, <1>3, <3>1, <4>1 DEF RepliesAt
    <3>3. toRemote' # <<>> => toRemote # <<>>
      <4>1. ASSUME toRemote = <<>> PROVE toRemote' = <<>>
        <5>1. Len(toRemote') = 0 /\ toRemote' \in Seq(Words)
          BY <1>3, <4>1, LenProperties DEF ReceiveTypes
        <5>. QED BY <5>1, EmptySeq
      <4>. QED BY <4>1
    <3>4. \A i \in DOMAIN toRemote' :
            toRemote'[i] # "can" /\ (toRemote'[i] = "ack" => session.expected = next + 1 /\ ~PlainBuf(session.buf))
      BY <1>3, <3>1 DEF RepliesAt
    <3>. QED BY <3>1, <3>2, <3>3, <3>4 DEF RepliesAt
  <2>3. InSequence'
    BY <1>0, <1>3, <2>2 DEF Alternate, InSequence
  <2>. QED BY <2>1, <2>3 DEF Alternate
<1>4. CASE CorruptReply
  <2>1. PICK k \in DOMAIN toRemote : toRemote' = [toRemote EXCEPT ![k] = "junk"]
    BY <1>4 DEF CorruptReply
  <2>2. "junk" \in Words
    BY DEF Words
  <2>3. Len(toRemote') = Len(toRemote)
        /\ \A j \in 1 .. Len(toRemote) : toRemote'[j] = IF j = k THEN "junk" ELSE toRemote[j]
    BY <1>0, <2>1, <2>2, ExceptSeq
  <2>4. \A i \in DOMAIN toRemote' : toRemote'[i] = "junk" \/ \E j \in DOMAIN toRemote : toRemote'[i] = toRemote[j]
    BY <1>0, <2>3
  <2>5. UNCHANGED toHost
    BY <1>4 DEF CorruptReply
  <2>. QED BY <1>0, <1>3, <2>3, <2>4, <2>5
<1>5. CASE LoseReply
  <2>1. PICK k \in DOMAIN toRemote : toRemote' = Without(toRemote, k)
    BY <1>5 DEF LoseReply
  <2>2. Len(toRemote') = Len(toRemote) - 1
        /\ \A i \in 1 .. Len(toRemote) - 1 : toRemote'[i] = IF i < k THEN toRemote[i] ELSE toRemote[i + 1]
    BY <1>0, <2>1, WithoutIs
  <2>3. \A i \in DOMAIN toRemote' : toRemote'[i] = "junk" \/ \E j \in DOMAIN toRemote : toRemote'[i] = toRemote[j]
    <3>1. ASSUME NEW i \in DOMAIN toRemote' PROVE \E j \in DOMAIN toRemote : toRemote'[i] = toRemote[j]
      <4>1. i \in DOMAIN toRemote /\ i + 1 \in DOMAIN toRemote /\ toRemote'[i] \in {toRemote[i], toRemote[i + 1]}
        BY <1>0, <2>2
      <4>. QED BY <4>1
    <3>. QED BY <3>1
  <2>4. Len(toRemote') <= Len(toRemote) /\ UNCHANGED toHost
    BY <1>0, <1>5, <2>2 DEF LoseReply
  <2>. QED BY <1>3, <2>3, <2>4
<1>. QED BY <1>1, <1>2, <1>4, <1>5, <1>7 DEF ReceiveLine, LoseToken

LEMMA AlternateInitially == ReceiveInit => Alternate
<1>. SUFFICES ASSUME ReceiveInit PROVE Alternate
  OBVIOUS
<1>1. Len(<<>>) = 0 /\ DOMAIN <<>> = {} /\ Blocks \in Nat \ {0}
  BY ReceiveAssumption
<1>2. /\ session.written = <<>> /\ session.outcome = "none" /\ session.state = "idle" /\ session.path = FALSE
      /\ session.expected = 1 /\ session.buf = <<>> /\ toHost = <<>> /\ toRemote = <<>>
      /\ sender = "ready" /\ next = 1
  BY DEF ReceiveInit
<1>3. KeepsPrefix(session)
  BY <1>1, <1>2 DEF KeepsPrefix
<1>4. AtBlock(session, next) /\ SenderAt(sender, next)
  BY <1>1, <1>2, EmptyIsNotPlain DEF AtBlock, SenderAt
<1>5. TokensAt(toHost, session.buf, next) /\ RepliesAt(toRemote, toHost, session.buf, session.expected, next)
  BY <1>1, <1>2, EmptyIsNotPlain DEF TokensAt, OneLead, NoLead, RepliesAt
<1>. QED BY <1>3, <1>4, <1>5 DEF Alternate, InSequence

\* Without answers later than the timers, and with the path given first, the
\* session and the sender alternate.
THEOREM ReceiveInStepHolds == ReceiveSpec => []ReceiveInStep
<1>1. ReceiveInit => ReceiveInStep
  BY ReceiveTypesInitially, AlternateInitially DEF ReceiveInStep
<1>2. ASSUME ReceiveInStep, [ReceiveNext]_receiveVars PROVE ReceiveInStep'
  <2>0. ReceiveTypes /\ (PathFirst /\ InTime => Alternate)
    BY <1>2 DEF ReceiveInStep
  <2>1. ReceiveTypes' /\ (InTime' => InTime)
    BY <1>2, <2>0, ReceiveTypesStep DEF InTime
  <2>2. ASSUME PathFirst, InTime PROVE Alternate'
    <3>0. Alternate
      BY <2>0, <2>2
    <3>1. CASE Timeout
      <4>1. Quiet
        BY <2>2, <3>1 DEF Timeout, Fault, InTime
      <4>. QED BY <2>0, <3>0, <3>1, <4>1, TimeoutAlternates
    <3>2. CASE SenderDies
      <4>1. KeepsPrefix(session)'
        BY <3>0, <3>2 DEF SenderDies, Alternate, KeepsPrefix
      <4>2. InSequence'
        BY <3>0, <3>2 DEF SenderDies, Alternate, InSequence, SenderAt
      <4>. QED BY <4>1, <4>2 DEF Alternate
    <3>3. CASE UNCHANGED receiveVars
      <4>1. KeepsPrefix(session)'
        BY <3>0, <3>3 DEF receiveVars, Alternate, KeepsPrefix
      <4>2. InSequence'
        BY <3>0, <3>3 DEF receiveVars, Alternate, InSequence
      <4>. QED BY <4>1, <4>2 DEF Alternate
    <3>. QED BY <1>2, <2>0, <2>1, <2>2, <3>0, <3>1, <3>2, <3>3, UserAlternates, HostReadsAlternate,
                SenderAlternates, LineAlternates DEF ReceiveNext
  <2>. QED BY <2>1, <2>2 DEF ReceiveInStep
<1>. QED BY <1>1, <1>2, PTL DEF ReceiveSpec

-----------------------------------------------------------------------------
(* A receive: the results.                                                 *)

\* What is on disk is a prefix of the file, through damage, loss, repeated blocks,
\* cancels and deaths, when the path was given first and answers are in time.
THEOREM ReceiveInvHolds == ReceiveSpec => [](PathFirst /\ InTime => ReceiveInv)
<1>. DEFINE Prefix == PathFirst /\ InTime => ReceiveInv
<1>1. ReceiveInStep => Prefix
  <2>. SUFFICES ASSUME ReceiveTypes, Alternate PROVE ReceiveInv
    BY DEF ReceiveInStep
  <2>1. WrittenIsPrefix
    BY DEF Alternate, KeepsPrefix, WrittenIsPrefix
  <2>2. ReceiveTypeOK
    BY DEF ReceiveTypes, ReceiveTypeOK, FieldsOK, BudgetOK
  <2>. QED BY <2>1, <2>2 DEF ReceiveInv
<1>. QED BY <1>1, ReceiveInStepHolds, PTL

\* A receive reported complete has the whole file on disk, when the path was given
\* first, no answer was later than the timers and no byte was taken for EOT.
THEOREM CompleteMeansAllHolds == ReceiveSpec => [](PathFirst => CompleteMeansAll)
<1>. DEFINE AllThere == PathFirst => CompleteMeansAll
<1>1. ReceiveInStep => AllThere
  <2>. SUFFICES ASSUME ReceiveInStep, PathFirst, session.outcome = "complete", InTime,
                       "eot" \notin session.stray
                PROVE  session.written = [k \in 1 .. Blocks |-> k]
    BY DEF CompleteMeansAll
  <2>1. ReceiveTypes /\ KeepsPrefix(session)
    BY DEF ReceiveInStep, Alternate
  <2>2. session.written \in Seq(1 .. Blocks)
    BY <2>1, TypesOfFields DEF ReceiveTypes, FieldsOK
  <2>3. Len(session.written) = Blocks /\ \A k \in DOMAIN session.written : session.written[k] = k
    BY <2>1 DEF KeepsPrefix
  <2>4. DOMAIN session.written = 1 .. Blocks /\ session.written \in [1 .. Blocks -> 1 .. Blocks]
    BY <2>2, <2>3, LenProperties
  <2>. QED BY <2>3, <2>4
<1>. QED BY <1>1, ReceiveInStepHolds, PTL
=============================================================================
