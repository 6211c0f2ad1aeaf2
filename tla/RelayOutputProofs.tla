------------------------- MODULE RelayOutputProofs --------------------------
(***************************************************************************)
(* Proofs about Relays and TermOutput, the two ways by which bytes pass    *)
(* between a websocket of the browser and what is behind it.               *)
(*                                                                         *)
(* Relays: for any channels and any number of messages, the server gets    *)
(* what the browser sent, in order and without a gap while both are up;    *)
(* a SPICE session is registered as long as a channel of it has both ends; *)
(* and the end of one channel leaves the others alone.  The inductive      *)
(* invariant follows a channel through its setup: in each phase it says how*)
(* many messages were sent and where they are.                             *)
(*                                                                         *)
(* TermOutput: for any chunks, any coalescing interval and any steps of the*)
(* wall clock, the browser gets the bytes of the terminal in order and none*)
(* is lost on the way, nothing waits without a timer, and a transfer that  *)
(* was recognised in the output gets its bytes in order.  The invariant    *)
(* adds to these what is in dataBuffer: positions that follow all that was *)
(* delivered, in order.                                                    *)
(***************************************************************************)
EXTENDS Relays, TermOutput, SequenceTheorems, FiniteSetTheorems, WellFoundedInduction, TLAPS

-----------------------------------------------------------------------------
(* Relays.                                                                 *)

(* The inductive invariant.                                                *)

\* The first n messages.
FirstOnes(n) == [i \in 1 .. n |-> i]

\* The phases that each kind of session goes through.
Phase(c) ==
    /\ proto = "spice" => tcp[c] \in {"none", "connect", "up", "failed", "closed"}
    /\ proto = "vnc" => tcp[c] \in {"none", "hop", "up", "failed", "closed"}
    /\ ws[c] = "none" <=> tcp[c] = "none"
    /\ proto # "spice" => over[c] = FALSE

\* Who may speak when: nobody before the start, an RDP client once before its answer,
\* a VNC client not before its server.
Spoken(c) ==
    /\ tcp[c] = "none" => sent[c] = 0 /\ over[c] = FALSE /\ heard[c] = FALSE
    /\ proto = "vnc" /\ tcp[c] = "hop" => sent[c] = 0 /\ heard[c] = FALSE
    /\ proto = "rdp" /\ tcp[c] = "hop" => sent[c] \in {0, 1}
    /\ tcp[c] = "request" => sent[c] = 0
    /\ proto = "rdp" /\ tcp[c] \in Handshake => sent[c] = 1
    /\ proto = "rdp" /\ reply[c] = "ok" => tcp[c] \in {"up", "idle", "closed"}

\* What was sent is kept until there is a socket.
Kept(c) ==
    /\ \/ tcp[c] = "none"
       \/ proto = "rdp" /\ tcp[c] = "hop"
       \/ proto = "spice" /\ tcp[c] = "connect" /\ ~over[c]
       => buffer[c] = FirstOnes(sent[c])
    /\ proto = "spice" /\ tcp[c] = "connect" => \E n \in 0 .. sent[c] : buffer[c] = FirstOnes(n)

\* What was written is what was sent, as far as it goes.
Written(c) ==
    /\ \E n \in 0 .. sent[c] : got[c] = FirstOnes(n)
    /\ tcp[c] \in {"none", "hop", "request", "connect"} => got[c] = FirstOnes(0)
    /\ tcp[c] \in {"x224", "tls"} => got[c] = FirstOnes(1)
    /\ tcp[c] = "up" /\ ~over[c] => got[c] = FirstOnes(sent[c])

ChanOK(c) == Phase(c) /\ Spoken(c) /\ Kept(c) /\ Written(c)

Delivers == \A c \in Chan : ChanOK(c)

RelayIInv == RelayTypeOK /\ Delivers /\ Known

-----------------------------------------------------------------------------
(* The first n messages, as a sequence.                                    *)

LEMMA FirstOnesSeq ==
    ASSUME NEW m \in Nat, NEW n \in 0 .. m
    PROVE  FirstOnes(n) \in Seq(1 .. m) /\ Len(FirstOnes(n)) = n
<1>1. FirstOnes(n) \in [1 .. n -> 1 .. m]
  BY DEF FirstOnes
<1>2. FirstOnes(n) \in Seq(1 .. m)
  BY <1>1, SeqDef
<1>. QED BY <1>1, <1>2, LenProperties

LEMMA FirstOnesEmpty == FirstOnes(0) = <<>>
<1>1. FirstOnes(0) \in Seq(1 .. 0) /\ Len(FirstOnes(0)) = 0
  BY FirstOnesSeq
<1>. QED BY <1>1, EmptySeq

LEMMA FirstOnesAppend ==
    ASSUME NEW n \in Nat
    PROVE  Append(FirstOnes(n), n + 1) = FirstOnes(n + 1)
<1>. DEFINE s == FirstOnes(n)
            t == FirstOnes(n + 1)
<1>1. s \in Seq(1 .. n + 1) /\ Len(s) = n /\ t \in Seq(1 .. n + 1) /\ Len(t) = n + 1
  BY FirstOnesSeq
<1>2. /\ Append(s, n + 1) \in Seq(1 .. n + 1) /\ Len(Append(s, n + 1)) = n + 1
      /\ \A i \in 1 .. n : Append(s, n + 1)[i] = s[i]
      /\ Append(s, n + 1)[n + 1] = n + 1
  <2>. HIDE DEF s
  <2>1. n + 1 \in 1 .. n + 1
    OBVIOUS
  <2>. QED BY <1>1, <2>1, AppendProperties, SMTT(30)
<1>3. \A i \in 1 .. n : s[i] = i
  BY DEF FirstOnes
<1>4. \A i \in 1 .. n + 1 : t[i] = i
  BY DEF FirstOnes
<1>. HIDE DEF s, t
<1>5. \A i \in 1 .. n + 1 : Append(s, n + 1)[i] = t[i]
  BY <1>2, <1>3, <1>4
<1>. QED BY <1>1, <1>2, <1>5, SeqEqual DEF s, t

LEMMA FirstOnesBehindNone ==
    ASSUME NEW n \in Nat
    PROVE  FirstOnes(0) \o FirstOnes(n) = FirstOnes(n)
<1>1. FirstOnes(n) \in Seq(1 .. n)
  BY FirstOnesSeq
<1>. QED BY <1>1, FirstOnesEmpty, ConcatEmptySeq

-----------------------------------------------------------------------------
(* Steps that send nothing.                                                *)

\* What of a state RelayTypeOK says of the channels.
ChanType ==
    /\ ws \in [Chan -> {"none", "open", "closing", "closed"}]
    /\ tcp \in [Chan -> {"none", "hop", "request", "up", "failed", "closed", "idle", "gone"} \cup Handshake]
    /\ over \in [Chan -> BOOLEAN] /\ joined \in [Chan -> BOOLEAN]
MsgType ==
    /\ heard \in [Chan -> BOOLEAN] /\ reply \in [Chan -> {"none", "ok", "error"}]
    /\ sent \in [Chan -> 0 .. MaxMsgs]
    /\ buffer \in [Chan -> Seq(1 .. MaxMsgs)] /\ got \in [Chan -> Seq(1 .. MaxMsgs)]
SessionType ==
    proto \in Protos /\ registered \in BOOLEAN /\ members \subseteq Chan /\ hop \in {"none", "up", "killed"}

LEMMA Types == RelayTypeOK <=> SessionType /\ ChanType /\ MsgType
BY DEF RelayTypeOK, SessionType, ChanType, MsgType

\* The socket of c is what it was, or is gone.
Fades(c) ==
    \/ tcp'[c] = tcp[c]
    \/ tcp[c] = "up" /\ tcp'[c] = "closed"
    \/ tcp[c] = "up" /\ tcp'[c] = "idle" /\ proto = "rdp"
    \/ tcp[c] = "x224" /\ tcp'[c] = "gone" /\ proto = "rdp"
    \/ tcp[c] = "connect" /\ tcp'[c] = "failed" /\ proto = "spice"

\* A channel is in order as long as its socket is what it was, or is gone.
LEMMA ChannelKept ==
    ASSUME NEW c \in Chan, ChanOK(c), proto' = proto,
           sent'[c] = sent[c], buffer'[c] = buffer[c], got'[c] = got[c],
           heard'[c] = heard[c], reply'[c] = reply[c],
           Fades(c),
           ws[c] = "none" <=> ws'[c] = "none",
           \/ over'[c] = over[c]
           \/ proto = "spice" /\ tcp[c] # "none" /\ over'[c] = TRUE
    PROVE  ChanOK(c)'
<1>1. Phase(c)'
  BY DEF ChanOK, Fades, Phase
<1>2. Spoken(c)'
  BY DEF ChanOK, Fades, Spoken, Handshake
<1>3. Kept(c)'
  BY DEF ChanOK, Fades, Kept
<1>4. Written(c)'
  BY DEF ChanOK, Fades, Written
<1>. QED BY <1>1, <1>2, <1>3, <1>4 DEF ChanOK

\* The same of all channels.
LEMMA ChannelsKept ==
    ASSUME Delivers, UNCHANGED <<proto, sent, buffer, got, heard, reply>>,
           \A d \in Chan :
              /\ Fades(d) /\ (ws[d] = "none" <=> ws'[d] = "none")
              /\ \/ over'[d] = over[d]
                 \/ proto = "spice" /\ tcp[d] # "none" /\ over'[d] = TRUE
    PROVE  Delivers'
<1>. SUFFICES ASSUME NEW d \in Chan PROVE ChanOK(d)'
  BY DEF Delivers
<1>1. ChanOK(d)
  BY DEF Delivers
<1>. QED BY <1>1, ChannelKept

\* A step of one channel that leaves the others as they are.
LEMMA OneChannel ==
    ASSUME Delivers, NEW c \in Chan, ChanOK(c)', proto' = proto,
           \A d \in Chan \ {c} :
              /\ sent'[d] = sent[d] /\ buffer'[d] = buffer[d] /\ got'[d] = got[d]
              /\ heard'[d] = heard[d] /\ reply'[d] = reply[d]
              /\ tcp'[d] = tcp[d] /\ ws'[d] = ws[d] /\ over'[d] = over[d]
    PROVE  Delivers'
<1>. SUFFICES ASSUME NEW d \in Chan PROVE ChanOK(d)'
  BY DEF Delivers
<1>1. CASE d = c
  BY <1>1
<1>2. CASE d # c
  <2>1. ChanOK(d)
    BY DEF Delivers
  <2>. QED BY <1>2, <2>1, ChannelKept DEF Fades
<1>. QED BY <1>1, <1>2

\* The channels of a SPICE session stay known unless one of them is forgotten.
LEMMA KnownKept ==
    ASSUME Known, UNCHANGED <<proto, registered, members, over>>,
           \A d \in Chan : ws'[d] = "open" => ws[d] = "open",
           \A d \in Chan : proto = "spice" /\ tcp'[d] \in {"connect", "up"} => tcp[d] \in {"connect", "up"}
    PROVE  Known'
BY DEF Known

-----------------------------------------------------------------------------
(* Setting up.                                                             *)

LEMMA Starting ==
    ASSUME RelayIInv, NEW c \in Chan, Start(c)
    PROVE  RelayIInv'
<1>. USE DEF RelayIInv
<1>1. SessionType /\ ChanType /\ MsgType
  BY Types
<1>2. /\ UNCHANGED <<proto, registered, hop, over, joined, sent, buffer, got, heard, reply>>
      /\ registered /\ ws[c] = "none"
      /\ ws' = [ws EXCEPT ![c] = "open"]
      /\ tcp' = [tcp EXCEPT ![c] = IF proto = "spice" THEN "connect" ELSE "hop"]
      /\ members' = IF proto = "spice" THEN members \cup {c} ELSE members
  BY DEF Start, Attachable, msgVars
<1>3. RelayTypeOK'
  <2>1. ChanType'
    BY <1>1, <1>2 DEF ChanType, Handshake
  <2>2. SessionType' /\ MsgType'
    BY <1>1, <1>2 DEF SessionType, MsgType
  <2>. QED BY <2>1, <2>2 DEF RelayTypeOK, SessionType, ChanType, MsgType
<1>4. /\ ws'[c] = "open" /\ tcp'[c] = (IF proto = "spice" THEN "connect" ELSE "hop")
      /\ \A d \in Chan \ {c} : ws'[d] = ws[d] /\ tcp'[d] = tcp[d]
  BY <1>1, <1>2 DEF ChanType
<1>5. tcp[c] = "none" /\ ChanOK(c)
  BY <1>2 DEF Delivers, ChanOK, Phase
<1>6. sent[c] = 0 /\ over[c] = FALSE /\ heard[c] = FALSE /\ buffer[c] = FirstOnes(0) /\ got[c] = FirstOnes(0)
      /\ (proto = "rdp" => reply[c] # "ok")
  BY <1>5 DEF ChanOK, Spoken, Kept, Written
<1>7. ChanOK(c)'
  BY <1>2, <1>4, <1>6 DEF ChanOK, Phase, Spoken, Kept, Written, Handshake
<1>8. Delivers'
  BY <1>2, <1>4, <1>7, OneChannel
<1>9. Known'
  BY <1>2, <1>4 DEF Known
<1>. QED BY <1>3, <1>8, <1>9

\* The hop is there, or fails.
LEMMA Hopping ==
    ASSUME RelayIInv, NEW c \in Chan, Hopped(c) \/ HopFails(c)
    PROVE  RelayIInv'
<1>. USE DEF RelayIInv
<1>1. SessionType /\ ChanType /\ MsgType
  BY Types
<1>2. /\ UNCHANGED <<proto, registered, members, ws, over, sent, buffer, got, heard, reply>>
      /\ tcp[c] = "hop" /\ hop' \in {"none", "up", "killed"}
      /\ joined' \in [Chan -> BOOLEAN]
  BY <1>1 DEF Hopped, HopFails, msgVars, SessionType, ChanType
<1>. DEFINE next == IF Hopped(c)
                    THEN IF proto = "vnc" THEN "up" ELSE IF registered THEN AfterHop(c) ELSE "failed"
                    ELSE "failed"
<1>3. tcp' = [tcp EXCEPT ![c] = next]
  BY DEF Hopped, HopFails
<1>4. next \in {"up", "request", "connect", "failed"} /\ (next = "up" <=> proto = "vnc" /\ Hopped(c))
      /\ (next = "request" => buffer[c] = <<>>) /\ (next = "connect" => buffer[c] # <<>>)
      /\ (next \in {"request", "connect"} => proto # "vnc")
  BY DEF AfterHop
<1>. HIDE DEF next
<1>5. RelayTypeOK'
  <2>1. ChanType'
    BY <1>1, <1>2, <1>3, <1>4 DEF ChanType, Handshake
  <2>2. SessionType' /\ MsgType'
    BY <1>1, <1>2 DEF SessionType, MsgType
  <2>. QED BY <2>1, <2>2 DEF RelayTypeOK, SessionType, ChanType, MsgType
<1>6. tcp'[c] = next /\ \A d \in Chan \ {c} : tcp'[d] = tcp[d]
  BY <1>1, <1>3 DEF ChanType
<1>7. ChanOK(c) /\ proto \in {"rdp", "vnc"} /\ over[c] = FALSE
  BY <1>1, <1>2, RelayAssumption DEF Delivers, ChanOK, Phase, SessionType
<1>8. CASE proto = "vnc"
  <2>1. sent[c] = 0 /\ heard[c] = FALSE /\ got[c] = FirstOnes(0) /\ next \in {"up", "failed"} /\ ws[c] # "none"
    BY <1>2, <1>4, <1>7, <1>8 DEF ChanOK, Spoken, Written, Phase
  <2>2. ChanOK(c)'
    BY <1>2, <1>6, <1>7, <1>8, <2>1 DEF ChanOK, Phase, Spoken, Kept, Written, Handshake
  <2>3. Delivers'
    BY <1>2, <1>6, <2>2, OneChannel
  <2>4. Known'
    BY <1>2, <1>8 DEF Known
  <2>. QED BY <1>5, <2>3, <2>4
<1>9. CASE proto = "rdp"
  <2>1. /\ sent[c] \in {0, 1} /\ buffer[c] = FirstOnes(sent[c]) /\ got[c] = FirstOnes(0)
        /\ next \in {"request", "connect", "failed"} /\ ws[c] # "none" /\ reply[c] # "ok"
    BY <1>2, <1>4, <1>7, <1>9 DEF ChanOK, Spoken, Kept, Written, Phase
  <2>2. Len(FirstOnes(1)) = 1 /\ Len(FirstOnes(0)) = 0
    BY FirstOnesSeq, 1 \in Nat, 0 \in 0 .. 1, 1 \in 0 .. 1
  <2>3. (buffer[c] = <<>>) <=> (sent[c] = 0)
    <3>1. Len(<<>>) = 0 /\ FirstOnes(0) = <<>>
      BY FirstOnesEmpty, <2>2
    <3>. QED BY <2>1, <2>2, <3>1
  <2>4. (next = "request" => sent[c] = 0) /\ (next = "connect" => sent[c] = 1)
    BY <1>4, <2>1, <2>3
  <2>5. ChanOK(c)'
    BY <1>2, <1>6, <1>7, <1>9, <2>1, <2>4 DEF ChanOK, Phase, Spoken, Kept, Written, Handshake
  <2>6. Delivers'
    BY <1>2, <1>6, <2>5, OneChannel
  <2>7. Known'
    BY <1>2, <1>9 DEF Known
  <2>. QED BY <1>5, <2>6, <2>7
<1>. QED BY <1>7, <1>8, <1>9

\* A SPICE channel is connected: what it kept is written.
LEMMA Connecting ==
    ASSUME RelayIInv, NEW c \in Chan, Connected(c)
    PROVE  RelayIInv'
<1>. USE DEF RelayIInv
<1>1. SessionType /\ ChanType /\ MsgType
  BY Types
<1>2. /\ UNCHANGED <<proto, registered, members, hop, ws, over, sent, heard, reply>>
      /\ proto = "spice" /\ tcp[c] = "connect"
      /\ tcp' = [tcp EXCEPT ![c] = "up"]
      /\ joined' = [joined EXCEPT ![c] = ~over[c]]
      /\ got' = [got EXCEPT ![c] = Flushed(c)]
      /\ buffer' = [buffer EXCEPT ![c] = <<>>]
  BY DEF Connected
<1>3. ChanOK(c)
  BY DEF Delivers
<1>4. got[c] = FirstOnes(0) /\ sent[c] \in Nat /\ sent[c] <= MaxMsgs /\ MaxMsgs \in Nat
  BY <1>1, <1>2, <1>3, RelayAssumption DEF ChanOK, Written, MsgType
<1>5. PICK n \in 0 .. sent[c] : buffer[c] = FirstOnes(n)
  BY <1>2, <1>3 DEF ChanOK, Kept
<1>6. Flushed(c) = FirstOnes(n)
  <2>1. n \in Nat
    BY <1>4, <1>5
  <2>. QED BY <1>4, <1>5, <2>1, FirstOnesBehindNone DEF Flushed
<1>7. Flushed(c) \in Seq(1 .. MaxMsgs)
  <2>1. n \in 0 .. MaxMsgs
    BY <1>4, <1>5
  <2>. QED BY <1>4, <1>6, <2>1, FirstOnesSeq
<1>8. ~over[c] => Flushed(c) = FirstOnes(sent[c])
  <2>1. ~over[c] => buffer[c] = FirstOnes(sent[c])
    BY <1>2, <1>3 DEF ChanOK, Kept
  <2>. QED BY <2>1, <1>4, FirstOnesBehindNone DEF Flushed
<1>9. RelayTypeOK'
  <2>1. ChanType'
    BY <1>1, <1>2 DEF ChanType, Handshake
  <2>2. buffer' \in [Chan -> Seq(1 .. MaxMsgs)]
    BY <1>1, <1>2, EmptySeq DEF MsgType
  <2>3. SessionType' /\ MsgType'
    BY <1>1, <1>2, <1>7, <2>2 DEF SessionType, MsgType
  <2>. QED BY <2>1, <2>3 DEF RelayTypeOK, SessionType, ChanType, MsgType
<1>10. /\ tcp'[c] = "up" /\ got'[c] = Flushed(c)
       /\ \A d \in Chan \ {c} : tcp'[d] = tcp[d] /\ got'[d] = got[d] /\ buffer'[d] = buffer[d]
  BY <1>1, <1>2 DEF ChanType, MsgType
<1>11. ChanOK(c)'
  <2>1. ws[c] # "none"
    BY <1>2, <1>3 DEF ChanOK, Phase
  <2>. QED BY <1>2, <1>5, <1>6, <1>8, <1>10, <2>1 DEF ChanOK, Phase, Spoken, Kept, Written, Handshake
<1>12. Delivers'
  BY <1>2, <1>10, <1>11, OneChannel
<1>13. Known'
  BY <1>2, <1>10, KnownKept
<1>. QED BY <1>9, <1>12, <1>13

\* Steps of the handshake of an RDP session.
LEMMA Shaking ==
    ASSUME RelayIInv, NEW c \in Chan, HandshakeStep(c) \/ HandshakeDone(c) \/ HandshakeFails(c)
    PROVE  RelayIInv'
<1>. USE DEF RelayIInv
<1>1. SessionType /\ ChanType /\ MsgType
  BY Types
<1>2. /\ UNCHANGED <<proto, registered, members, hop, over, sent, buffer, heard>>
      /\ proto = "rdp" /\ tcp[c] \in Handshake
  BY DEF HandshakeStep, HandshakeDone, HandshakeFails, Handshake
<1>3. ChanOK(c)
  BY DEF Delivers
<1>4. sent[c] = 1 /\ reply[c] # "ok" /\ ws[c] # "none" /\ over[c] = FALSE /\ MaxMsgs \in Nat \ {0}
  <2>1. sent[c] = 1 /\ reply[c] # "ok" /\ ws[c] # "none" /\ over[c] = FALSE
    BY <1>2, <1>3 DEF ChanOK, Spoken, Phase, Handshake
  <2>. QED BY <2>1, <1>1, RelayAssumption DEF MsgType
<1>5. CASE HandshakeStep(c) /\ tcp[c] = "connect"
  <2>1. UNCHANGED <<ws, joined, reply>> /\ tcp' = [tcp EXCEPT ![c] = "x224"] /\ got' = [got EXCEPT ![c] = Append(@, 1)]
    BY <1>5 DEF HandshakeStep
  <2>2. got[c] = FirstOnes(0)
    BY <1>3, <1>5 DEF ChanOK, Written
  <2>3. Append(got[c], 1) = FirstOnes(1) /\ FirstOnes(1) \in Seq(1 .. MaxMsgs)
    BY <1>4, <2>2, FirstOnesAppend, FirstOnesSeq, 0 + 1 = 1, 0 \in Nat, 1 \in 0 .. MaxMsgs
  <2>4. /\ tcp'[c] = "x224" /\ got'[c] = FirstOnes(1)
        /\ \A d \in Chan \ {c} : tcp'[d] = tcp[d] /\ got'[d] = got[d]
    BY <1>1, <2>1, <2>3 DEF ChanType, MsgType
  <2>5. ChanType' /\ got' \in [Chan -> Seq(1 .. MaxMsgs)]
    BY <1>1, <1>2, <2>1, <2>3 DEF ChanType, MsgType, Handshake
  <2>6. RelayTypeOK'
    BY <1>1, <1>2, <2>1, <2>5 DEF RelayTypeOK, SessionType, ChanType, MsgType
  <2>7. ChanOK(c)'
    BY <1>2, <1>4, <2>1, <2>4 DEF ChanOK, Phase, Spoken, Kept, Written, Handshake
  <2>8. Delivers'
    BY <1>2, <2>1, <2>4, <2>7, OneChannel
  <2>. QED BY <1>2, <2>6, <2>8 DEF Known
<1>6. CASE HandshakeStep(c) /\ tcp[c] # "connect"
  <2>1. UNCHANGED <<ws, joined, reply, got>> /\ tcp' = [tcp EXCEPT ![c] = "tls"] /\ tcp[c] = "x224"
    BY <1>6 DEF HandshakeStep
  <2>2. tcp'[c] = "tls" /\ \A d \in Chan \ {c} : tcp'[d] = tcp[d]
    BY <1>1, <2>1 DEF ChanType
  <2>3. ChanType'
    BY <1>1, <1>2, <2>1 DEF ChanType, Handshake
  <2>4. RelayTypeOK'
    BY <1>1, <1>2, <2>1, <2>3 DEF RelayTypeOK, SessionType, ChanType, MsgType
  <2>5. ChanOK(c)'
    BY <1>2, <1>3, <1>4, <2>1, <2>2 DEF ChanOK, Phase, Spoken, Kept, Written, Handshake
  <2>6. Delivers'
    BY <1>2, <2>1, <2>2, <2>5, OneChannel
  <2>. QED BY <1>2, <2>4, <2>6 DEF Known
<1>7. CASE HandshakeDone(c)
  <2>1. /\ UNCHANGED <<ws, got>> /\ tcp' = [tcp EXCEPT ![c] = "up"] /\ tcp[c] = "tls"
        /\ joined' = [joined EXCEPT ![c] = ws[c] \in {"open", "closing"}]
        /\ reply' = [reply EXCEPT ![c] = IF ws[c] = "open" THEN "ok" ELSE @]
    BY <1>7 DEF HandshakeDone
  <2>2. tcp'[c] = "up" /\ \A d \in Chan \ {c} : tcp'[d] = tcp[d] /\ reply'[d] = reply[d]
    BY <1>1, <2>1 DEF ChanType, MsgType
  <2>3. ChanType' /\ reply' \in [Chan -> {"none", "ok", "error"}]
    BY <1>1, <1>2, <2>1 DEF ChanType, MsgType, Handshake
  <2>4. RelayTypeOK'
    BY <1>1, <1>2, <2>1, <2>3 DEF RelayTypeOK, SessionType, ChanType, MsgType
  <2>5. got[c] = FirstOnes(sent[c])
    BY <1>3, <1>4, <2>1 DEF ChanOK, Written
  <2>6. ChanOK(c)'
    BY <1>2, <1>4, <2>1, <2>2, <2>5 DEF ChanOK, Phase, Spoken, Kept, Written, Handshake
  <2>7. Delivers'
    BY <1>2, <2>1, <2>2, <2>6, OneChannel
  <2>. QED BY <1>2, <2>4, <2>7 DEF Known
<1>8. CASE HandshakeFails(c)
  <2>1. /\ UNCHANGED <<joined, got>> /\ tcp' = [tcp EXCEPT ![c] = "failed"]
        /\ reply' = [reply EXCEPT ![c] = IF ws[c] = "open" THEN "error" ELSE @]
        /\ ws' = [ws EXCEPT ![c] = Refused(c)]
    BY <1>8 DEF HandshakeFails
  <2>2. Refused(c) \in {"open", "closing", "closed"}
    BY <1>1, <1>4 DEF Refused, Closing, ChanType
  <2>3. /\ tcp'[c] = "failed" /\ ws'[c] # "none" /\ reply'[c] # "ok"
        /\ \A d \in Chan \ {c} : tcp'[d] = tcp[d] /\ ws'[d] = ws[d] /\ reply'[d] = reply[d]
    BY <1>1, <1>4, <2>1, <2>2 DEF ChanType, MsgType
  <2>4. ChanType' /\ reply' \in [Chan -> {"none", "ok", "error"}]
    BY <1>1, <1>2, <2>1, <2>2 DEF ChanType, MsgType, Handshake
  <2>5. RelayTypeOK'
    BY <1>1, <1>2, <2>1, <2>4 DEF RelayTypeOK, SessionType, ChanType, MsgType
  <2>6. ChanOK(c)'
    BY <1>2, <1>3, <2>1, <2>3 DEF ChanOK, Phase, Spoken, Kept, Written, Handshake
  <2>7. Delivers'
    BY <1>2, <2>1, <2>3, <2>6, OneChannel
  <2>. QED BY <1>2, <2>5, <2>7 DEF Known
<1>. QED BY <1>5, <1>6, <1>7, <1>8

-----------------------------------------------------------------------------
(* Messages.                                                               *)

LEMMA Messaging ==
    ASSUME RelayIInv, NEW c \in Chan, Message(c)
    PROVE  RelayIInv'
<1>. USE DEF RelayIInv
<1>1. SessionType /\ ChanType /\ MsgType
  BY Types
<1>2. /\ UNCHANGED <<proto, registered, members, hop, ws, over, joined, heard, reply>>
      /\ ws[c] = "open" /\ sent[c] < MaxMsgs /\ MaySend(c)
      /\ sent' = [sent EXCEPT ![c] = @ + 1]
  BY DEF Message
<1>3. ChanOK(c) /\ MaxMsgs \in Nat /\ sent[c] \in Nat /\ sent[c] + 1 \in 1 .. MaxMsgs
  BY <1>1, <1>2, RelayAssumption DEF Delivers, MsgType
<1>4. sent'[c] = sent[c] + 1 /\ (\A d \in Chan \ {c} : sent'[d] = sent[d]) /\ sent' \in [Chan -> 0 .. MaxMsgs]
  BY <1>1, <1>2, <1>3 DEF MsgType
<1>5. proto \in {"spice", "rdp", "vnc"} /\ tcp[c] # "none"
  BY <1>1, <1>2, <1>3, RelayAssumption DEF SessionType, ChanOK, Phase
<1>6. /\ proto = "rdp" /\ tcp[c] = "hop" => sent[c] = 0
      /\ ~(proto = "rdp" /\ tcp[c] \in Handshake)
      /\ ~(proto = "vnc" /\ tcp[c] = "hop")
  <2>1. CASE proto = "rdp"
    <3>1. sent[c] = 0 \/ reply[c] = "ok"
      BY <1>2, <2>1 DEF MaySend
    <3>. QED BY <1>3, <2>1, <3>1 DEF ChanOK, Spoken, Handshake
  <2>2. CASE proto = "vnc"
    <3>1. heard[c]
      BY <1>2, <2>2 DEF MaySend
    <3>. QED BY <1>3, <2>2, <3>1 DEF ChanOK, Spoken
  <2>. QED BY <2>1, <2>2
<1>7. PICK n \in 0 .. sent[c] : got[c] = FirstOnes(n)
  BY <1>3 DEF ChanOK, Written
<1>8. n \in 0 .. sent'[c] /\ sent'[c] \in 0 .. sent'[c]
  BY <1>3, <1>4, <1>7
<1>9. /\ Append(FirstOnes(sent[c]), sent[c] + 1) = FirstOnes(sent'[c])
      /\ FirstOnes(sent'[c]) \in Seq(1 .. MaxMsgs)
  <2>1. sent'[c] \in 0 .. MaxMsgs
    BY <1>3, <1>4
  <2>2. Append(FirstOnes(sent[c]), sent[c] + 1) = FirstOnes(sent[c] + 1)
    BY <1>3, FirstOnesAppend
  <2>. QED BY <1>3, <1>4, <2>1, <2>2, FirstOnesSeq
\* It is kept until there is a socket.
<1>10. ASSUME Buffers(c),
              buffer' = [buffer EXCEPT ![c] = Append(@, sent[c] + 1)], UNCHANGED <<tcp, got>>
       PROVE  RelayIInv'
  <2>1. buffer[c] = FirstOnes(sent[c])
    BY <1>3, <1>10 DEF ChanOK, Kept, Buffers
  <2>2. Append(buffer[c], sent[c] + 1) = FirstOnes(sent'[c])
    BY <1>9, <2>1
  <2>3. /\ buffer'[c] = FirstOnes(sent'[c]) /\ (\A d \in Chan \ {c} : buffer'[d] = buffer[d])
        /\ buffer' \in [Chan -> Seq(1 .. MaxMsgs)]
    BY <1>1, <1>9, <1>10, <2>2 DEF MsgType
  <2>4. RelayTypeOK'
    BY <1>1, <1>2, <1>4, <1>10, <2>3 DEF RelayTypeOK, SessionType, ChanType, MsgType
  <2>5. ChanOK(c)'
    <3>1. Phase(c)'
      BY <1>2, <1>3, <1>10 DEF ChanOK, Phase
    <3>2. Spoken(c)'
      BY <1>2, <1>3, <1>4, <1>6, <1>10 DEF ChanOK, Spoken, Handshake, Buffers
    <3>3. Kept(c)'
      BY <1>8, <2>3 DEF Kept
    <3>4. Written(c)'
      BY <1>2, <1>3, <1>7, <1>8, <1>10 DEF ChanOK, Written, Buffers
    <3>. QED BY <3>1, <3>2, <3>3, <3>4 DEF ChanOK
  <2>6. Delivers'
    BY <1>2, <1>4, <1>10, <2>3, <2>5, OneChannel
  <2>7. Known'
    BY <1>2, <1>10, KnownKept
  <2>. QED BY <2>4, <2>6, <2>7
\* It is the request of an RDP client.
<1>11. ASSUME tcp[c] = "request", tcp' = [tcp EXCEPT ![c] = "connect"], UNCHANGED <<buffer, got>>
       PROVE  RelayIInv'
  <2>1. proto = "rdp" /\ sent[c] = 0 /\ reply[c] # "ok" /\ over[c] = FALSE
    BY <1>3, <1>5, <1>11 DEF ChanOK, Phase, Spoken
  <2>2. tcp'[c] = "connect" /\ (\A d \in Chan \ {c} : tcp'[d] = tcp[d]) /\ ChanType'
    BY <1>1, <1>2, <1>11 DEF ChanType, Handshake
  <2>3. RelayTypeOK'
    BY <1>1, <1>2, <1>4, <1>11, <2>2 DEF RelayTypeOK, SessionType, ChanType, MsgType
  <2>4. got[c] = FirstOnes(0) /\ sent'[c] = 1
    BY <1>3, <1>4, <1>11, <2>1 DEF ChanOK, Written
  <2>5. ChanOK(c)'
    <3>1. Phase(c)'
      BY <1>2, <2>1, <2>2 DEF Phase
    <3>2. Spoken(c)'
      BY <1>2, <2>1, <2>2, <2>4 DEF Spoken, Handshake
    <3>3. Kept(c)'
      BY <1>2, <2>1, <2>2 DEF Kept
    <3>4. Written(c)'
      BY <1>2, <1>11, <2>2, <2>4, 0 \in 0 .. 1 DEF Written
    <3>. QED BY <3>1, <3>2, <3>3, <3>4 DEF ChanOK
  <2>6. Delivers'
    BY <1>2, <1>4, <1>11, <2>2, <2>5, OneChannel
  <2>. QED BY <1>2, <2>1, <2>3, <2>6 DEF Known
\* It is written.
<1>12. ASSUME over[c] = FALSE, tcp[c] = "up",
              got' = [got EXCEPT ![c] = Append(@, sent[c] + 1)], UNCHANGED <<tcp, buffer>>
       PROVE  RelayIInv'
  <2>1. Append(got[c], sent[c] + 1) = FirstOnes(sent'[c])
    BY <1>3, <1>9, <1>12 DEF ChanOK, Written
  <2>2. /\ got'[c] = FirstOnes(sent'[c]) /\ (\A d \in Chan \ {c} : got'[d] = got[d])
        /\ got' \in [Chan -> Seq(1 .. MaxMsgs)]
    BY <1>1, <1>9, <1>12, <2>1 DEF MsgType
  <2>3. RelayTypeOK'
    BY <1>1, <1>2, <1>4, <1>12, <2>2 DEF RelayTypeOK, SessionType, ChanType, MsgType
  <2>4. ChanOK(c)'
    <3>1. Phase(c)'
      BY <1>2, <1>3, <1>12 DEF ChanOK, Phase
    <3>2. Spoken(c)'
      BY <1>2, <1>3, <1>12 DEF ChanOK, Spoken, Handshake
    <3>3. Kept(c)'
      BY <1>2, <1>12 DEF Kept
    <3>4. Written(c)'
      BY <1>8, <1>12, <2>2 DEF Written
    <3>. QED BY <3>1, <3>2, <3>3, <3>4 DEF ChanOK
  <2>5. Delivers'
    BY <1>2, <1>4, <1>12, <2>2, <2>4, OneChannel
  <2>6. Known'
    BY <1>2, <1>12, KnownKept
  <2>. QED BY <2>3, <2>5, <2>6
\* The relay has ended.
<1>13. ASSUME over[c] \/ tcp[c] \in {"failed", "closed", "idle"}, UNCHANGED <<tcp, buffer, got>>
       PROVE  RelayIInv'
  <2>1. RelayTypeOK'
    BY <1>1, <1>2, <1>4, <1>13 DEF RelayTypeOK, SessionType, ChanType, MsgType
  <2>2. over[c] => proto = "spice"
    BY <1>3 DEF ChanOK, Phase
  <2>3. ChanOK(c)'
    <3>1. Phase(c)'
      BY <1>2, <1>3, <1>13 DEF ChanOK, Phase
    <3>2. Spoken(c)'
      BY <1>2, <1>3, <1>5, <1>13, <2>2 DEF ChanOK, Phase, Spoken, Handshake
    <3>3. Kept(c)'
      <4>1. proto = "spice" /\ tcp[c] = "connect" => \E k \in 0 .. sent'[c] : buffer[c] = FirstOnes(k)
        BY <1>3, <1>4 DEF ChanOK, Kept
      <4>. QED BY <1>2, <1>5, <1>13, <2>2, <4>1 DEF Kept
    <3>4. Written(c)'
      BY <1>2, <1>3, <1>7, <1>8, <1>13 DEF ChanOK, Written
    <3>. QED BY <3>1, <3>2, <3>3, <3>4 DEF ChanOK
  <2>4. Delivers'
    BY <1>2, <1>4, <1>13, <2>3, OneChannel
  <2>5. Known'
    BY <1>2, <1>13, KnownKept
  <2>. QED BY <2>1, <2>4, <2>5
<1>14. over[c] = TRUE \/ over[c] = FALSE
  BY <1>1 DEF ChanType
<1>. QED BY <1>10, <1>11, <1>12, <1>13, <1>14 DEF Message

\* The server speaks, or its socket is destroyed by the timer.
LEMMA Hearing ==
    ASSUME RelayIInv, NEW c \in Chan, ServerData(c)
    PROVE  RelayIInv'
<1>. USE DEF RelayIInv
<1>1. SessionType /\ ChanType /\ MsgType
  BY Types
<1>2. /\ UNCHANGED <<proto, registered, members, hop, ws, tcp, over, joined, sent, buffer, got, reply>>
      /\ tcp[c] = "up" /\ heard' = [heard EXCEPT ![c] = TRUE]
  BY DEF ServerData, chanVars
<1>3. RelayTypeOK'
  BY <1>1, <1>2 DEF RelayTypeOK, SessionType, ChanType, MsgType
<1>4. \A d \in Chan \ {c} : heard'[d] = heard[d]
  BY <1>1, <1>2 DEF MsgType
<1>5. ChanOK(c)'
  <2>1. ChanOK(c)
    BY DEF Delivers
  <2>2. Phase(c)' /\ Kept(c)' /\ Written(c)'
    BY <1>2, <2>1 DEF ChanOK, Phase, Kept, Written
  <2>3. Spoken(c)'
    BY <1>2, <2>1 DEF ChanOK, Spoken, Handshake
  <2>. QED BY <2>2, <2>3 DEF ChanOK
<1>6. Delivers'
  BY <1>2, <1>4, <1>5, OneChannel
<1>. QED BY <1>2, <1>3, <1>6 DEF Known

LEMMA Idling ==
    ASSUME RelayIInv, NEW c \in Chan, IdleTimeout(c)
    PROVE  RelayIInv'
<1>. USE DEF RelayIInv
<1>1. SessionType /\ ChanType /\ MsgType
  BY Types
<1>2. /\ UNCHANGED <<proto, registered, members, hop, ws, over, joined, sent, buffer, got, heard, reply>>
      /\ proto = "rdp" /\ tcp[c] = "up" /\ tcp' = [tcp EXCEPT ![c] = "idle"]
  BY DEF IdleTimeout, msgVars
<1>3. RelayTypeOK'
  BY <1>1, <1>2 DEF RelayTypeOK, SessionType, ChanType, MsgType
<1>4. \A d \in Chan : Fades(d)
  BY <1>1, <1>2 DEF Fades, ChanType
<1>5. Delivers'
  BY <1>2, <1>4, ChannelsKept
<1>. QED BY <1>2, <1>3, <1>5 DEF Known

LEMMA HangingUp ==
    ASSUME RelayIInv, NEW c \in Chan, ServerHangsUp(c)
    PROVE  RelayIInv'
<1>. USE DEF RelayIInv
<1>1. SessionType /\ ChanType /\ MsgType
  BY Types
<1>2. /\ UNCHANGED <<proto, registered, members, hop, ws, over, joined, sent, buffer, got, heard, reply>>
      /\ proto = "rdp" /\ tcp[c] = "x224" /\ tcp' = [tcp EXCEPT ![c] = "gone"]
  BY DEF ServerHangsUp, msgVars
<1>3. RelayTypeOK'
  BY <1>1, <1>2 DEF RelayTypeOK, SessionType, ChanType, MsgType
<1>4. \A d \in Chan : Fades(d)
  BY <1>1, <1>2 DEF Fades, ChanType
<1>5. Delivers'
  BY <1>2, <1>4, ChannelsKept
<1>. QED BY <1>2, <1>3, <1>5 DEF Known

-----------------------------------------------------------------------------
(* Ends.                                                                   *)

\* The end of a channel that is not alone closes no other websocket.
LEMMA NotLast ==
    ASSUME NEW c, NEW d \in members \ {c}
    PROVE  ~Last(members \ {c})
BY DEF Last

LEMMA Forgetting ==
    ASSUME SessionType, NEW c \in Chan, Forget(c)
    PROVE  /\ registered' \in BOOLEAN /\ members' \subseteq Chan
           /\ \A d \in members \ {c} : d \in members' /\ registered' = registered
BY NotLast DEF Forget, SessionType

\* What the end of a channel does to it and to the others.
LEMMA Ended ==
    ASSUME SessionType, ChanType, NEW c \in Chan, NEW w \in {ws[c], "closed"}, End(c, w),
           ws[c] # "none", UNCHANGED joined
    PROVE  /\ ChanType'
           /\ \A d \in Chan : /\ tcp'[d] = tcp[d] \/ (tcp[d] = "up" /\ tcp'[d] = "closed")
                              /\ ws'[d] = "none" <=> ws[d] = "none"
                              /\ ws'[d] = "open" => ws[d] = "open"
           /\ \A d \in Chan \ {c} : ws'[d] = ws[d] /\ tcp'[d] = tcp[d] /\ over'[d] = over[d]
           /\ over'[c] = over[c] \/ (proto = "spice" /\ over'[c] = TRUE /\ over[c] = FALSE /\ Forget(c))
           /\ proto = "spice" /\ over'[c] = over[c] => UNCHANGED <<members, registered>>
           /\ registered' \in BOOLEAN /\ members' \subseteq Chan /\ hop' \in {"none", "up", "killed"}
<1>1. Dropped(c) \in {"closed", tcp[c]} /\ (Dropped(c) = tcp[c] \/ tcp[c] = "up")
  BY DEF Dropped
<1>2. w \in {"open", "closing", "closed"} /\ (w = "open" => ws[c] = "open")
  BY DEF ChanType
<1>3. CASE proto = "spice" /\ CleanupSpice(c, w) /\ over[c]
  <2>1. over[c] = TRUE /\ ws' = [ws EXCEPT ![c] = w] /\ UNCHANGED <<tcp, over, members, registered>>
    BY <1>3 DEF CleanupSpice, ChanType
  <2>2. ws'[c] = w /\ \A d \in Chan \ {c} : ws'[d] = ws[d]
    BY <2>1 DEF ChanType
  <2>3. UNCHANGED hop
    BY <1>3 DEF End
  <2>. QED BY <1>2, <2>1, <2>2, <2>3 DEF ChanType, SessionType
<1>4. CASE proto = "spice" /\ CleanupSpice(c, w) /\ ~over[c]
  <2>1. /\ over[c] = FALSE /\ over' = [over EXCEPT ![c] = TRUE] /\ tcp' = [tcp EXCEPT ![c] = Dropped(c)]
        /\ Forget(c)
        /\ ws' = [d \in Chan |-> IF d = c THEN IF w = "open" THEN "closing" ELSE w
                                 ELSE IF d \in members /\ Last(members \ {c}) THEN Closing(d) ELSE ws[d]]
    BY <1>4 DEF CleanupSpice, ChanType
  <2>2. \A d \in Chan \ {c} : ws'[d] = ws[d]
    BY <2>1, NotLast
  <2>3. ws'[c] \in {"closing", "closed"}
    BY <1>2, <2>1
  <2>4. \A d \in Chan \ {c} : tcp'[d] = tcp[d] /\ over'[d] = over[d]
    BY <2>1 DEF ChanType
  <2>5. tcp'[c] = Dropped(c) /\ over'[c] = TRUE
    BY <2>1 DEF ChanType
  <2>6. ws' \in [Chan -> {"none", "open", "closing", "closed"}]
    BY <2>1, <2>2, <2>3 DEF ChanType
  <2>7. tcp' \in [Chan -> {"none", "hop", "request", "up", "failed", "closed", "idle", "gone"} \cup Handshake]
        /\ over' \in [Chan -> BOOLEAN]
    BY <1>1, <2>1 DEF ChanType
  <2>8. registered' \in BOOLEAN /\ members' \subseteq Chan /\ UNCHANGED hop
    BY <1>4, <2>1, Forgetting DEF End
  <2>. QED BY <1>1, <1>4, <2>1, <2>2, <2>3, <2>4, <2>5, <2>6, <2>7, <2>8 DEF ChanType, SessionType
<1>5. CASE proto # "spice" /\ UNCHANGED over /\ UNCHANGED members
           /\ tcp' = [tcp EXCEPT ![c] = Dropped(c)]
           /\ ws' = [ws EXCEPT ![c] = IF w = "open" THEN "closing" ELSE w]
           /\ registered' \in BOOLEAN /\ hop' \in {"none", "up", "killed"}
  <2>1. tcp'[c] = Dropped(c) /\ ws'[c] \in {"closing", "closed"}
    BY <1>2, <1>5 DEF ChanType
  <2>2. \A d \in Chan \ {c} : ws'[d] = ws[d] /\ tcp'[d] = tcp[d]
    BY <1>5 DEF ChanType
  <2>3. ChanType'
    BY <1>1, <1>2, <1>5 DEF ChanType
  <2>. QED BY <1>1, <1>5, <2>1, <2>2, <2>3 DEF SessionType
<1>6. CASE proto = "rdp" /\ CleanupRdp(c, w) /\ UNCHANGED hop
  BY <1>5, <1>6 DEF CleanupRdp, SessionType
<1>7. CASE proto = "vnc" /\ KillVnc(c, w) /\ hop' = HopAfter
  BY <1>5, <1>7 DEF KillVnc, HopAfter, SessionType
<1>. QED BY <1>3, <1>4, <1>6, <1>7 DEF End

LEMMA Ending ==
    ASSUME RelayIInv, NEW c \in Chan, NEW w \in {ws[c], "closed"}, End(c, w), ws[c] # "none",
           UNCHANGED <<proto, joined, msgVars>>
    PROVE  RelayIInv'
<1>. USE DEF RelayIInv
<1>1. SessionType /\ ChanType /\ MsgType
  BY Types
<1>2. UNCHANGED <<proto, joined, sent, buffer, got, heard, reply>>
  BY DEF msgVars
<1>3. /\ ChanType'
      /\ \A d \in Chan : /\ tcp'[d] = tcp[d] \/ (tcp[d] = "up" /\ tcp'[d] = "closed")
                         /\ ws'[d] = "none" <=> ws[d] = "none"
                         /\ ws'[d] = "open" => ws[d] = "open"
      /\ \A d \in Chan \ {c} : over'[d] = over[d]
      /\ over'[c] = over[c] \/ (proto = "spice" /\ over'[c] = TRUE /\ over[c] = FALSE /\ Forget(c))
      /\ proto = "spice" /\ over'[c] = over[c] => UNCHANGED <<members, registered>>
      /\ registered' \in BOOLEAN /\ members' \subseteq Chan /\ hop' \in {"none", "up", "killed"}
  BY <1>1, <1>2, Ended
<1>4. RelayTypeOK'
  BY <1>1, <1>2, <1>3 DEF RelayTypeOK, SessionType, ChanType, MsgType
<1>5. tcp[c] # "none"
  BY DEF Delivers, ChanOK, Phase
<1>6. Delivers'
  BY <1>2, <1>3, <1>5, ChannelsKept DEF Fades
<1>7. Known'
  <2>. SUFFICES ASSUME NEW d \in Chan, proto = "spice", ws'[d] = "open", ~over'[d], tcp'[d] \in {"connect", "up"}
                PROVE  registered' /\ d \in members'
    BY <1>2 DEF Known
  <2>1. ws[d] = "open" /\ ~over[d] /\ tcp[d] \in {"connect", "up"}
    BY <1>3
  <2>2. registered /\ d \in members
    BY <2>1 DEF Known
  <2>3. CASE over'[c] = over[c]
    BY <1>3, <2>2, <2>3
  <2>4. CASE over'[c] = TRUE /\ Forget(c)
    <3>1. d # c
      BY <2>4
    <3>. QED BY <1>1, <2>2, <2>4, <3>1, Forgetting
  <2>. QED BY <1>3, <2>3, <2>4
<1>. QED BY <1>4, <1>6, <1>7

\* The socket of a channel ends, or its websocket closes.
LEMMA Parting ==
    ASSUME RelayIInv, NEW c \in Chan, ServerEnds(c) \/ WsCloses(c)
    PROVE  RelayIInv'
<1>. USE DEF RelayIInv
<1>1. SessionType /\ ChanType /\ MsgType
  BY Types
<1>2. UNCHANGED <<proto, joined, msgVars>> /\ UNCHANGED <<sent, buffer, got, heard, reply>>
  BY DEF ServerEnds, WsCloses, msgVars
<1>3. ChanOK(c)
  BY DEF Delivers
<1>4. ws[c] # "none"
  BY <1>3 DEF ServerEnds, WsCloses, ChanOK, Phase
<1>5. CASE End(c, ws[c]) \/ End(c, "closed")
  BY <1>2, <1>4, <1>5, Ending
<1>6. CASE /\ tcp[c] = "up" /\ over[c] /\ tcp' = [tcp EXCEPT ![c] = "closed"]
           /\ UNCHANGED <<ws, over, members, registered, hop>>
  <2>1. RelayTypeOK'
    BY <1>1, <1>2, <1>6 DEF RelayTypeOK, SessionType, ChanType, MsgType
  <2>2. \A d \in Chan : tcp'[d] = tcp[d] \/ (tcp[d] = "up" /\ tcp'[d] = "closed")
    BY <1>1, <1>6 DEF ChanType
  <2>3. Delivers'
    BY <1>2, <1>6, <2>2, ChannelsKept DEF Fades
  <2>4. Known'
    BY <1>2, <1>6, <2>2, KnownKept
  <2>. QED BY <2>1, <2>3, <2>4
<1>7. CASE /\ ws[c] \in {"open", "closing"} /\ ws' = [ws EXCEPT ![c] = "closed"]
           /\ UNCHANGED <<tcp, over, members, registered, hop>>
  <2>1. RelayTypeOK'
    BY <1>1, <1>2, <1>7 DEF RelayTypeOK, SessionType, ChanType, MsgType
  <2>2. ws'[c] = "closed" /\ \A d \in Chan \ {c} : ws'[d] = ws[d]
    BY <1>1, <1>7 DEF ChanType
  <2>3. \A d \in Chan : (ws'[d] = "none" <=> ws[d] = "none") /\ (ws'[d] = "open" => ws[d] = "open")
    BY <1>7, <2>2
  <2>4. Delivers'
    BY <1>2, <1>7, <2>3, ChannelsKept DEF Fades
  <2>5. Known'
    BY <1>2, <1>7, <2>3, KnownKept
  <2>. QED BY <2>1, <2>4, <2>5
<1>. QED BY <1>5, <1>6, <1>7 DEF ServerEnds, WsCloses

\* The socket of a SPICE channel cannot be connected.
LEMMA Unconnected ==
    ASSUME SessionType, ChanType, NEW c \in Chan, ConnectFails(c)
    PROVE  /\ \A d \in Chan \ {c} : ws'[d] = ws[d] /\ tcp'[d] = tcp[d]
           /\ tcp'[c] = "failed" /\ ws'[c] = Closing(c)
           /\ ws' = [d \in Chan |-> IF d = c THEN Closing(c) ELSE ws[d]]
<1>1. /\ tcp' = [tcp EXCEPT ![c] = "failed"]
      /\ ws' = [d \in Chan |-> IF d = c \/ (d \in members /\ Last(members \ {c})) THEN Closing(d) ELSE ws[d]]
  BY DEF ConnectFails
<1>2. \A d \in Chan \ {c} : ~(d \in members /\ Last(members \ {c}))
  BY NotLast
<1>. QED BY <1>1, <1>2 DEF ChanType

LEMMA Failing ==
    ASSUME RelayIInv, NEW c \in Chan, ConnectFails(c)
    PROVE  RelayIInv'
<1>. USE DEF RelayIInv
<1>1. SessionType /\ ChanType /\ MsgType
  BY Types
<1>2. /\ UNCHANGED <<proto, hop, over, joined, sent, buffer, got, heard, reply>>
      /\ proto = "spice" /\ tcp[c] = "connect" /\ Forget(c) /\ tcp' = [tcp EXCEPT ![c] = "failed"]
  BY DEF ConnectFails, msgVars
<1>3. /\ \A d \in Chan \ {c} : ws'[d] = ws[d] /\ tcp'[d] = tcp[d]
      /\ tcp'[c] = "failed" /\ ws'[c] = Closing(c)
      /\ ws' = [d \in Chan |-> IF d = c THEN Closing(c) ELSE ws[d]]
  BY <1>1, Unconnected
<1>4. Closing(c) \in {"none", "closing", "closed"} /\ (Closing(c) = "none" <=> ws[c] = "none")
  BY <1>1 DEF Closing, ChanType
<1>5. RelayTypeOK'
  <2>1. ChanType'
    BY <1>1, <1>2, <1>3, <1>4 DEF ChanType
  <2>2. SessionType' /\ MsgType'
    BY <1>1, <1>2, Forgetting DEF SessionType, MsgType
  <2>. QED BY <2>1, <2>2 DEF RelayTypeOK, SessionType, ChanType, MsgType
<1>6. Delivers'
  BY <1>2, <1>3, <1>4, ChannelsKept DEF Fades
<1>7. Known'
  <2>. SUFFICES ASSUME NEW d \in Chan, ws'[d] = "open", ~over'[d], tcp'[d] \in {"connect", "up"}
                PROVE  registered' /\ d \in members'
    BY DEF Known
  <2>1. d # c
    BY <1>3
  <2>2. registered /\ d \in members
    BY <1>2, <1>3, <2>1 DEF Known
  <2>. QED BY <1>1, <1>2, <2>1, <2>2, Forgetting
<1>. QED BY <1>5, <1>6, <1>7

\* The session is killed.
LEMMA Killing ==
    ASSUME RelayIInv, Kill
    PROVE  RelayIInv'
<1>. USE DEF RelayIInv
<1>1. SessionType /\ ChanType /\ MsgType
  BY Types
<1>2. /\ UNCHANGED <<proto, over, joined, sent, buffer, got, heard, reply>>
      /\ registered' = FALSE /\ members' = {} /\ hop' = HopAfter
      /\ ws' = [c \in Chan |-> IF proto # "spice" \/ c \in members THEN Closing(c) ELSE ws[c]]
      /\ tcp' = [c \in Chan |-> IF proto = "vnc" THEN Dropped(c) ELSE tcp[c]]
  BY DEF Kill, msgVars
<1>3. \A d \in Chan : /\ Closing(d) \in {ws[d], "closing"} /\ (Closing(d) = "none" <=> ws[d] = "none")
                      /\ Closing(d) # "open"
  BY <1>1 DEF Closing, ChanType
<1>4. \A d \in Chan : Dropped(d) = tcp[d] \/ (tcp[d] = "up" /\ Dropped(d) = "closed")
  BY DEF Dropped
<1>5. RelayTypeOK'
  <2>1. ChanType'
    BY <1>1, <1>2, <1>3, <1>4 DEF ChanType
  <2>2. SessionType' /\ MsgType'
    BY <1>1, <1>2 DEF SessionType, MsgType, HopAfter
  <2>. QED BY <2>1, <2>2 DEF RelayTypeOK, SessionType, ChanType, MsgType
<1>6. Delivers'
  <2>1. \A d \in Chan : tcp'[d] = tcp[d] \/ (tcp[d] = "up" /\ tcp'[d] = "closed")
    BY <1>2, <1>4
  <2>2. \A d \in Chan : ws[d] = "none" <=> ws'[d] = "none"
    BY <1>2, <1>3
  <2>. QED BY <1>2, <2>1, <2>2, ChannelsKept DEF Fades
<1>7. Known'
  <2>. SUFFICES ASSUME NEW d \in Chan, proto = "spice", ws'[d] = "open", ~over'[d], tcp'[d] \in {"connect", "up"}
                PROVE  FALSE
    BY <1>2 DEF Known
  <2>1. d \notin members /\ ws[d] = "open" /\ tcp'[d] = tcp[d] /\ ~over[d]
    BY <1>2, <1>3
  <2>. QED BY <2>1 DEF Known
<1>. QED BY <1>5, <1>6, <1>7

-----------------------------------------------------------------------------
(* The invariants.                                                         *)

LEMMA Initially == RelayInit => RelayIInv
<1>. SUFFICES ASSUME RelayInit PROVE RelayIInv
  OBVIOUS
<1>1. 0 \in 0 .. MaxMsgs /\ <<>> \in Seq(1 .. MaxMsgs)
  BY RelayAssumption, EmptySeq
<1>2. RelayTypeOK
  BY <1>1 DEF RelayInit, RelayTypeOK
<1>3. ASSUME NEW c \in Chan PROVE ChanOK(c)
  <2>1. /\ ws[c] = "none" /\ tcp[c] = "none" /\ over[c] = FALSE /\ sent[c] = 0 /\ heard[c] = FALSE
        /\ buffer[c] = <<>> /\ got[c] = <<>> /\ reply[c] = "none"
    BY DEF RelayInit
  <2>2. 0 \in 0 .. sent[c] /\ FirstOnes(0) = <<>>
    BY <2>1, FirstOnesEmpty
  <2>. QED BY <2>1, <2>2 DEF ChanOK, Phase, Spoken, Kept, Written, Handshake
<1>4. Known
  BY DEF RelayInit, Known
<1>. QED BY <1>2, <1>3, <1>4 DEF RelayIInv, Delivers

LEMMA EveryStep == RelayIInv /\ [RelayNext]_relayVars => RelayIInv'
<1>. SUFFICES ASSUME RelayIInv, [RelayNext]_relayVars PROVE RelayIInv'
  OBVIOUS
<1>1. ASSUME NEW c \in Chan, Start(c) PROVE RelayIInv'
  BY <1>1, Starting
<1>2. ASSUME NEW c \in Chan, Setup(c) PROVE RelayIInv'
  BY <1>2, Hopping, Connecting, Failing, Shaking DEF Setup
<1>3. ASSUME NEW c \in Chan, Message(c) PROVE RelayIInv'
  BY <1>3, Messaging
<1>4. ASSUME NEW c \in Chan, ServerData(c) \/ ServerHangsUp(c) \/ IdleTimeout(c) PROVE RelayIInv'
  BY <1>4, Hearing, HangingUp, Idling
<1>5. ASSUME NEW c \in Chan, ServerEnds(c) \/ WsCloses(c) PROVE RelayIInv'
  BY <1>5, Parting
<1>6. CASE Kill
  BY <1>6, Killing
<1>7. CASE UNCHANGED relayVars
  <2>1. /\ UNCHANGED <<proto, registered, members, hop, ws, tcp, over, joined, sent, buffer, got, heard, reply>>
    BY <1>7 DEF relayVars, chanVars, msgVars
  <2>2. RelayTypeOK'
    BY <2>1 DEF RelayIInv, RelayTypeOK
  <2>3. Delivers'
    BY <2>1, ChannelsKept DEF RelayIInv, Fades
  <2>4. Known'
    BY <2>1 DEF RelayIInv, Known
  <2>. QED BY <2>2, <2>3, <2>4 DEF RelayIInv
<1>. QED BY <1>1, <1>2, <1>3, <1>4, <1>5, <1>6, <1>7 DEF RelayNext

LEMMA RelayInvariant == RelaySpec => []RelayIInv
<1>. QED BY Initially, EveryStep, PTL DEF RelaySpec

\* What the server has got are the first messages of the browser, all of them as long
\* as both ends are up.
LEMMA Ordered == RelayIInv => InOrder
<1>. SUFFICES ASSUME RelayIInv, NEW c \in Chan
              PROVE  /\ got[c] = [i \in 1 .. Len(got[c]) |-> i]
                     /\ tcp[c] = "up" /\ joined[c] /\ ~over[c] /\ ws[c] = "open" => Len(got[c]) = sent[c]
  BY DEF InOrder
<1>1. Written(c) /\ sent[c] \in Nat
  BY Types, RelayAssumption DEF RelayIInv, Delivers, ChanOK, MsgType
<1>2. PICK n \in 0 .. sent[c] : got[c] = FirstOnes(n)
  BY <1>1 DEF Written
<1>3. Len(got[c]) = n
  BY <1>1, <1>2, FirstOnesSeq
<1>4. tcp[c] = "up" /\ ~over[c] => Len(got[c]) = sent[c]
  <2>1. sent[c] \in 0 .. sent[c]
    BY <1>1
  <2>. QED BY <1>1, <2>1, FirstOnesSeq DEF Written
<1>. QED BY <1>2, <1>3, <1>4 DEF FirstOnes

\* For any channels and any number of messages, a relay delivers what the browser
\* sent in order and without a gap while both ends are up, and a SPICE session is
\* registered, with its channels, as long as one of them has both ends.
THEOREM RelayInvHolds == RelaySpec => []RelayInv
<1>1. RelayIInv => RelayInv
  BY Ordered DEF RelayIInv, RelayInv
<1>. QED BY <1>1, RelayInvariant, PTL

-----------------------------------------------------------------------------
(* The end of a channel.                                                   *)

\* What SiblingsLive says of a step.
Spared == \A c, d \in Chan : proto = "spice" /\ c # d /\ ChannelEnds(c) => ws'[d] = ws[d] /\ tcp'[d] = tcp[d]

\* A step of one channel that leaves the others as they are.
LEMMA SparedByOne ==
    ASSUME NEW x \in Chan,
           \A d \in Chan \ {x} : ws'[d] = ws[d] /\ tcp'[d] = tcp[d] /\ over'[d] = over[d]
    PROVE  Spared
BY DEF Spared, ChannelEnds

LEMMA SparedByAll == RelayIInv /\ [RelayNext]_relayVars => Spared
<1>. SUFFICES ASSUME RelayIInv, [RelayNext]_relayVars PROVE Spared
  OBVIOUS
<1>1. SessionType /\ ChanType
  BY Types DEF RelayIInv
<1>2. ASSUME NEW x \in Chan, Start(x) PROVE Spared
  <2>1. \A d \in Chan \ {x} : ws'[d] = ws[d] /\ tcp'[d] = tcp[d] /\ over'[d] = over[d]
    BY <1>1, <1>2 DEF Start, ChanType
  <2>. QED BY <2>1, SparedByOne
<1>3. ASSUME NEW x \in Chan, ConnectFails(x) PROVE Spared
  <2>1. UNCHANGED over
    BY <1>3 DEF ConnectFails
  <2>. QED BY <1>1, <1>3, <2>1, Unconnected, SparedByOne
<1>4. ASSUME NEW x \in Chan, Setup(x), ~ConnectFails(x) PROVE Spared
  <2>1. UNCHANGED over
    BY <1>4 DEF Setup, Hopped, HopFails, Connected, HandshakeStep, HandshakeDone, HandshakeFails
  <2>2. \A d \in Chan \ {x} : tcp'[d] = tcp[d]
    BY <1>1, <1>4 DEF Setup, Hopped, HopFails, Connected, HandshakeStep, HandshakeDone, HandshakeFails, ChanType
  <2>3. \A d \in Chan \ {x} : ws'[d] = ws[d]
    BY <1>1, <1>4 DEF Setup, Hopped, HopFails, Connected, HandshakeStep, HandshakeDone, HandshakeFails, ChanType
  <2>. QED BY <2>1, <2>2, <2>3, SparedByOne
<1>5. ASSUME NEW x \in Chan, Message(x) \/ ServerData(x) \/ ServerHangsUp(x) \/ IdleTimeout(x) PROVE Spared
  <2>1. UNCHANGED <<ws, over>>
    BY <1>5 DEF Message, ServerData, ServerHangsUp, IdleTimeout, chanVars
  <2>2. \A d \in Chan \ {x} : tcp'[d] = tcp[d]
    BY <1>1, <1>5 DEF Message, ServerData, ServerHangsUp, IdleTimeout, chanVars, ChanType
  <2>. QED BY <2>1, <2>2, SparedByOne
<1>6. ASSUME NEW x \in Chan, ServerEnds(x) \/ WsCloses(x) PROVE Spared
  <2>1. CASE End(x, ws[x]) \/ End(x, "closed")
    <3>1. ws[x] # "none"
      BY <1>6 DEF RelayIInv, Delivers, ChanOK, Phase, ServerEnds, WsCloses
    <3>2. UNCHANGED joined
      BY <1>6 DEF ServerEnds, WsCloses
    <3>. QED BY <1>1, <2>1, <3>1, <3>2, Ended, SparedByOne
  <2>2. CASE ~(End(x, ws[x]) \/ End(x, "closed"))
    <3>1. UNCHANGED over
      BY <1>6, <2>2 DEF ServerEnds, WsCloses
    <3>2. \A d \in Chan \ {x} : ws'[d] = ws[d] /\ tcp'[d] = tcp[d]
      BY <1>1, <1>6, <2>2 DEF ServerEnds, WsCloses, ChanType
    <3>. QED BY <3>1, <3>2, SparedByOne
  <2>. QED BY <2>1, <2>2
<1>7. CASE Kill
  <2>1. UNCHANGED over /\ (proto = "spice" => \A d \in Chan : tcp'[d] = tcp[d])
    BY <1>7 DEF Kill
  <2>. QED BY <2>1 DEF Spared, ChannelEnds
<1>8. CASE UNCHANGED relayVars
  BY <1>8 DEF relayVars, chanVars, Spared
<1>. QED BY <1>2, <1>3, <1>4, <1>5, <1>6, <1>7, <1>8 DEF RelayNext

\* For any channels, the end of one channel of a SPICE session (its cleanup, or a
\* connection that fails) neither closes the websocket of another nor drops its
\* socket: onCleanup takes the session along only with its last channel.
THEOREM SiblingsLiveHolds == RelaySpec => SiblingsLive
<1>1. RelayIInv /\ [RelayNext]_relayVars => [\A c, d \in Chan : proto = "spice" /\ c # d /\ ChannelEnds(c)
                                             => ws'[d] = ws[d] /\ tcp'[d] = tcp[d]]_relayVars
  BY SparedByAll DEF Spared
<1>. QED BY <1>1, RelayInvariant, PTL DEF RelaySpec, SiblingsLive

-----------------------------------------------------------------------------
(* TermOutput.                                                             *)

(* The bytes of a sequence of chunks.                                      *)

\* Every set of positions has a first one.
LEMMA LeastOne ==
  ASSUME NEW S \in SUBSET Nat, S # {}
  PROVE  \E m \in S : \A k \in S : m <= k
<1>. PICK n \in S : TRUE
  OBVIOUS
<1>. DEFINE segments == {0 .. k : k \in {j \in S : j <= n}}
<1>1. segments \subseteq FiniteSubsetsOf(0 .. n)
  <2>. SUFFICES ASSUME NEW k \in S, k <= n PROVE 0 .. k \in FiniteSubsetsOf(0 .. n)
    OBVIOUS
  <2>1. IsFiniteSet(0 .. k)
    BY FS_Interval
  <2>. QED BY <2>1 DEF FiniteSubsetsOf
<1>2. segments # {}
  <2>1. 0 .. n \in segments
    OBVIOUS
  <2>. QED BY <2>1
<1>3. PICK A \in segments : \A B \in segments : <<B, A>> \notin StrictSubsetOrdering(0 .. n)
  <2>. HIDE DEF segments
  <2>. QED BY <1>1, <1>2, FS_StrictSubsetOrderingWellFounded, WFMin, Zenon
<1>4. PICK m \in S : m <= n /\ A = 0 .. m
  OBVIOUS
<1>5. ASSUME NEW k \in S, k < m PROVE FALSE
  <2>0. k \in Nat /\ m \in Nat /\ n \in Nat /\ k <= n
    <3>1. k \in Nat /\ m \in Nat /\ n \in Nat
      OBVIOUS
    <3>2. m <= n /\ k < m
      BY <1>4, <1>5
    <3>. HIDE DEF segments
    <3>. QED BY <3>1, <3>2
  <2>1. 0 .. k \in segments
    BY <2>0
  <2>2. 0 .. k \subseteq 0 .. m /\ 0 .. k # 0 .. m
    BY <1>5, m \in 0 .. m, m \notin 0 .. k
  <2>3. 0 .. k \in SUBSET (0 .. n) /\ 0 .. m \in SUBSET (0 .. n)
    BY <1>4, <2>0
  <2>. QED BY <2>1, <2>2, <2>3, <1>3, <1>4 DEF StrictSubsetOrdering
<1>. QED BY <1>5

\* How far the chunks bufs were joined.
Joins(g, bufs, n) ==
  /\ g[0] = <<>>
  /\ \A i \in 1 .. n : g[i] = g[i - 1] \o Positions(bufs[i])

LEMMA JoinExists ==
  ASSUME NEW S, NEW T, \A x \in S : Positions(x) \in Seq(T), NEW bufs \in Seq(S)
  PROVE  \E g \in [0 .. Len(bufs) -> Seq(T)] : Joins(g, bufs, Len(bufs))
<1>. DEFINE Has(n) == \E g \in [0 .. n -> Seq(T)] : Joins(g, bufs, n)
            not == {n \in 0 .. Len(bufs) : ~Has(n)}
<1>1. ASSUME not # {} PROVE FALSE
  <2>0. not \subseteq Nat
    OBVIOUS
  <2>1. PICK m \in not : \A n \in not : m <= n
    <3>. HIDE DEF not
    <3>. QED BY <1>1, <2>0, LeastOne
  <2>2. m # 0
    <3>. DEFINE z == [i \in 0 .. 0 |-> <<>>]
    <3>1. z \in [0 .. 0 -> Seq(T)] /\ z[0] = <<>>
      OBVIOUS
    <3>2. 1 .. 0 = {}
      OBVIOUS
    <3>. HIDE DEF z
    <3>3. Has(0)
      BY <3>1, <3>2, Zenon DEF Joins
    <3>. QED BY <3>3
  <2>3. m \in 1 .. Len(bufs) /\ m - 1 \in 0 .. Len(bufs)
    BY <2>2
  <2>4. Has(m - 1)
    <3>. HIDE DEF Has
    <3>. QED BY <2>1, <2>3
  <2>5. PICK g \in [0 .. m - 1 -> Seq(T)] : Joins(g, bufs, m - 1)
    BY <2>4
  <2>. DEFINE last == g[m - 1] \o Positions(bufs[m])
              h == [i \in 0 .. m |-> IF i = m THEN last ELSE g[i]]
  <2>6. last \in Seq(T)
    <3>1. Positions(bufs[m]) \in Seq(T) /\ g[m - 1] \in Seq(T)
      BY <2>3
    <3>. QED BY <3>1
  <2>7. h \in [0 .. m -> Seq(T)] /\ h[0] = <<>>
    <3>. HIDE DEF last
    <3>0. m \in Nat
      BY <2>1
    <3>1. ASSUME NEW i \in 0 .. m, i # m PROVE i \in 0 .. m - 1
      BY <3>0, <3>1
    <3>2. g \in [0 .. m - 1 -> Seq(T)]
      BY <2>5
    <3>3. ASSUME NEW i \in 0 .. m PROVE h[i] \in Seq(T)
      <4>1. CASE i = m
        BY <2>6, <4>1
      <4>2. CASE i # m
        <5>1. g[i] \in Seq(T)
          BY <3>1, <3>2, <4>2
        <5>. QED BY <4>2, <5>1
      <4>. QED BY <4>1, <4>2
    <3>4. 0 \in 0 .. m /\ 0 # m /\ g[0] = <<>>
      BY <2>3, <2>5 DEF Joins
    <3>. QED BY <3>3, <3>4
  <2>8. \A i \in 1 .. m : h[i] = h[i - 1] \o Positions(bufs[i])
    <3>1. h[m] = last /\ h[m - 1] = g[m - 1]
      BY <2>3
    <3>2. \A i \in 1 .. m - 1 : h[i] = g[i] /\ h[i - 1] = g[i - 1]
      BY <2>3
    <3>. HIDE DEF h
    <3>3. ASSUME NEW i \in 1 .. m - 1 PROVE h[i] = h[i - 1] \o Positions(bufs[i])
      BY <2>5, <3>2 DEF Joins
    <3>4. h[m] = h[m - 1] \o Positions(bufs[m])
      BY <3>1
    <3>5. 1 .. m = (1 .. m - 1) \cup {m}
      BY <2>3
    <3>. QED BY <3>3, <3>4, <3>5
  <2>9. Has(m)
    <3>. HIDE DEF h
    <3>. QED BY <2>7, <2>8 DEF Joins
  <2>. QED BY <2>9
<1>2. Has(Len(bufs))
  BY <1>1
<1>. QED BY <1>2

\* Chunks are joined in one way.
LEMMA JoinUnique ==
  ASSUME NEW n \in Nat, NEW bufs, NEW more, NEW g, NEW h, Joins(g, bufs, n), Joins(h, more, n),
         \A i \in 1 .. n : more[i] = bufs[i]
  PROVE  g[n] = h[n]
<1>. DEFINE not == {i \in 0 .. n : g[i] # h[i]}
<1>1. ASSUME not # {} PROVE FALSE
  <2>0. not \subseteq Nat
    OBVIOUS
  <2>1. PICK m \in not : \A i \in not : m <= i
    <3>. HIDE DEF not
    <3>. QED BY <1>1, <2>0, LeastOne
  <2>2. m \in 1 .. n /\ m - 1 \in 0 .. n
    BY DEF Joins
  <2>3. g[m - 1] = h[m - 1]
    BY <2>1, <2>2
  <2>. QED BY <2>1, <2>2, <2>3 DEF Joins
<1>. QED BY <1>1

\* Concat is the function that its definition describes.
LEMMA ConcatIs ==
  ASSUME NEW S, NEW T, \A x \in S : Positions(x) \in Seq(T), NEW bufs \in Seq(S)
  PROVE  \E g \in [0 .. Len(bufs) -> Seq(T)] : Joins(g, bufs, Len(bufs)) /\ Concat(bufs) = g[Len(bufs)]
<1>. DEFINE g == CHOOSE g : g = [k \in 0 .. Len(bufs) |->
                                   IF k = 0 THEN <<>> ELSE g[k - 1] \o Positions(bufs[k])]
<1>1. PICK h \in [0 .. Len(bufs) -> Seq(T)] : Joins(h, bufs, Len(bufs))
  BY JoinExists
<1>2. h = [k \in 0 .. Len(bufs) |-> IF k = 0 THEN <<>> ELSE h[k - 1] \o Positions(bufs[k])]
  <2>1. 0 .. Len(bufs) = {0} \cup 1 .. Len(bufs) /\ 0 \notin 1 .. Len(bufs)
    OBVIOUS
  <2>2. \A k \in 0 .. Len(bufs) : h[k] = IF k = 0 THEN <<>> ELSE h[k - 1] \o Positions(bufs[k])
    BY <1>1, <2>1 DEF Joins
  <2>. QED BY <1>1, <2>2
<1>3. g = [k \in 0 .. Len(bufs) |-> IF k = 0 THEN <<>> ELSE g[k - 1] \o Positions(bufs[k])]
  BY <1>2, Zenon
<1>4. Concat(bufs) = g[Len(bufs)]
  BY DEF Concat
<1>. HIDE DEF g
<1>5. Joins(g, bufs, Len(bufs))
  <2>1. g[0] = <<>>
    BY <1>3
  <2>2. ASSUME NEW i \in 1 .. Len(bufs) PROVE g[i] = g[i - 1] \o Positions(bufs[i])
    <3>1. i \in 0 .. Len(bufs) /\ i # 0
      OBVIOUS
    <3>. QED BY <1>3, <3>1
  <2>. QED BY <2>1, <2>2 DEF Joins
<1>6. g[Len(bufs)] = h[Len(bufs)]
  BY <1>1, <1>5, JoinUnique
<1>. QED BY <1>1, <1>4, <1>6

LEMMA ConcatEmpty == Concat(<<>>) = <<>>
<1>1. <<>> \in Seq({}) /\ Len(<<>>) = 0
  OBVIOUS
<1>2. PICK g : Joins(g, <<>>, 0) /\ Concat(<<>>) = g[0]
  <2>1. \A x \in {} : Positions(x) \in Seq({})
    OBVIOUS
  <2>. QED BY <1>1, <2>1, ConcatIs
<1>. QED BY <1>2 DEF Joins

LEMMA ConcatType ==
  ASSUME NEW S, NEW T, \A x \in S : Positions(x) \in Seq(T), NEW bufs \in Seq(S)
  PROVE  Concat(bufs) \in Seq(T)
<1>1. PICK g \in [0 .. Len(bufs) -> Seq(T)] : Concat(bufs) = g[Len(bufs)]
  BY ConcatIs
<1>2. Len(bufs) \in 0 .. Len(bufs)
  OBVIOUS
<1>. QED BY <1>1, <1>2

\* One chunk more brings its positions.
LEMMA ConcatAppend ==
  ASSUME NEW S, NEW T, \A x \in S : Positions(x) \in Seq(T), NEW bufs \in Seq(S), NEW x \in S
  PROVE  Concat(Append(bufs, x)) = Concat(bufs) \o Positions(x)
<1>. DEFINE more == Append(bufs, x)
<1>1. more \in Seq(S) /\ Len(more) = Len(bufs) + 1 /\ more[Len(bufs) + 1] = x
      /\ \A i \in 1 .. Len(bufs) : more[i] = bufs[i]
  BY AppendProperties
<1>. HIDE DEF more
<1>0. Len(bufs) \in Nat /\ Len(bufs) + 1 \in 1 .. Len(more) /\ 1 .. Len(bufs) \subseteq 1 .. Len(more)
      /\ (Len(bufs) + 1) - 1 = Len(bufs)
  BY <1>1
<1>2. PICK g : Joins(g, bufs, Len(bufs)) /\ Concat(bufs) = g[Len(bufs)]
  BY ConcatIs
<1>3. PICK h : Joins(h, more, Len(more)) /\ Concat(more) = h[Len(more)]
  BY <1>1, ConcatIs
<1>4. h[Len(bufs) + 1] = h[Len(bufs)] \o Positions(x)
  BY <1>0, <1>1, <1>3 DEF Joins
<1>5. Joins(h, more, Len(bufs))
  BY <1>0, <1>3 DEF Joins
<1>6. g[Len(bufs)] = h[Len(bufs)]
  <2>1. Joins(g, bufs, Len(bufs)) /\ \A i \in 1 .. Len(bufs) : more[i] = bufs[i]
    BY <1>1, <1>2
  <2>2. Len(bufs) \in Nat
    BY <1>0
  <2>. HIDE DEF Joins
  <2>. QED BY <1>5, <2>1, <2>2, JoinUnique
<1>. QED BY <1>1, <1>2, <1>3, <1>4, <1>6 DEF more

-----------------------------------------------------------------------------
(* The inductive invariant.                                                *)

Bytes == 1 .. Len(stream)
Spans == Bytes \X Bytes

\* What was sent and what waits is in the order of the stream.
SentInOrder == Rising(toClient \o Concat(dataBuffer))

\* A timer is set when something waits, and is due within one window.
Armed == /\ open /\ dataBuffer # <<>> => timer # Off
         /\ timer # Off => timer <= now + Interval + SetBack
         /\ lastFlush <= now /\ skew \in -SetBack .. 0

\* A session that recognised its start was given all that waited.
AllGiven == active = "detected" => dataBuffer = <<>> /\ toTransfer # <<>>

\* A chunk that waits has bytes.
Pending == dataBuffer # <<>> => Concat(dataBuffer) # <<>>

WireInv == /\ OutputTypeOK /\ dataBuffer \in Seq(Spans) /\ SentInOrder /\ NothingLost
           /\ Armed /\ AllGiven /\ Pending

-----------------------------------------------------------------------------
(* Rising sequences.                                                       *)

LEMMA RisingConcat ==
  ASSUME NEW n \in Nat, NEW s \in Seq(1 .. n), NEW t \in Seq(Nat), Rising(s), Rising(t),
         \A k \in 1 .. Len(t) : t[k] > n
  PROVE  Rising(s \o t)
<1>1. /\ s \in Seq(Nat) /\ Len(s) \in Nat /\ Len(t) \in Nat /\ Len(s \o t) = Len(s) + Len(t)
      /\ \A i \in 1 .. Len(s) + Len(t) : (s \o t)[i] = IF i <= Len(s) THEN s[i] ELSE t[i - Len(s)]
  BY ConcatProperties
<1>. DEFINE u == s \o t
<1>2. SUFFICES ASSUME NEW k \in 1 .. Len(s) + Len(t) - 1 PROVE u[k] < u[k + 1]
  <2>1. Len(u) = Len(s) + Len(t)
    BY <1>1
  <2>. HIDE DEF u
  <2>2. SUFFICES Rising(u)
    BY DEF u
  <2>. QED BY <2>1 DEF Rising
<1>3. u[k] = (IF k <= Len(s) THEN s[k] ELSE t[k - Len(s)])
      /\ u[k + 1] = (IF k + 1 <= Len(s) THEN s[k + 1] ELSE t[k + 1 - Len(s)])
  BY <1>1
<1>. HIDE DEF u
<1>4. CASE k + 1 <= Len(s)
  BY <1>1, <1>3, <1>4 DEF Rising
<1>5. CASE k = Len(s)
  <2>1. s[k] \in 1 .. n /\ t[1] > n /\ t[1] \in Nat /\ k + 1 - Len(s) = 1
    BY <1>1, <1>5
  <2>. QED BY <1>1, <1>3, <1>5, <2>1
<1>6. CASE k > Len(s)
  <2>. DEFINE i == k - Len(s)
  <2>1. i \in 1 .. Len(t) - 1 /\ k + 1 - Len(s) = i + 1
    BY <1>1, <1>6
  <2>2. t[i] < t[i + 1]
    <3>. HIDE DEF i
    <3>. QED BY <2>1 DEF Rising
  <2>. QED BY <1>1, <1>3, <1>6, <2>1, <2>2
<1>. QED BY <1>1, <1>4, <1>5, <1>6

LEMMA RisingPrefix ==
  ASSUME NEW s \in Seq(Nat), NEW t \in Seq(Nat), Rising(s \o t)
  PROVE  Rising(s)
<1>1. /\ Len(s) \in Nat /\ Len(t) \in Nat /\ Len(s \o t) = Len(s) + Len(t)
      /\ \A i \in 1 .. Len(s) + Len(t) : (s \o t)[i] = IF i <= Len(s) THEN s[i] ELSE t[i - Len(s)]
  BY ConcatProperties
<1>2. SUFFICES ASSUME NEW k \in 1 .. Len(s) - 1 PROVE s[k] < s[k + 1]
  BY DEF Rising
<1>3. k \in 1 .. Len(s) + Len(t) - 1 /\ k \in 1 .. Len(s) + Len(t) /\ k + 1 \in 1 .. Len(s) + Len(t)
      /\ k <= Len(s) /\ k + 1 <= Len(s)
  BY <1>1
<1>4. (s \o t)[k] < (s \o t)[k + 1]
  BY <1>1, <1>3 DEF Rising
<1>. QED BY <1>1, <1>3, <1>4

\* A chunk brings new positions, in order.
LEMMA Fresh ==
  ASSUME OutputTypeOK, NEW c \in Chunks, Arrive(c)
  PROVE  /\ stream' \in Seq({"a", "L2", "L3", "c"}) /\ Len(stream') = Len(stream) + Len(c)
         /\ Len(stream') \in Nat /\ Len(stream) \in Nat /\ Len(stream') <= MaxBytes
         /\ Bytes \subseteq Bytes' /\ Span(c) \in Spans'
         /\ Positions(Span(c)) \in Seq(Bytes') /\ Len(Positions(Span(c))) = Len(c)
         /\ Positions(Span(c)) # <<>> /\ Rising(Positions(Span(c)))
         /\ \A k \in 1 .. Len(Positions(Span(c))) : Positions(Span(c))[k] > Len(stream)
<1>. DEFINE n == Len(stream)  m == Len(c)  p == Positions(Span(c))
<1>1. c \in Seq({"a", "L2", "L3", "c"}) /\ m \in Nat \ {0} /\ n \in Nat /\ stream \in Seq({"a", "L2", "L3", "c"})
  BY OutputAssumption DEF OutputTypeOK
<1>2. stream' \in Seq({"a", "L2", "L3", "c"}) /\ Len(stream') = n + m
  BY <1>1, ConcatProperties DEF Arrive
<1>3. n + m <= MaxBytes
  BY DEF Arrive
<1>4. Span(c) = <<n + 1, n + m>> /\ p = [k \in 1 .. m |-> n + k]
  <2>1. Span(c) = <<n + 1, n + m>>
    BY DEF Span
  <2>2. Span(c)[1] = n + 1 /\ Span(c)[2] = n + m
    BY <2>1
  <2>3. (n + m) - (n + 1) + 1 = m /\ \A k \in 1 .. m : (n + 1) + k - 1 = n + k
    BY <1>1
  <2>. QED BY <2>1, <2>2, <2>3 DEF Positions
<1>. HIDE DEF n, m, p
<1>5. Len(p) = m /\ p \in Seq(1 .. n + m) /\ p # <<>> /\ Rising(p) /\ \A k \in 1 .. m : p[k] > n
  <2>1. Len(p) = m /\ p \in Seq(1 .. n + m)
    BY <1>1, <1>4
  <2>2. \A k \in 1 .. m : p[k] = n + k
    BY <1>4
  <2>. QED BY <1>1, <2>1, <2>2 DEF Rising
<1>6. n + 1 \in 1 .. n + m /\ n + m \in 1 .. n + m /\ 1 .. n \subseteq 1 .. n + m /\ n + m \in Nat
  BY <1>1
<1>7. Bytes = 1 .. n /\ Bytes' = 1 .. n + m /\ Spans' = (1 .. n + m) \X (1 .. n + m)
  BY <1>2 DEF Bytes, Spans, n
<1>8. Span(c) \in Spans'
  BY <1>4, <1>6, <1>7
<1>9. Bytes \subseteq Bytes' /\ p \in Seq(Bytes')
  BY <1>5, <1>6, <1>7
<1>10. \A k \in 1 .. Len(p) : p[k] > n
  BY <1>5
<1>. QED BY <1>1, <1>2, <1>3, <1>5, <1>6, <1>8, <1>9, <1>10 DEF n, m, p

\* What is delivered goes to one of two places, in order.
LEMMA Delivered ==
  ASSUME NEW N, N \subseteq Nat, NEW first \in Seq(N), NEW second \in Seq(N), second # <<>>,
         toClient \in Seq(N), toTransfer \in Seq(N), active \in {"no", "detected", "started"},
         Rising((toClient \o first) \o second), Deliver2(first, second), AllGiven
  PROVE  /\ toClient' \in Seq(N) /\ toTransfer' \in Seq(N) /\ active' \in {"no", "detected", "started"}
         /\ Len(toClient') + Len(toTransfer') = Len(toClient) + Len(toTransfer) + Len(first) + Len(second)
         /\ Rising(toClient')
         /\ active' = "detected" => toTransfer' # <<>>
<1>1. PICK taken1 \in BOOLEAN, taken2 \in BOOLEAN :
    /\ active # "no" => taken1
    /\ taken1 => taken2
    /\ active' = IF taken2 /\ active = "no" THEN "detected" ELSE active
    /\ toClient' = toClient \o (IF taken1 THEN <<>> ELSE first)
                            \o (IF taken2 THEN <<>> ELSE second)
    /\ toTransfer' = toTransfer \o (IF taken1 THEN first ELSE <<>>)
                                \o (IF taken2 THEN second ELSE <<>>)
  BY DEF Deliver2
<1>2. <<>> \in Seq(N) /\ Len(<<>>) = 0 /\ \A s \in Seq(N) : s \in Seq(Nat)
  <2>1. <<>> \in Seq(N) /\ Len(<<>>) = 0
    OBVIOUS
  <2>2. ASSUME NEW s \in Seq(N) PROVE s \in Seq(Nat)
    BY SeqMonotonic
  <2>. QED BY <2>1, <2>2
<1>. DEFINE a == toClient \o first
<1>3. a \in Seq(N) /\ Len(a) = Len(toClient) + Len(first)
      /\ toTransfer \o first \in Seq(N) /\ Len(toTransfer \o first) = Len(toTransfer) + Len(first)
  BY ConcatProperties
<1>. HIDE DEF a
<1>4. Rising(a)
  <2>1. a \in Seq(Nat) /\ second \in Seq(Nat) /\ Rising(a \o second)
    BY <1>2, <1>3 DEF a
  <2>. QED BY <2>1, RisingPrefix
<1>5. Rising(toClient)
  <2>1. toClient \in Seq(Nat) /\ first \in Seq(Nat) /\ Rising(toClient \o first)
    BY <1>2, <1>4 DEF a
  <2>. QED BY <2>1, RisingPrefix
<1>6. CASE ~taken1 /\ ~taken2
  <2>1. toClient' = a \o second /\ toTransfer' = toTransfer
    BY <1>1, <1>2, <1>6, ConcatEmptySeq DEF a
  <2>2. active' = active /\ active = "no"
    BY <1>1, <1>6
  <2>3. Rising(toClient')
    BY <2>1 DEF a
  <2>4. toClient' \in Seq(N) /\ Len(toClient') = Len(a) + Len(second)
    BY <1>3, <2>1, ConcatProperties
  <2>5. Len(toClient') + Len(toTransfer') = Len(toClient) + Len(toTransfer) + Len(first) + Len(second)
    <3>1. Len(toClient) \in Nat /\ Len(toTransfer) \in Nat /\ Len(first) \in Nat /\ Len(second) \in Nat
      BY LenProperties
    <3>. QED BY <1>3, <2>1, <2>4, <3>1
  <2>. QED BY <2>1, <2>2, <2>3, <2>4, <2>5
<1>7. CASE ~taken1 /\ taken2
  <2>1. toClient' = a /\ toTransfer' = toTransfer \o second
    BY <1>1, <1>2, <1>3, <1>7, ConcatEmptySeq DEF a
  <2>2. Len(second) \in Nat \ {0} /\ Len(toTransfer) \in Nat
    BY EmptySeq
  <2>3. toTransfer' \in Seq(N) /\ Len(toTransfer') = Len(toTransfer) + Len(second)
    BY <2>1, ConcatProperties
  <2>4. toTransfer' # <<>>
    BY <2>2, <2>3
  <2>5. Len(toClient') + Len(toTransfer') = Len(toClient) + Len(toTransfer) + Len(first) + Len(second)
    <3>1. Len(toClient) \in Nat /\ Len(first) \in Nat /\ Len(toClient') = Len(a)
      BY <2>1, LenProperties
    <3>. QED BY <1>3, <2>2, <2>3, <3>1
  <2>6. toClient' \in Seq(N) /\ Rising(toClient')
    BY <1>3, <1>4, <2>1
  <2>7. active' \in {"no", "detected", "started"}
    BY <1>1
  <2>. QED BY <2>3, <2>4, <2>5, <2>6, <2>7
<1>8. CASE taken1
  <2>1. toClient' = toClient /\ toTransfer' = (toTransfer \o first) \o second
    BY <1>1, <1>2, <1>8, ConcatEmptySeq
  <2>2. Len(second) \in Nat \ {0} /\ Len(toTransfer) \in Nat /\ Len(first) \in Nat
    BY EmptySeq
  <2>3. toTransfer' \in Seq(N) /\ Len(toTransfer') = Len(toTransfer) + Len(first) + Len(second)
    BY <1>3, <2>1, ConcatProperties
  <2>4. toTransfer' # <<>>
    BY <2>2, <2>3
  <2>5. Len(toClient') + Len(toTransfer') = Len(toClient) + Len(toTransfer) + Len(first) + Len(second)
    <3>1. Len(toClient) \in Nat
      BY LenProperties
    <3>. QED BY <2>1, <2>2, <2>3, <3>1
  <2>6. active' \in {"no", "detected", "started"}
    BY <1>1
  <2>. QED BY <1>5, <2>1, <2>3, <2>4, <2>5, <2>6
<1>. QED BY <1>6, <1>7, <1>8

-----------------------------------------------------------------------------
(* The steps.                                                              *)

\* What the invariant says of the bytes that wait.
LEMMA Waiting ==
  ASSUME WireInv
  PROVE  /\ Bytes \subseteq Nat /\ Len(stream) \in Nat
         /\ \A x \in Spans : Positions(x) \in Seq(Bytes)
         /\ Concat(dataBuffer) \in Seq(Bytes)
<1>1. Len(stream) \in Nat
  BY DEF WireInv, OutputTypeOK
<1>2. ASSUME NEW x \in Spans PROVE Positions(x) \in Seq(Bytes)
  <2>1. x[1] \in 1 .. Len(stream) /\ x[2] \in 1 .. Len(stream)
    BY <1>2 DEF Spans, Bytes
  <2>. DEFINE a == x[1]  b == x[2]
  <2>2. Positions(x) = [k \in 1 .. b - a + 1 |-> a + k - 1]
    BY DEF Positions
  <2>. HIDE DEF a, b
  <2>3. a \in 1 .. Len(stream) /\ b \in 1 .. Len(stream)
    BY <2>1 DEF a, b
  <2>4. CASE a <= b
    <3>1. b - a + 1 \in Nat /\ \A k \in 1 .. b - a + 1 : a + k - 1 \in 1 .. Len(stream)
      BY <1>1, <2>3, <2>4
    <3>. QED BY <2>2, <3>1 DEF Bytes
  <2>5. CASE ~(a <= b)
    <3>1. 1 .. b - a + 1 = {}
      BY <1>1, <2>3, <2>5
    <3>2. Positions(x) = <<>>
      BY <2>2, <3>1
    <3>. QED BY <3>2
  <2>. QED BY <2>4, <2>5
<1>3. Concat(dataBuffer) \in Seq(Bytes)
  BY <1>2, ConcatType DEF WireInv
<1>. QED BY <1>1, <1>2, <1>3 DEF Bytes

\* The chunk c after what waits.
LEMMA WaitingLonger ==
  ASSUME WireInv, NEW c \in Chunks, Arrive(c)
  PROVE  /\ Append(dataBuffer, Span(c)) \in Seq(Spans') /\ Append(dataBuffer, Span(c)) # <<>>
         /\ dataBuffer \in Seq(Spans')
         /\ Concat(Append(dataBuffer, Span(c))) = Concat(dataBuffer) \o Positions(Span(c))
         /\ Concat(Append(dataBuffer, Span(c))) \in Seq(Bytes') /\ Concat(Append(dataBuffer, Span(c))) # <<>>
         /\ Len(Concat(Append(dataBuffer, Span(c)))) = Len(Concat(dataBuffer)) + Len(c)
         /\ Rising((toClient \o Concat(dataBuffer)) \o Positions(Span(c)))
         /\ toClient \in Seq(Bytes') /\ toTransfer \in Seq(Bytes') /\ Concat(dataBuffer) \in Seq(Bytes')
<1>. DEFINE p == Positions(Span(c))  w == Concat(dataBuffer)  s == Span(c)
<1>1. /\ Bytes \subseteq Bytes' /\ s \in Spans' /\ p \in Seq(Bytes') /\ Len(p) = Len(c) /\ p # <<>>
      /\ Rising(p) /\ (\A k \in 1 .. Len(p) : p[k] > Len(stream)) /\ Len(stream') \in Nat
  BY Fresh DEF WireInv
<1>2. /\ w \in Seq(Bytes) /\ toClient \in Seq(Bytes) /\ toTransfer \in Seq(Bytes) /\ Len(stream) \in Nat
      /\ \A x \in Spans : Positions(x) \in Seq(Bytes)
  BY Waiting DEF WireInv, OutputTypeOK, Bytes
<1>. HIDE DEF p, w
<1>3. w \in Seq(Bytes') /\ toClient \in Seq(Bytes') /\ toTransfer \in Seq(Bytes') /\ Spans \subseteq Spans'
  BY <1>1, <1>2, SeqMonotonic DEF Spans
<1>4. dataBuffer \in Seq(Spans')
  BY <1>3, SeqMonotonic DEF WireInv
<1>5. Append(dataBuffer, s) \in Seq(Spans') /\ Append(dataBuffer, s) # <<>>
  BY <1>1, <1>4, AppendProperties
<1>6. Concat(Append(dataBuffer, s)) = w \o p
  <2>. DEFINE S == Spans \cup {s}
  <2>1. \A x \in S : Positions(x) \in Seq(Bytes')
    <3>1. \A x \in Spans : Positions(x) \in Seq(Bytes')
      BY <1>1, <1>2, SeqMonotonic
    <3>. QED BY <1>1, <3>1 DEF p
  <2>2. dataBuffer \in Seq(S)
    BY SeqMonotonic DEF WireInv
  <2>3. s \in S
    OBVIOUS
  <2>. HIDE DEF S, s
  <2>4. Concat(Append(dataBuffer, s)) = Concat(dataBuffer) \o Positions(s)
    BY <2>1, <2>2, <2>3, ConcatAppend
  <2>. QED BY <2>4 DEF s, p, w
<1>7. w \o p \in Seq(Bytes') /\ Len(w \o p) = Len(w) + Len(c) /\ w \o p # <<>>
  BY <1>1, <1>3, ConcatProperties, ConcatEqualIffEmpty
<1>8. Rising((toClient \o w) \o p)
  <2>1. toClient \o w \in Seq(1 .. Len(stream)) /\ p \in Seq(Nat)
    <3>1. Bytes' \subseteq Nat
      BY DEF Bytes
    <3>. QED BY <1>1, <1>2, <3>1, ConcatProperties, SeqMonotonic DEF Bytes
  <2>2. Rising(toClient \o w)
    BY DEF WireInv, SentInOrder, w
  <2>. QED BY <1>1, <1>2, <2>1, <2>2, RisingConcat
<1>. QED BY <1>1, <1>3, <1>4, <1>5, <1>6, <1>7, <1>8 DEF p, w, s

\* Nothing has been emitted.
LEMMA Silent == OutputInit => WireInv
<1>. SUFFICES ASSUME OutputInit PROVE WireInv
  OBVIOUS
<1>1. Concat(dataBuffer) = <<>> /\ toClient \o Concat(dataBuffer) = <<>>
  BY ConcatEmpty DEF OutputInit
<1>2. /\ stream = <<>> /\ dataBuffer = <<>> /\ timer = Off /\ lastFlush = 0 /\ active = "no" /\ toClient = <<>>
      /\ toTransfer = <<>> /\ open = TRUE /\ now = Interval /\ skew = 0
  BY DEF OutputInit
<1>3. Len(<<>>) = 0 /\ DOMAIN <<>> = {} /\ \A S : <<>> \in Seq(S)
  OBVIOUS
<1>4. MaxBytes \in Nat /\ MaxTime \in Nat /\ Interval \in 1 .. MaxTime /\ SetBack \in Nat
  BY OutputAssumption
<1>5. OutputTypeOK
  BY <1>2, <1>3, <1>4 DEF OutputTypeOK
<1>6. SentInOrder
  BY <1>1, <1>3 DEF SentInOrder, Rising
<1>7. NothingLost
  BY <1>1, <1>2, <1>3 DEF NothingLost
<1>8. Armed /\ AllGiven /\ Pending /\ dataBuffer \in Seq(Spans)
  BY <1>2, <1>3, <1>4 DEF Armed, AllGiven, Pending
<1>. QED BY <1>5, <1>6, <1>7, <1>8 DEF WireInv

\* The types, from what the steps establish of them.
LEMMA TypesFrom ==
  ASSUME stream' \in Seq({"a", "L2", "L3", "c"}), Len(stream') <= MaxBytes, dataBuffer' \in Seq(Spans'),
         timer' = Off \/ timer' \in Nat, lastFlush' \in Int, skew' \in Int, now' \in 0 .. MaxTime,
         active' \in {"no", "detected", "started"}, open' \in BOOLEAN,
         toClient' \in Seq(Bytes'), toTransfer' \in Seq(Bytes')
  PROVE  OutputTypeOK'
<1>1. ASSUME NEW k \in DOMAIN dataBuffer' PROVE dataBuffer'[k] \in (1 .. Len(stream')) \X (1 .. Len(stream'))
  <2>1. dataBuffer'[k] \in Spans'
    BY ElementOfSeq
  <2>. QED BY <2>1 DEF Spans, Bytes
<1>2. toClient' \in Seq(1 .. Len(stream')) /\ toTransfer' \in Seq(1 .. Len(stream'))
  BY DEF Bytes
<1>. QED BY <1>1, <1>2 DEF OutputTypeOK

\* What waits is sent, and the chunk of a burst after it: the buffer is empty
\* and no timer is set.
LEMMA Sends ==
  ASSUME WireInv, NEW first \in Seq(Bytes'), NEW second \in Seq(Bytes'), second # <<>>, Deliver2(first, second),
         toClient \in Seq(Bytes'), toTransfer \in Seq(Bytes'), Len(stream') \in Nat, Len(stream') <= MaxBytes,
         stream' \in Seq({"a", "L2", "L3", "c"}),
         Rising((toClient \o first) \o second),
         Len(first) + Len(second) = Len(Concat(dataBuffer)) + (Len(stream') - Len(stream)),
         dataBuffer' = <<>>, timer' = Off, lastFlush' \in {lastFlush, Wall}, UNCHANGED <<open, now, skew>>
  PROVE  WireInv'
<1>0. /\ active \in {"no", "detected", "started"} /\ AllGiven /\ Len(stream) \in Nat /\ open \in BOOLEAN
      /\ now \in 0 .. MaxTime /\ skew \in -SetBack .. 0 /\ lastFlush \in Int /\ lastFlush <= now
      /\ MaxTime \in Nat /\ SetBack \in Nat
  BY OutputAssumption DEF WireInv, OutputTypeOK, Armed
<1>1. /\ toClient' \in Seq(Bytes') /\ toTransfer' \in Seq(Bytes') /\ active' \in {"no", "detected", "started"}
      /\ Len(toClient') + Len(toTransfer') = Len(toClient) + Len(toTransfer) + Len(first) + Len(second)
      /\ Rising(toClient') /\ (active' = "detected" => toTransfer' # <<>>)
  <2>1. Bytes' \subseteq Nat
    BY DEF Bytes
  <2>. QED BY <1>0, <2>1, Delivered
<1>2. Concat(dataBuffer') = <<>> /\ toClient' \o Concat(dataBuffer') = toClient' /\ Len(<<>>) = 0
  BY <1>1, ConcatEmpty, ConcatEmptySeq
<1>3. lastFlush' \in Int /\ lastFlush' <= now' /\ now' = now /\ skew' = skew /\ open' = open
  BY <1>0 DEF Wall
<1>4. dataBuffer' \in Seq(Spans')
  OBVIOUS
<1>5. OutputTypeOK'
  <2>1. skew' \in Int /\ now' \in 0 .. MaxTime /\ open' \in BOOLEAN
    BY <1>0, <1>3
  <2>. QED BY <1>1, <1>3, <1>4, <2>1, TypesFrom
<1>6. SentInOrder'
  BY <1>1, <1>2 DEF SentInOrder
<1>7. NothingLost'
  <2>1. Len(toClient) + Len(toTransfer) + Len(Concat(dataBuffer)) = Len(stream)
    BY DEF WireInv, NothingLost
  <2>2. /\ Len(toClient) \in Nat /\ Len(toTransfer) \in Nat /\ Len(first) \in Nat /\ Len(second) \in Nat
        /\ Len(Concat(dataBuffer)) \in Nat /\ Len(toClient') \in Nat /\ Len(toTransfer') \in Nat
    BY <1>1, Waiting, LenProperties
  <2>3. Len(toClient') + Len(toTransfer') = Len(stream')
    BY <1>0, <1>1, <2>1, <2>2
  <2>4. Len(Concat(dataBuffer')) = 0
    BY <1>2
  <2>5. Len(toClient') + Len(toTransfer') + Len(Concat(dataBuffer')) = Len(stream')
    <3>1. Len(toClient') + Len(toTransfer') \in Nat
      BY <2>2
    <3>. DEFINE sum == Len(toClient') + Len(toTransfer')  rest == Len(Concat(dataBuffer'))
    <3>2. sum = Len(stream') /\ sum \in Nat /\ rest = 0
      BY <2>3, <2>4, <3>1
    <3>. HIDE DEF sum, rest
    <3>3. sum + rest = Len(stream')
      BY <3>2
    <3>. QED BY <3>3 DEF sum, rest
  <2>. QED BY <2>5 DEF NothingLost
<1>8. Armed' /\ AllGiven' /\ Pending'
  BY <1>0, <1>1, <1>3 DEF Armed, AllGiven, Pending
<1>. QED BY <1>4, <1>5, <1>6, <1>7, <1>8 DEF WireInv

\* A session takes a chunk at once.
LEMMA ToTransfer ==
  ASSUME WireInv, NEW c \in Chunks, DataToTransfer(c)
  PROVE  WireInv'
<1>. DEFINE p == Positions(Span(c))
<1>0. /\ Arrive(c) /\ active # "no" /\ toTransfer' = toTransfer \o p
      /\ UNCHANGED <<dataBuffer, timer, lastFlush, active, toClient, open, now, skew>>
  BY DEF DataToTransfer, Arrive
<1>1. /\ Bytes \subseteq Bytes' /\ p \in Seq(Bytes') /\ Len(p) = Len(c) /\ p # <<>> /\ Len(stream) \in Nat
      /\ stream' \in Seq({"a", "L2", "L3", "c"}) /\ Len(stream') = Len(stream) + Len(c) /\ Len(stream') <= MaxBytes
  BY <1>0, Fresh DEF WireInv
<1>2. toClient \in Seq(Bytes') /\ toTransfer \in Seq(Bytes') /\ dataBuffer \in Seq(Spans')
  BY <1>0, WaitingLonger
<1>. HIDE DEF p
<1>3. toTransfer' \in Seq(Bytes') /\ Len(toTransfer') = Len(toTransfer) + Len(c) /\ toTransfer' # <<>>
  <2>1. toTransfer' = toTransfer \o p
    BY <1>0
  <2>2. toTransfer \o p \in Seq(Bytes') /\ Len(toTransfer \o p) = Len(toTransfer) + Len(p)
    BY <1>1, <1>2, ConcatProperties
  <2>3. Len(toTransfer) \in Nat /\ Len(p) \in Nat \ {0}
    BY <1>1, <1>2, EmptySeq, LenProperties
  <2>4. Len(toTransfer \o p) # 0
    BY <2>2, <2>3
  <2>. QED BY <1>1, <2>1, <2>2, <2>4
<1>4. dataBuffer' \in Seq(Spans')
  BY <1>0, <1>2
<1>5. OutputTypeOK'
  <2>1. /\ timer' = Off \/ timer' \in Nat
        /\ lastFlush' \in Int /\ skew' \in Int /\ now' \in 0 .. MaxTime
        /\ active' \in {"no", "detected", "started"} /\ open' \in BOOLEAN /\ toClient' \in Seq(Bytes')
    BY <1>0, <1>2 DEF WireInv, OutputTypeOK
  <2>. QED BY <1>1, <1>3, <1>4, <2>1, TypesFrom
<1>6. SentInOrder' /\ Armed' /\ Pending'
  BY <1>0 DEF WireInv, SentInOrder, Armed, Pending
<1>7. NothingLost'
  <2>1. Len(toClient) + Len(toTransfer) + Len(Concat(dataBuffer)) = Len(stream)
    BY DEF WireInv, NothingLost
  <2>2. Len(toClient) \in Nat /\ Len(toTransfer) \in Nat /\ Len(Concat(dataBuffer)) \in Nat /\ Len(c) \in Nat
    BY <1>1, <1>2, Waiting, LenProperties
  <2>3. Len(toClient) + Len(toTransfer') + Len(Concat(dataBuffer)) = Len(stream')
    <3>1. Len(toTransfer') = Len(toTransfer) + Len(c) /\ Len(stream') = Len(stream) + Len(c)
      BY <1>1, <1>3
    <3>. QED BY <2>1, <2>2, <3>1
  <2>. QED BY <1>0, <2>3 DEF NothingLost
<1>8. AllGiven'
  BY <1>0, <1>3 DEF WireInv, AllGiven
<1>. QED BY <1>4, <1>5, <1>6, <1>7, <1>8 DEF WireInv

\* A large chunk goes out behind all that waits.
LEMMA ToBypass ==
  ASSUME WireInv, NEW c \in Chunks, DataBypass(c)
  PROVE  WireInv'
<1>. DEFINE p == Positions(Span(c))  w == Concat(dataBuffer)
<1>0. Arrive(c) /\ Deliver2(w, p) /\ dataBuffer' = <<>> /\ timer' = Off /\ lastFlush' \in {lastFlush, Wall}
      /\ UNCHANGED <<open, now, skew>>
  BY DEF DataBypass, Bypass, Arrive
<1>1. /\ p \in Seq(Bytes') /\ Len(p) = Len(c) /\ p # <<>> /\ Len(stream) \in Nat /\ Len(stream') \in Nat
      /\ stream' \in Seq({"a", "L2", "L3", "c"}) /\ Len(stream') = Len(stream) + Len(c) /\ Len(stream') <= MaxBytes
  BY <1>0, Fresh DEF WireInv
<1>2. toClient \in Seq(Bytes') /\ toTransfer \in Seq(Bytes') /\ w \in Seq(Bytes') /\ Rising((toClient \o w) \o p)
  BY <1>0, WaitingLonger
<1>3. Len(w) + Len(p) = Len(Concat(dataBuffer)) + (Len(stream') - Len(stream))
  BY <1>1, <1>2, LenProperties
<1>. HIDE DEF p, w
<1>. QED BY <1>0, <1>1, <1>2, <1>3, Sends

\* What waits goes behind what was sent, the chunk p behind both.
LEMMA Behind ==
  ASSUME NEW N, toClient \in Seq(N), NEW w \in Seq(N), NEW p \in Seq(N)
  PROVE  (toClient \o w) \o p = toClient \o (w \o p)
BY ConcatAssociative

\* A small chunk that waits with the others.
LEMMA ToBuffer ==
  ASSUME WireInv, NEW c \in Chunks, Arrive(c), active = "no", dataBuffer' = Append(dataBuffer, Span(c)),
         NEW d \in 1 .. Interval + SetBack, ArmUnlessPending(d),
         UNCHANGED <<lastFlush, active, toClient, toTransfer>>
  PROVE  WireInv'
<1>. DEFINE p == Positions(Span(c))  w == Concat(dataBuffer)
<1>1. /\ p \in Seq(Bytes') /\ Len(p) = Len(c) /\ Len(stream) \in Nat
      /\ stream' \in Seq({"a", "L2", "L3", "c"}) /\ Len(stream') = Len(stream) + Len(c) /\ Len(stream') <= MaxBytes
  BY Fresh DEF WireInv
<1>2. /\ toClient \in Seq(Bytes') /\ toTransfer \in Seq(Bytes') /\ w \in Seq(Bytes')
      /\ Rising((toClient \o w) \o p) /\ dataBuffer' \in Seq(Spans') /\ dataBuffer' # <<>>
      /\ Concat(dataBuffer') = w \o p /\ Concat(dataBuffer') # <<>> /\ Len(Concat(dataBuffer')) = Len(w) + Len(c)
  BY WaitingLonger
<1>3. Interval \in Nat \ {0} /\ SetBack \in Nat /\ now \in Nat /\ MaxTime \in Nat
  BY OutputAssumption DEF WireInv, OutputTypeOK
<1>4. timer' \in Nat /\ timer' # Off /\ timer' <= now + Interval + SetBack
  <2>1. CASE timer = Off
    <3>1. timer' = now + d
      BY <2>1 DEF ArmUnlessPending
    <3>. QED BY <1>3, <3>1 DEF Off
  <2>2. CASE timer # Off
    BY <2>2, <1>3 DEF ArmUnlessPending, WireInv, OutputTypeOK, Armed
  <2>. QED BY <2>1, <2>2
<1>5. UNCHANGED <<open, now, skew, lastFlush, active, toClient, toTransfer>>
  BY DEF Arrive
<1>6. OutputTypeOK'
  <2>1. /\ lastFlush' \in Int /\ skew' \in Int /\ now' \in 0 .. MaxTime
        /\ active' \in {"no", "detected", "started"} /\ open' \in BOOLEAN
    BY <1>5 DEF WireInv, OutputTypeOK
  <2>2. toClient' \in Seq(Bytes') /\ toTransfer' \in Seq(Bytes')
    BY <1>2, <1>5
  <2>. QED BY <1>1, <1>2, <1>4, <2>1, <2>2, TypesFrom
<1>7. SentInOrder'
  <2>1. (toClient \o w) \o p = toClient \o (w \o p)
    <3>1. toClient \in Seq(Bytes') /\ w \in Seq(Bytes') /\ p \in Seq(Bytes')
      BY <1>1, <1>2
    <3>. HIDE DEF w, p
    <3>. QED BY <3>1, Behind
  <2>. QED BY <1>2, <1>5, <2>1 DEF SentInOrder
<1>8. NothingLost'
  <2>1. Len(toClient) + Len(toTransfer) + Len(w) = Len(stream)
    BY DEF WireInv, NothingLost
  <2>2. Len(toClient) \in Nat /\ Len(toTransfer) \in Nat /\ Len(w) \in Nat /\ Len(c) \in Nat
    BY <1>1, <1>2, LenProperties
  <2>3. Len(toClient) + Len(toTransfer) + Len(Concat(dataBuffer')) = Len(stream')
    <3>1. Len(Concat(dataBuffer')) = Len(w) + Len(c) /\ Len(stream') = Len(stream) + Len(c)
      BY <1>1, <1>2
    <3>. HIDE DEF w
    <3>. QED BY <2>1, <2>2, <3>1
  <2>. QED BY <1>5, <2>3 DEF NothingLost
<1>9. Armed' /\ AllGiven' /\ Pending'
  <2>1. lastFlush <= now /\ skew \in -SetBack .. 0
    BY DEF WireInv, Armed
  <2>. QED BY <1>2, <1>4, <1>5, <2>1 DEF Armed, AllGiven, Pending
<1>. QED BY <1>2, <1>6, <1>7, <1>8, <1>9 DEF WireInv

\* A small chunk.
LEMMA Small ==
  ASSUME WireInv, NEW c \in Chunks, DataBuffered(c)
  PROVE  WireInv'
<1>. DEFINE bufs == Append(dataBuffer, Span(c))  elapsed == Wall - lastFlush  p == Positions(Span(c))
<1>0. Arrive(c) /\ active = "no" /\ UNCHANGED <<open, now, skew>>
  BY DEF DataBuffered, Arrive
<1>1. /\ Interval \in Nat \ {0} /\ SetBack \in Nat /\ now \in Nat /\ skew \in -SetBack .. 0
      /\ lastFlush \in Int /\ lastFlush <= now /\ MaxTime \in Nat
  BY OutputAssumption DEF WireInv, OutputTypeOK, Armed
<1>2. CASE elapsed >= Interval /\ ArmUnlessPending(Interval) /\ dataBuffer' = bufs
           /\ UNCHANGED <<lastFlush, active, toClient, toTransfer>>
  <2>1. Interval \in 1 .. Interval + SetBack
    BY <1>1
  <2>. QED BY <1>0, <1>2, <2>1, ToBuffer
<1>3. CASE elapsed >= Interval /\ Flush(bufs)
  <2>1. /\ bufs \in Seq(Spans') /\ Concat(bufs) = Concat(dataBuffer) \o p /\ Concat(bufs) \in Seq(Bytes')
        /\ Concat(bufs) # <<>> /\ Len(Concat(bufs)) = Len(Concat(dataBuffer)) + Len(c)
        /\ Rising((toClient \o Concat(dataBuffer)) \o p)
        /\ toClient \in Seq(Bytes') /\ toTransfer \in Seq(Bytes') /\ Concat(dataBuffer) \in Seq(Bytes')
    BY <1>0, WaitingLonger
  <2>2. /\ p \in Seq(Bytes') /\ Len(p) = Len(c) /\ Len(stream) \in Nat /\ Len(stream') \in Nat
        /\ stream' \in Seq({"a", "L2", "L3", "c"}) /\ Len(stream') = Len(stream) + Len(c) /\ Len(stream') <= MaxBytes
    BY <1>0, Fresh DEF WireInv
  <2>3. Deliver2(<<>>, Concat(bufs)) /\ dataBuffer' = <<>> /\ timer' = Off /\ lastFlush' \in {lastFlush, Wall}
    BY <1>3 DEF Flush, Deliver
  <2>. DEFINE t == Concat(bufs)
  <2>4. Rising((toClient \o <<>>) \o t)
    <3>1. (toClient \o Concat(dataBuffer)) \o p = toClient \o (Concat(dataBuffer) \o p)
      <4>1. toClient \in Seq(Bytes') /\ Concat(dataBuffer) \in Seq(Bytes') /\ p \in Seq(Bytes')
        BY <2>1, <2>2
      <4>. HIDE DEF p
      <4>. QED BY <4>1, Behind
    <3>2. toClient \o <<>> = toClient
      BY <2>1, ConcatEmptySeq
    <3>. QED BY <2>1, <3>1, <3>2
  <2>5. <<>> \in Seq(Bytes') /\ Len(<<>>) + Len(t) = Len(Concat(dataBuffer)) + (Len(stream') - Len(stream))
    <3>1. Len(Concat(dataBuffer)) \in Nat /\ Len(c) \in Nat
      BY <2>1, <2>2, LenProperties
    <3>2. <<>> \in Seq(Bytes') /\ Len(<<>>) = 0
      OBVIOUS
    <3>. QED BY <2>1, <2>2, <3>1, <3>2
  <2>6. t \in Seq(Bytes') /\ t # <<>>
    BY <2>1
  <2>. HIDE DEF t
  <2>7. Deliver2(<<>>, t)
    BY <2>3 DEF t
  <2>. QED BY <1>0, <2>1, <2>2, <2>3, <2>4, <2>5, <2>6, <2>7, Sends
<1>4. CASE elapsed < Interval /\ ArmUnlessPending(Interval - elapsed) /\ dataBuffer' = bufs
           /\ UNCHANGED <<lastFlush, active, toClient, toTransfer>>
  <2>1. Interval - elapsed \in 1 .. Interval + SetBack
    BY <1>1, <1>4 DEF Wall
  <2>. HIDE DEF elapsed
  <2>. QED BY <1>0, <1>4, <2>1, ToBuffer
<1>. QED BY <1>2, <1>3, <1>4 DEF DataBuffered

\* The timer of what waits.
LEMMA Timer ==
  ASSUME WireInv, TimerFires
  PROVE  WireInv'
<1>0. UNCHANGED <<stream, open, now, skew>>
  BY DEF TimerFires
<1>1. CASE dataBuffer = <<>>
  <2>1. timer' = Off /\ UNCHANGED <<dataBuffer, lastFlush, active, toClient, toTransfer>>
    BY <1>1 DEF TimerFires
  <2>2. OutputTypeOK'
    BY <1>0, <2>1 DEF WireInv, OutputTypeOK
  <2>. QED BY <1>0, <1>1, <2>1, <2>2 DEF WireInv, SentInOrder, NothingLost, Armed, AllGiven, Pending, Spans, Bytes
<1>2. CASE dataBuffer # <<>>
  <2>. DEFINE t == Concat(dataBuffer)
  <2>1. Deliver2(<<>>, t) /\ dataBuffer' = <<>> /\ timer' = Off /\ lastFlush' \in {lastFlush, Wall}
    BY <1>2 DEF TimerFires, Flush, Deliver
  <2>2. Bytes' = Bytes
    BY <1>0 DEF Bytes
  <2>3. t \in Seq(Bytes') /\ t # <<>> /\ toClient \in Seq(Bytes') /\ toTransfer \in Seq(Bytes')
    BY <1>2, <2>2, Waiting DEF WireInv, OutputTypeOK, Bytes, Pending
  <2>4. /\ Len(stream') \in Nat /\ Len(stream') <= MaxBytes /\ stream' \in Seq({"a", "L2", "L3", "c"})
        /\ Len(stream') = Len(stream)
    BY <1>0, Waiting DEF WireInv, OutputTypeOK
  <2>. HIDE DEF t
  <2>5. <<>> \in Seq(Bytes') /\ Len(<<>>) + Len(t) = Len(Concat(dataBuffer)) + (Len(stream') - Len(stream))
    <3>1. <<>> \in Seq(Bytes') /\ Len(<<>>) = 0 /\ Len(t) \in Nat
      BY <2>3, LenProperties
    <3>. QED BY <2>4, <3>1 DEF t
  <2>6. Rising((toClient \o <<>>) \o t)
    <3>1. toClient \o <<>> = toClient
      BY <2>3, ConcatEmptySeq
    <3>. QED BY <3>1 DEF WireInv, SentInOrder, t
  <2>. QED BY <1>0, <2>1, <2>3, <2>4, <2>5, <2>6, Sends
<1>. QED BY <1>1, <1>2

\* A step that touches neither the stream nor what was sent nor what waits.
LEMMA Elsewhere ==
  ASSUME WireInv, StartTransfer \/ EndTransfer \/ Close \/ Tick \/ StepClock \/ UNCHANGED outputVars
  PROVE  WireInv'
<1>1. UNCHANGED <<stream, dataBuffer, lastFlush, toClient, toTransfer>>
  BY DEF StartTransfer, EndTransfer, Close, Tick, StepClock, outputVars
<1>2. /\ timer' \in {timer, Off} /\ open' \in BOOLEAN /\ active' \in {active, "no", "started"}
      /\ now' \in 0 .. MaxTime /\ now <= now' /\ skew' \in -SetBack .. 0
      /\ (open' => open /\ timer' = timer)
  <2>1. now \in 0 .. MaxTime /\ skew \in -SetBack .. 0 /\ open \in BOOLEAN /\ MaxTime \in Nat /\ SetBack \in Nat
    BY OutputAssumption DEF WireInv, OutputTypeOK, Armed
  <2>2. CASE Tick
    BY <2>1, <2>2 DEF Tick
  <2>3. CASE StepClock
    BY <2>1, <2>3 DEF StepClock
  <2>4. CASE StartTransfer \/ EndTransfer \/ Close \/ UNCHANGED outputVars
    <3>1. now' = now /\ skew' = skew
      BY <2>4 DEF StartTransfer, EndTransfer, Close, outputVars
    <3>2. timer' \in {timer, Off} /\ active' \in {active, "no", "started"}
      BY <2>4 DEF StartTransfer, EndTransfer, Close, outputVars
    <3>3. (open' = open /\ timer' = timer) \/ open' = FALSE
      BY <2>4 DEF StartTransfer, EndTransfer, Close, outputVars
    <3>4. open' \in BOOLEAN /\ (open' => open /\ timer' = timer)
      <4>1. CASE open' = open /\ timer' = timer
        BY <2>1, <4>1, Zenon
      <4>2. CASE open' = FALSE
        BY <4>2
      <4>. QED BY <3>3, <4>1, <4>2, Zenon
    <3>. QED BY <2>1, <3>1, <3>2, <3>4
  <2>. QED BY <2>2, <2>3, <2>4
<1>3. OutputTypeOK'
  <2>1. SetBack \in Nat
    BY OutputAssumption
  <2>. QED BY <1>1, <1>2, <2>1 DEF WireInv, OutputTypeOK
<1>4. SentInOrder' /\ NothingLost' /\ Pending' /\ AllGiven'
  BY <1>1, <1>2 DEF WireInv, SentInOrder, NothingLost, Pending, AllGiven
<1>5. Armed'
  <2>1. timer = Off \/ timer \in Nat
    BY DEF WireInv, OutputTypeOK
  <2>2. now \in Nat /\ now' \in Nat /\ Interval \in Nat /\ SetBack \in Nat /\ lastFlush \in Int
    BY <1>2, OutputAssumption DEF WireInv, OutputTypeOK
  <2>. QED BY <1>1, <1>2, <2>1, <2>2 DEF WireInv, Armed, Off
<1>6. dataBuffer' \in Seq(Spans')
  BY <1>1 DEF WireInv, Spans, Bytes
<1>. QED BY <1>3, <1>4, <1>5, <1>6 DEF WireInv

\* The invariant of the wire: what was sent, what waits and its timer fit together.
THEOREM WireInvHolds == OutputSpec => []WireInv
<1>1. ASSUME WireInv, [OutputNext]_outputVars PROVE WireInv'
  <2>1. ASSUME NEW c \in Chunks, DataToTransfer(c) \/ DataBypass(c) \/ DataBuffered(c) PROVE WireInv'
    BY <1>1, <2>1, ToTransfer, ToBypass, Small
  <2>2. ASSUME TimerFires PROVE WireInv'
    BY <1>1, <2>2, Timer
  <2>. QED BY <1>1, <2>1, <2>2, Elsewhere DEF OutputNext, Data
<1>. QED BY <1>1, Silent, PTL DEF OutputSpec

-----------------------------------------------------------------------------
(* The results.                                                            *)

\* The browser receives the terminal's bytes in their order, none twice, and
\* none is lost on the way (flush, fast flush, bypass, transfer).
THEOREM OutputInvHolds == OutputSpec => []OutputInv
<1>1. ASSUME WireInv PROVE OutputInv
  <2>1. toClient \in Seq(Nat) /\ Concat(dataBuffer) \in Seq(Nat)
    BY <1>1, Waiting, SeqMonotonic DEF WireInv, OutputTypeOK, Bytes
  <2>2. Rising(toClient)
    BY <1>1, <2>1, RisingPrefix DEF WireInv, SentInOrder
  <2>. QED BY <1>1, <2>2 DEF OutputInv, WireInv, ClientInOrder
<1>. QED BY <1>1, WireInvHolds, PTL

\* What waits has a timer, due within one window.
THEOREM WaitBoundedHolds == OutputSpec => []WaitBounded
<1>1. ASSUME WireInv PROVE WaitBounded
  BY <1>1 DEF WireInv, Armed, WaitBounded
<1>. QED BY <1>1, WireInvHolds, PTL

\* The order in which a transfer session is given the bytes that follow its start.
THEOREM TransferInOrderHolds == OutputSpec => TransferInOrder
<1>. DEFINE given == SubSeq(toTransfer', Len(toTransfer), Len(toTransfer'))
<1>1. ASSUME WireInv, OutputNext, active = "detected" PROVE Rising(given)
  <2>1. dataBuffer = <<>> /\ toTransfer # <<>> /\ toTransfer \in Seq(Bytes) /\ Bytes \subseteq Nat
    BY <1>1 DEF WireInv, AllGiven, OutputTypeOK, Bytes
  <2>. DEFINE n == Len(toTransfer)
  <2>2. n \in Nat \ {0} /\ toTransfer[n] \in Bytes
    BY <2>1, EmptySeq
  <2>3. ASSUME NEW c \in Chunks, DataToTransfer(c) PROVE Rising(given)
    <3>. DEFINE p == Positions(Span(c))
    <3>1. toTransfer' = toTransfer \o p /\ Arrive(c)
      BY <2>3 DEF DataToTransfer
    <3>2. /\ p \in Seq(Bytes') /\ Rising(p) /\ (\A k \in 1 .. Len(p) : p[k] > Len(stream))
          /\ Bytes \subseteq Bytes' /\ Bytes' \subseteq Nat
      BY <1>1, <3>1, Fresh DEF WireInv, Bytes
    <3>. HIDE DEF p
    <3>3. /\ Len(p) \in Nat /\ Len(toTransfer') = n + Len(p)
          /\ \A i \in 1 .. n + Len(p) : toTransfer'[i] = IF i <= n THEN toTransfer[i] ELSE p[i - n]
      BY <2>1, <3>1, <3>2, ConcatProperties, LenProperties, SeqMonotonic
    <3>4. given = [k \in 1 .. Len(p) + 1 |-> toTransfer'[n + k - 1]]
      <4>1. Len(toTransfer') - n + 1 = Len(p) + 1
        BY <2>2, <3>3
      <4>. QED BY <4>1
    <3>5. given[1] = toTransfer[n] /\ \A k \in 1 .. Len(p) : given[k + 1] = p[k]
      <4>1. 1 \in 1 .. Len(p) + 1 /\ n + 1 - 1 = n /\ n \in 1 .. n + Len(p) /\ n <= n
        BY <2>2, <3>3
      <4>2. given[1] = toTransfer'[n] /\ toTransfer'[n] = toTransfer[n]
        BY <3>3, <3>4, <4>1
      <4>3. ASSUME NEW k \in 1 .. Len(p) PROVE given[k + 1] = p[k]
        <5>1. k + 1 \in 1 .. Len(p) + 1 /\ n + (k + 1) - 1 = n + k /\ n + k \in 1 .. n + Len(p)
              /\ ~(n + k <= n) /\ n + k - n = k
          BY <2>2, <3>3
        <5>. QED BY <3>3, <3>4, <5>1
      <4>. HIDE DEF given
      <4>. QED BY <4>2, <4>3
    <3>6. Len(given) = Len(p) + 1
      BY <3>3, <3>4
    <3>7. toTransfer[n] <= Len(stream) /\ toTransfer[n] \in Nat /\ Len(stream) \in Nat
      BY <1>1, <2>1, <2>2, Waiting DEF Bytes
    <3>. HIDE DEF n, given
    <3>8. SUFFICES ASSUME NEW k \in 1 .. Len(p) PROVE given[k] < given[k + 1]
      BY <3>3, <3>6 DEF Rising
    <3>9. CASE k = 1
      <4>1. 1 \in 1 .. Len(p) /\ given[1 + 1] = p[1] /\ given[1] = toTransfer[n]
        BY <3>3, <3>5, <3>9
      <4>2. p[1] \in Nat /\ p[1] > Len(stream)
        <5>1. p[1] \in Bytes'
          BY <3>2, <4>1, ElementOfSeq
        <5>. QED BY <3>2, <4>1, <5>1
      <4>3. toTransfer[n] < p[1]
        BY <3>7, <4>2
      <4>. QED BY <3>9, <4>1, <4>3
    <3>10. CASE k # 1
      <4>1. k - 1 \in 1 .. Len(p) - 1 /\ k - 1 \in 1 .. Len(p) /\ (k - 1) + 1 = k
        BY <3>3, <3>10
      <4>2. p[k - 1] < p[k]
        BY <3>2, <4>1 DEF Rising
      <4>. QED BY <3>5, <4>1, <4>2
    <3>. QED BY <3>9, <3>10
  <2>4. ASSUME UNCHANGED toTransfer PROVE Rising(given)
    <3>1. given = [k \in 1 .. 1 |-> toTransfer[n + k - 1]]
      BY <2>2, <2>4
    <3>2. Len(given) = 1
      BY <3>1
    <3>. QED BY <3>2 DEF Rising
  <2>5. ASSUME NEW c \in Chunks, DataBypass(c) \/ DataBuffered(c) PROVE FALSE
    BY <1>1, <2>5 DEF DataBypass, DataBuffered
  <2>6. ASSUME TimerFires PROVE UNCHANGED toTransfer
    BY <2>1, <2>6 DEF TimerFires
  <2>7. ASSUME StartTransfer \/ EndTransfer \/ Close \/ Tick \/ StepClock PROVE UNCHANGED toTransfer
    BY <2>7 DEF StartTransfer, EndTransfer, Close, Tick, StepClock
  <2>. HIDE DEF given
  <2>. QED BY <1>1, <2>3, <2>4, <2>5, <2>6, <2>7 DEF OutputNext, Data
<1>. QED BY <1>1, WireInvHolds, PTL DEF OutputSpec, TransferInOrder
=============================================================================
