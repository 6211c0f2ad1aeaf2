------------------------------- MODULE Relays -------------------------------
(***************************************************************************)
(* The relays between a websocket of the browser and a TCP socket of a     *)
(* remote desktop: spice-proxy.js, rdp-proxy.js and session-vnc.js, with   *)
(* the sessions that own them (session-spice.js, session-rdp.js, the SSH   *)
(* hop of session-hop.js).  A SPICE session has several channels, an RDP   *)
(* or VNC session one.                                                     *)
(*                                                                         *)
(* A socket is set up in steps between which its websocket may close.      *)
(* Messages are numbered by the order in which the browser sends them.     *)
(***************************************************************************)
EXTENDS Naturals, Sequences

CONSTANTS
    Chan,       \* the websockets of the session
    Protos,     \* of "spice", "rdp", "vnc", those to look at
    MaxMsgs     \* bound on the messages a browser sends

ASSUME RelayAssumption ==
    /\ Protos \subseteq {"spice", "rdp", "vnc"}
    /\ MaxMsgs \in Nat

VARIABLES
    proto,      \* the kind of the session
    registered, \* globalState knows the session
    members,    \* wsMap: the channels of a SPICE session
    hop,        \* the SSH session of the hop: none, up, killed
    ws,         \* per channel: none, open, closing (by the server), closed
    tcp,        \* its socket: none, hop, request, connect, x224, tls, up, failed, closed,
                \* idle (destroyed by its timer), gone (ended by the server before tls)
    over,       \* wsClosed and tcpClosed of spice-proxy.js: cleanup has run
    joined,     \* the relay was set up while its websocket was open
    sent,       \* messages sent by the browser
    buffer,     \* those kept until there is a socket
    got,        \* those written to the socket, in order
    heard,      \* the server has sent something
    reply       \* what an RDP browser was answered: none, ok, error

chanVars == <<ws, tcp, over, joined>>
msgVars  == <<sent, buffer, got, heard, reply>>
relayVars == <<proto, registered, members, hop, chanVars, msgVars>>

Handshake == {"connect", "x224", "tls"}

RelayTypeOK ==
    /\ proto \in Protos /\ registered \in BOOLEAN /\ members \subseteq Chan
    /\ hop \in {"none", "up", "killed"}
    /\ ws \in [Chan -> {"none", "open", "closing", "closed"}]
    /\ tcp \in [Chan -> {"none", "hop", "request", "up", "failed", "closed", "idle", "gone"} \cup Handshake]
    /\ over \in [Chan -> BOOLEAN] /\ joined \in [Chan -> BOOLEAN] /\ heard \in [Chan -> BOOLEAN]
    /\ sent \in [Chan -> 0 .. MaxMsgs]
    /\ buffer \in [Chan -> Seq(1 .. MaxMsgs)] /\ got \in [Chan -> Seq(1 .. MaxMsgs)]
    /\ reply \in [Chan -> {"none", "ok", "error"}]

\* A session has been created; no websocket is attached yet.
RelayInit ==
    /\ proto \in Protos /\ registered = TRUE /\ members = {} /\ hop = "none"
    /\ ws = [c \in Chan |-> "none"] /\ tcp = [c \in Chan |-> "none"]
    /\ over = [c \in Chan |-> FALSE] /\ joined = [c \in Chan |-> FALSE]
    /\ sent = [c \in Chan |-> 0] /\ heard = [c \in Chan |-> FALSE]
    /\ buffer = [c \in Chan |-> <<>>] /\ got = [c \in Chan |-> <<>>]
    /\ reply = [c \in Chan |-> "none"]

-----------------------------------------------------------------------------
(* The ends of relays and sessions.                                        *)

\* ws.close() on an open websocket; its close event comes later.
Closing(c) == IF ws[c] = "open" THEN "closing" ELSE ws[c]

\* A socket that exists is destroyed; one that is being set up has no name yet.
Dropped(c) == IF tcp[c] = "up" THEN "closed" ELSE tcp[c]

\* (Mutant) The end of any channel ends the session.
LastAlways(rest) == TRUE

\* Of a SPICE session: the channel that ends is the last one.
Last(rest) == rest = {}

\* onCleanup of a channel: the last one takes the session with it (TerminalSpice.kill,
\* which finds no websocket left to close).
Forget(c) ==
    /\ members' = IF Last(members \ {c}) THEN {} ELSE members \ {c}
    /\ registered' = (registered /\ ~Last(members \ {c}))

\* cleanup of spice-proxy.js, with the websocket as it is by now.
CleanupSpice(c, w) ==
    IF over[c]
    THEN /\ ws' = [ws EXCEPT ![c] = w] /\ UNCHANGED <<tcp, over, members, registered>>
    ELSE /\ over' = [over EXCEPT ![c] = TRUE]
         /\ tcp' = [tcp EXCEPT ![c] = Dropped(c)]
         /\ Forget(c)
         /\ ws' = [d \in Chan |->
                     IF d = c THEN IF w = "open" THEN "closing" ELSE w
                     ELSE IF d \in members /\ Last(members \ {c}) THEN Closing(d) ELSE ws[d]]

\* (Mutant) Only the websocket is closed.
CleanupRdpHalf(c, w) ==
    /\ ws' = [ws EXCEPT ![c] = IF w = "open" THEN "closing" ELSE w]
    /\ UNCHANGED <<tcp, over, members, registered>>

\* cleanup of rdp-proxy.js: the socket is destroyed, an open websocket closed.
CleanupRdp(c, w) ==
    /\ tcp' = [tcp EXCEPT ![c] = Dropped(c)]
    /\ ws' = [ws EXCEPT ![c] = IF w = "open" THEN "closing" ELSE w]
    /\ UNCHANGED <<over, members, registered>>

\* TerminalVnc.kill
KillVnc(c, w) ==
    /\ tcp' = [tcp EXCEPT ![c] = Dropped(c)]
    /\ ws' = [ws EXCEPT ![c] = IF w = "open" THEN "closing" ELSE w]
    /\ registered' = FALSE
    /\ UNCHANGED <<over, members>>

\* The hop's SSH session goes with kill.
HopAfter == IF hop = "up" THEN "killed" ELSE hop

\* Somebody listens to the close of this websocket.
Heard(c) == proto = "spice" \/ (joined[c] /\ tcp[c] \in {"up", "closed", "idle"})

\* One end of channel c is gone; w is the state of its websocket.
End(c, w) ==
    \/ proto = "spice" /\ CleanupSpice(c, w) /\ UNCHANGED hop
    \/ proto = "rdp" /\ CleanupRdp(c, w) /\ UNCHANGED hop
    \/ proto = "vnc" /\ KillVnc(c, w) /\ hop' = HopAfter

-----------------------------------------------------------------------------
(* Setting up.                                                             *)

\* The routes of ws.js find the session by its pid.  (A page opens the websocket of an
\* RDP or VNC session once.)
Attachable(c) ==
    /\ registered /\ ws[c] = "none"
    /\ proto # "spice" => \A d \in Chan : ws[d] = "none"

\* A websocket attaches to the session: SPICE connects at once, the others may have
\* to set up a hop first.
Start(c) ==
    /\ Attachable(c)
    /\ ws' = [ws EXCEPT ![c] = "open"]
    /\ tcp' = [tcp EXCEPT ![c] = IF proto = "spice" THEN "connect" ELSE "hop"]
    /\ members' = IF proto = "spice" THEN members \cup {c} ELSE members
    /\ UNCHANGED <<proto, registered, hop, over, joined, msgVars>>

\* What an RDP session does after its hop: it handles the message that came in
\* between, or waits for the first.
AfterHop(c) == IF buffer[c] = <<>> THEN "request" ELSE "connect"

\* createHopProxy is done, without a hop or with an SSH session of its own, which a
\* session killed in between keeps.  A VNC socket is created at once (it keeps what
\* is written until it is connected); without this.ws the next line throws.
Hopped(c) ==
    /\ tcp[c] = "hop"
    /\ hop' \in {hop, "up"}
    /\ tcp' = [tcp EXCEPT ![c] = IF proto = "vnc" THEN "up"
                                 ELSE IF registered THEN AfterHop(c) ELSE "failed"]
    /\ joined' = [joined EXCEPT ![c] = proto = "vnc" /\ registered /\ ws[c] = "open"]
    /\ UNCHANGED <<proto, registered, members, ws, over, sent, got, heard, reply, buffer>>

\* The hop or its proxy fails: start rejects and nobody looks.
HopFails(c) ==
    /\ tcp[c] = "hop"
    /\ tcp' = [tcp EXCEPT ![c] = "failed"]
    /\ UNCHANGED <<proto, registered, members, hop, ws, over, joined, msgVars>>

\* (Mutant) What came in while connecting is forgotten.
FlushNothing(c) == <<>>

\* The buffer of a SPICE channel is written as soon as there is a socket.
Flushed(c) == got[c] \o buffer[c]

\* The socket of a SPICE channel is connected, if its websocket is there or not.
Connected(c) ==
    /\ proto = "spice" /\ tcp[c] = "connect"
    /\ tcp' = [tcp EXCEPT ![c] = "up"]
    /\ joined' = [joined EXCEPT ![c] = ~over[c]]
    /\ got' = [got EXCEPT ![c] = Flushed(c)]
    /\ buffer' = [buffer EXCEPT ![c] = <<>>]
    /\ UNCHANGED <<proto, registered, members, hop, ws, over, sent, heard, reply>>

\* It cannot be: the websocket is closed and the channel forgotten (again, when its
\* websocket had closed before).
ConnectFails(c) ==
    /\ proto = "spice" /\ tcp[c] = "connect"
    /\ tcp' = [tcp EXCEPT ![c] = "failed"]
    /\ Forget(c)
    /\ ws' = [d \in Chan |-> IF d = c \/ (d \in members /\ Last(members \ {c})) THEN Closing(d) ELSE ws[d]]
    /\ UNCHANGED <<proto, hop, over, joined, msgVars>>

\* performRDPHandshake: connected and the request written; the confirmation read.
HandshakeStep(c) ==
    /\ proto = "rdp"
    /\ \/ tcp[c] = "connect" /\ tcp' = [tcp EXCEPT ![c] = "x224"]
          /\ got' = [got EXCEPT ![c] = Append(@, 1)]
       \/ tcp[c] = "x224" /\ tcp' = [tcp EXCEPT ![c] = "tls"] /\ UNCHANGED got
    /\ UNCHANGED <<proto, registered, members, hop, ws, over, joined, sent, buffer, heard, reply>>

\* TLS is up: the browser is answered, and the relay begins.  A websocket that closed
\* in between goes unnoticed.
HandshakeDone(c) ==
    /\ proto = "rdp" /\ tcp[c] = "tls"
    /\ tcp' = [tcp EXCEPT ![c] = "up"]
    /\ joined' = [joined EXCEPT ![c] = ws[c] \in {"open", "closing"}]
    /\ reply' = [reply EXCEPT ![c] = IF ws[c] = "open" THEN "ok" ELSE @]
    /\ UNCHANGED <<proto, registered, members, hop, ws, over, sent, buffer, got, heard>>

\* (Mutant) A failed handshake only reports its error.
RefusedOpen(c) == ws[c]

\* The websocket after a handshake that failed.
Refused(c) == Closing(c)

\* An error or a timer of the handshake (or a request that cannot be parsed): error
\* reply, and the websocket is closed.
HandshakeFails(c) ==
    /\ proto = "rdp" /\ tcp[c] \in Handshake
    /\ tcp' = [tcp EXCEPT ![c] = "failed"]
    /\ reply' = [reply EXCEPT ![c] = IF ws[c] = "open" THEN "error" ELSE @]
    /\ ws' = [ws EXCEPT ![c] = Refused(c)]
    /\ UNCHANGED <<proto, registered, members, hop, over, joined, sent, buffer, got, heard>>

\* The server ends the connection without an answer to X.224.  Nothing listens to that:
\* the promise stays pending, and the websocket open, for as long as the browser waits.
ServerHangsUp(c) ==
    /\ proto = "rdp" /\ tcp[c] = "x224"
    /\ tcp' = [tcp EXCEPT ![c] = "gone"]
    /\ UNCHANGED <<proto, registered, members, hop, ws, over, joined, msgVars>>

-----------------------------------------------------------------------------
(* Messages.                                                               *)

\* When the browser may speak: a SPICE client at once, an RDP client with its request
\* and after the reply, a VNC client after the server.
MaySend(c) == CASE proto = "spice" -> TRUE
                [] proto = "rdp" -> sent[c] = 0 \/ reply[c] = "ok"
                [] proto = "vnc" -> heard[c]

\* There is no socket yet.
Buffers(c) == \/ proto = "spice" /\ tcp[c] = "connect" /\ ~over[c]
              \/ proto = "rdp" /\ tcp[c] = "hop"

\* A message of the browser: kept while there is no socket, handled as the request,
\* or written.
Message(c) ==
    /\ ws[c] = "open" /\ sent[c] < MaxMsgs /\ MaySend(c)
    /\ sent' = [sent EXCEPT ![c] = @ + 1]
    /\ \/ Buffers(c) /\ buffer' = [buffer EXCEPT ![c] = Append(@, sent[c] + 1)] /\ UNCHANGED <<tcp, got>>
       \/ tcp[c] = "request" /\ tcp' = [tcp EXCEPT ![c] = "connect"] /\ UNCHANGED <<buffer, got>>
       \/ ~over[c] /\ tcp[c] = "up" /\ got' = [got EXCEPT ![c] = Append(@, sent[c] + 1)]
          /\ UNCHANGED <<tcp, buffer>>
       \/ (over[c] \/ tcp[c] \in {"failed", "closed", "idle"}) /\ UNCHANGED <<tcp, buffer, got>>
    /\ UNCHANGED <<proto, registered, members, hop, ws, over, joined, heard, reply>>

\* The server sends data; they go to a websocket that is open.
ServerData(c) ==
    /\ tcp[c] = "up" /\ ws[c] = "open" /\ ~heard[c]
    /\ heard' = [heard EXCEPT ![c] = TRUE]
    /\ UNCHANGED <<proto, registered, members, hop, chanVars, sent, buffer, got, reply>>

-----------------------------------------------------------------------------
(* Ends.                                                                   *)

\* The socket ends or fails.
ServerEnds(c) ==
    /\ tcp[c] = "up"
    /\ \/ over[c] /\ tcp' = [tcp EXCEPT ![c] = "closed"]
          /\ UNCHANGED <<ws, over, members, registered, hop>>
       \/ ~over[c] /\ End(c, ws[c])
    /\ UNCHANGED <<proto, joined, msgVars>>

\* The timer of the TLS handshake is never cleared: 15 s without data destroy the
\* socket of a relay, which reports neither an end nor an error.
IdleTimeout(c) ==
    /\ proto = "rdp" /\ tcp[c] = "up"
    /\ tcp' = [tcp EXCEPT ![c] = "idle"]
    /\ UNCHANGED <<proto, registered, members, hop, ws, over, joined, msgVars>>

\* The websocket closes, by the browser, the network or an earlier ws.close().
WsCloses(c) ==
    /\ ws[c] \in {"open", "closing"}
    /\ \/ Heard(c) /\ End(c, "closed")
       \/ ~Heard(c) /\ ws' = [ws EXCEPT ![c] = "closed"]
          /\ UNCHANGED <<tcp, over, members, registered, hop>>
    /\ UNCHANGED <<proto, joined, msgVars>>

\* The session is killed from outside (cleanAllSessions, the client).
Kill ==
    /\ registered
    /\ registered' = FALSE /\ members' = {}
    /\ ws' = [c \in Chan |-> IF proto # "spice" \/ c \in members THEN Closing(c) ELSE ws[c]]
    /\ tcp' = [c \in Chan |-> IF proto = "vnc" THEN Dropped(c) ELSE tcp[c]]
    /\ hop' = HopAfter
    /\ UNCHANGED <<proto, over, joined, msgVars>>

-----------------------------------------------------------------------------
Setup(c) == \/ Hopped(c) \/ HopFails(c) \/ Connected(c) \/ ConnectFails(c)
            \/ HandshakeStep(c) \/ HandshakeDone(c) \/ HandshakeFails(c)

RelayNext ==
    \/ \E c \in Chan : \/ Start(c) \/ Setup(c) \/ Message(c) \/ ServerData(c)
                       \/ ServerHangsUp(c) \/ ServerEnds(c) \/ IdleTimeout(c) \/ WsCloses(c)
    \/ Kill

\* Every step of a setup is answered or times out, unless the server hangs up first, and
\* a websocket that the server closes does close.  (The TCP connect of RDP has the
\* system's timer only.)
Fairness ==
    \A c \in Chan : WF_relayVars(Setup(c)) /\ WF_relayVars(ws[c] = "closing" /\ WsCloses(c))

RelaySpec == RelayInit /\ [][RelayNext]_relayVars /\ Fairness

-----------------------------------------------------------------------------
(* Properties.                                                             *)

\* The server gets the messages of the browser in their order, those that came while
\* its socket was being set up first, and none is missing while both ends are up.
InOrder ==
    \A c \in Chan :
        /\ got[c] = [i \in 1 .. Len(got[c]) |-> i]
        /\ tcp[c] = "up" /\ joined[c] /\ ~over[c] /\ ws[c] = "open" => Len(got[c]) = sent[c]

\* A SPICE session is registered, and knows its channels, as long as one of them
\* has both ends.
Known ==
    \A c \in Chan : proto = "spice" /\ ws[c] = "open" /\ ~over[c] /\ tcp[c] \in {"connect", "up"}
                   => registered /\ c \in members

RelayInv == RelayTypeOK /\ InOrder /\ Known

\* The end of one channel of a SPICE session leaves the others alone.
ChannelEnds(c) == over[c] # over'[c] \/ (tcp[c] # tcp'[c] /\ tcp'[c] = "failed")
SiblingsLive ==
    [][\A c, d \in Chan : proto = "spice" /\ c # d /\ ChannelEnds(c)
                          => ws'[d] = ws[d] /\ tcp'[d] = tcp[d]]_relayVars

\* The timer of the TLS handshake has destroyed the socket of a relay: the websocket
\* stays open, with nobody left to close it but the browser or a kill.
Stranded(c) == tcp[c] = "idle" /\ ws[c] # "closed"

\* A relay that was set up while its websocket was open and loses one side loses the
\* other too, or is stranded by the timer of its handshake.  (One set up too late keeps
\* its socket until the server ends it.)
EndsTogether ==
    \A c \in Chan : joined[c] /\ (tcp[c] # "up" \/ ws[c] = "closed")
                   ~> (ws[c] = "closed" /\ tcp[c] # "up") \/ Stranded(c)

\* The request of an RDP client is answered, or its websocket is closed: a failed
\* handshake leaves nobody waiting, unless the server hangs up without an answer to
\* X.224 (ServerHangsUp), which no handler of the handshake listens to.
Answered ==
    \A c \in Chan : proto = "rdp" /\ tcp[c] \in Handshake
                   ~> reply[c] = "ok" \/ ws[c] = "closed" \/ tcp[c] \in {"up", "gone"}
=============================================================================
