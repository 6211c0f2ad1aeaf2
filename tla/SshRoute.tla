------------------------------ MODULE SshRoute ------------------------------
(* The servers an SSH session reaches through its first one: hopping, jump *)
(* and their retries in server/session-ssh.js, composed with SshSession.   *)
(* A hop logs in to the next server through a stream of the present one,   *)
(* with the key files of the present one, and tries again like the login   *)
(* does.  A hop that fails throws into the handlers of the session.        *)
(*                                                                         *)
(* A key file is its position in the list of ~/.ssh.  Servers behind the   *)
(* first one ask no second factor.                                         *)
EXTENDS SshSession

CONSTANT Routes  \* the hops a session may have: sequences of Hop

\* The key files on the server before, the credentials saved with the hop, what
\* the agent would reach, and whether the server takes a password.
Hop == [files : Seq(Key), saved : Key \cup {NoKey}, password : {"none", "right", "wrong"},
        agent : {"none", "refused", "taken"}, server : {"keys", "password"}]

ASSUME RouteAssumption == Routes \subseteq Seq(Hop)

VARIABLES
  route,
  passed,     (* hops behind: this.conn is the client of that server          *)
  hphase,     (* what the present hop waits for                               *)
  skips,      (* skipReadKeys of the stream that was asked for                *)
  hcred,      (* hoppingOptions: password, privateKey, passphrase, sshKeysDrain *)
  hlisted,    (* jumpSshKeys is defined                                       *)
  hkeys,      (* jumpSshKeys                                                  *)
  herr, hcatches,
  htried      (* <<hop, key file>> shown to the server, given up or lost      *)

hop    == <<route, passed, hphase, skips, hcred, hlisted, hkeys, herr, hcatches, htried>>
files  == <<hlisted, hkeys>>
way    == <<route, passed>>
hvars  == <<vars, hop>>

NoCred == [key |-> None, passphrase |-> None, password |-> "none", drained |-> FALSE]

RouteInit ==
  /\ Init
  /\ route \in {r \in Routes : world.hops <=> r # <<>>}
  /\ passed = 0 /\ hphase = "idle" /\ skips = FALSE /\ hcred = NoCred
  /\ hlisted = FALSE /\ hkeys = <<>> /\ herr = "none" /\ hcatches = 0 /\ htried = {}

Arrived == passed = Len(route)
Target  == route[passed + 1]

\* cat of a file that is not there yields an empty key, which is no key.
Missing   == [kind |-> "missing", known |-> FALSE]
HopKey(k) == IF k = 0 THEN Target.saved
             ELSE IF k \in DOMAIN Target.files THEN Target.files[k] ELSE Missing

Marked(k) == IF k = None \/ k = 0 THEN htried ELSE htried \cup {<<passed + 1, k>>}

-----------------------------------------------------------------------------
\* jumpConnect ends the stream and asks for another.
Reconnect(skip) == hphase' = "forward" /\ skips' = skip

\* An exception meets the handler of the last passphrase prompt, if there is one.
HopThrow ==
  IF hcatches > 0 THEN Reconnect(FALSE) /\ hcatches' = hcatches - 1
                  ELSE hphase' = "failed" /\ UNCHANGED <<skips, hcatches>>

HopError(e) == hphase' = "error" /\ herr' = e

\* doSshConnect with the key k and the present passphrase.
HopDial(k) ==
  IF k # None /\ HopKey(k).kind = "locked" /\ hcred.passphrase # k
    THEN HopError("passphrase")
    ELSE hphase' = "auth" /\ UNCHANGED herr

\* jump: the agent goes first if nothing was saved with the hop.
Jump ==
  /\ phase = "ready" /\ ~Arrived /\ hphase = "idle"
  /\ hcred' = [NoCred EXCEPT !.key = IF Target.saved = NoKey THEN None ELSE 0,
                             !.password = Target.password]
  /\ Reconnect(Target.agent # "none" /\ Target.saved = NoKey /\ Target.password = "none")
  /\ UNCHANGED <<login, way, files, herr, hcatches, htried, mishaps>>

Forwarded ==
  /\ hphase = "forward"
  /\ IF skips THEN HopDial(hcred.key) ELSE hphase' = "read" /\ UNCHANGED herr
  /\ UNCHANGED <<login, way, skips, hcred, files, hcatches, htried, mishaps>>

\* endConns ends every client: the handlers cannot forward again either.
ForwardFails ==
  /\ hphase = "forward" /\ Mishap
  /\ hphase' = "cut" /\ htried' = Marked(hcred.key)
  /\ UNCHANGED <<login, way, skips, hcred, files, herr, hcatches>>

-----------------------------------------------------------------------------
\* readPrivateKeyInJumpServer: the list is read when nothing else is left.
Lists   == ~hcred.drained /\ hcred.password = "none" /\ hcred.key = None
ToRead  == IF hlisted THEN hkeys ELSE [k \in DOMAIN Target.files |-> k]

ReadNothing ==
  /\ hphase = "read" /\ ~hlisted /\ ~Lists
  /\ HopDial(hcred.key)
  /\ UNCHANGED <<login, way, skips, hcred, files, hcatches, htried, mishaps>>

ReadKey ==
  /\ hphase = "read" /\ (hlisted \/ Lists) /\ ToRead # <<>>
  /\ LET k   == Head(ToRead)
         key == IF HopKey(k).kind = "missing" THEN None ELSE k IN
     /\ hcred' = [hcred EXCEPT !.key = key]
     /\ htried' = IF key = None THEN Marked(k) ELSE htried
     /\ HopDial(key)
  /\ hlisted' = TRUE /\ hkeys' = Tail(ToRead)
  /\ UNCHANGED <<login, way, skips, hcatches, mishaps>>

\* No file is left, or ls fails.
Drained == [hcred EXCEPT !.key = None, !.drained = TRUE]

ReadDrained ==
  /\ hphase = "read" /\ (hlisted \/ Lists)
  /\ \/ ToRead = <<>> /\ NoMishap /\ UNCHANGED htried
     \/ ~hlisted /\ Mishap /\ htried' = htried \cup {<<passed + 1, k>> : k \in DOMAIN Target.files}
  /\ hcred' = Drained
  /\ hlisted' = FALSE /\ hphase' = "auth"
  /\ UNCHANGED <<login, way, skips, hkeys, herr, hcatches>>

\* cat fails; the first time before jumpSshKeys is set.
ReadFails ==
  /\ hphase = "read" /\ (hlisted \/ Lists) /\ ToRead # <<>> /\ Mishap
  /\ hkeys' = IF hlisted THEN Tail(ToRead) ELSE hkeys
  /\ htried' = Marked(Head(ToRead))
  /\ HopThrow
  /\ UNCHANGED <<login, way, hcred, hlisted, herr>>

-----------------------------------------------------------------------------
\* The server's side of an attempt.
Takes ==
  \/ Target.agent = "taken"
  \/ hcred.key # None /\ HopKey(hcred.key).known
  \/ Target.server = "password" /\ hcred.password = "right"

\* hopping goes on from the new client.
HopAccept ==
  /\ hphase = "auth" /\ Takes
  /\ passed' = passed + 1 /\ hphase' = "idle" /\ hcatches' = 0
  /\ htried' = Marked(hcred.key)
  /\ UNCHANGED <<login, route, skips, hcred, files, herr, mishaps>>

HopRefuse ==
  /\ hphase = "auth" /\ ~Takes
  /\ HopError("refused")
  /\ htried' = Marked(hcred.key)
  /\ UNCHANGED <<login, way, skips, hcred, files, hcatches, mishaps>>

HopLose ==
  /\ hphase = "auth" /\ Mishap
  /\ HopError("lost")
  /\ htried' = Marked(hcred.key)
  /\ UNCHANGED <<login, way, skips, hcred, files, hcatches>>

-----------------------------------------------------------------------------
\* What retryJump does about a failed attempt, in the order of its tests.
HopAskPassphrase ==
  /\ hphase = "error" /\ herr = "passphrase"
  /\ hphase' = "passphrase"
  /\ UNCHANGED <<login, way, skips, hcred, files, herr, hcatches, htried, mishaps>>

\* Nothing was tried but the agent.  Mutants: this is never so; also when the list
\* of files is used up.
AgentAloneNever   == FALSE
AgentAloneForever ==
  herr = "refused" /\ ~hlisted /\ hcred.password = "none" /\ hcred.key = None
AgentAlone ==
  /\ herr = "refused" /\ ~hlisted /\ ~hcred.drained
  /\ hcred.password = "none" /\ hcred.key = None

\* Mutant: while files are left.
AsksEarly       == herr = "refused" /\ hcred.password = "none"
AsksHopPassword == herr = "refused" /\ hcred.drained /\ hcred.password = "none"

HopNext ==
  /\ hphase = "error" /\ (AgentAlone \/ (herr # "passphrase" /\ ~AsksHopPassword))
  /\ IF AgentAlone \/ hlisted THEN Reconnect(FALSE) /\ UNCHANGED hcatches
                              ELSE HopThrow
  /\ UNCHANGED <<login, way, hcred, files, herr, htried, mishaps>>

\* The prompt is answered by the password saved for the first server, which is
\* the right one here or not.
HopAskPassword ==
  /\ hphase = "error" /\ ~AgentAlone /\ AsksHopPassword
  /\ IF world.password # "none"
       THEN /\ \E p \in {"right", "wrong"} : hcred' = [hcred EXCEPT !.password = p]
            /\ Reconnect(TRUE)
       ELSE hphase' = "password" /\ UNCHANGED <<hcred, skips>>
  /\ UNCHANGED <<login, way, files, herr, hcatches, htried, mishaps>>

\* handleKeyboardEventForRetryJump: what fails from now on is caught.
HopAnswerPassphrase ==
  /\ hphase = "passphrase"
  /\ \/ NoMishap /\ hcred' = [hcred EXCEPT !.passphrase = hcred.key]
     \/ Mishap /\ hcred' = [hcred EXCEPT !.passphrase = Wrong]
  /\ hkeys' = IF hlisted THEN <<hcred.key>> \o hkeys ELSE hkeys
  /\ Reconnect(TRUE) /\ hcatches' = hcatches + 1
  /\ UNCHANGED <<login, way, hlisted, herr, htried>>

\* An empty answer tries the same key again.
HopEmptyPassphrase ==
  /\ hphase = "passphrase" /\ Mishap
  /\ Reconnect(TRUE) /\ hcatches' = hcatches + 1
  /\ UNCHANGED <<login, way, hcred, files, herr, htried>>

HopCancelPassphrase ==
  /\ hphase = "passphrase" /\ Mishap
  /\ htried' = Marked(hcred.key)
  /\ Reconnect(FALSE)
  /\ UNCHANGED <<login, way, hcred, files, herr, hcatches>>

HopAnswerPassword ==
  /\ hphase = "password"
  /\ \/ NoMishap /\ hcred' = [hcred EXCEPT !.password = "right"]
     \/ Mishap /\ hcred' = [hcred EXCEPT !.password = "wrong"]
  /\ Reconnect(TRUE)
  /\ UNCHANGED <<login, way, files, herr, hcatches, htried>>

HopCancelPassword ==
  /\ hphase = "password" /\ Mishap
  /\ HopThrow
  /\ UNCHANGED <<login, way, hcred, files, herr, htried>>

-----------------------------------------------------------------------------
\* The exception leaves hopping.  A login that is tried again starts with the
\* first server; jumpSshKeys is as the hop left it.
JumpFailed ==
  /\ hphase \in {"failed", "cut"}
  /\ HopsFail(hphase = "cut", passed > 0)
  /\ passed' = 0 /\ hphase' = "idle" /\ hcatches' = 0
  /\ UNCHANGED <<route, skips, hcred, files, herr, htried>>

\* A step of the session; it goes on from "ready" when the last hop is made.
SessionStep ==
  /\ Direct /\ (phase = "ready" => Arrived)
  /\ passed' = IF phase' = "connect" THEN 0 ELSE passed
  /\ UNCHANGED <<route, hphase, skips, hcred, files, herr, hcatches, htried>>

HopStep ==
  \/ Jump \/ Forwarded \/ ForwardFails
  \/ ReadNothing \/ ReadKey \/ ReadDrained \/ ReadFails
  \/ HopAccept \/ HopRefuse \/ HopLose
  \/ HopAskPassphrase \/ HopNext \/ HopAskPassword
  \/ HopAnswerPassphrase \/ HopEmptyPassphrase \/ HopCancelPassphrase
  \/ HopAnswerPassword \/ HopCancelPassword

RouteNext == SessionStep \/ HopStep \/ JumpFailed

RouteSpec     == RouteInit /\ [][RouteNext]_hvars
RouteFairSpec == RouteSpec /\ WF_hvars(RouteNext)

-----------------------------------------------------------------------------
RouteTypeOK ==
  /\ route \in Routes /\ passed \in 0 .. Len(route)
  /\ hphase \in {"idle", "forward", "read", "auth", "error", "passphrase", "password",
                 "failed", "cut"}
  /\ hphase # "idle" => phase = "ready" /\ ~Arrived
  /\ hcred \in [key : {None} \cup Nat, passphrase : {None, Wrong} \cup Nat,
                password : {"none", "right", "wrong"}, drained : BOOLEAN]
  /\ skips \in BOOLEAN /\ hlisted \in BOOLEAN /\ hkeys \in Seq(Nat)
  /\ herr \in {"none", "passphrase", "refused", "lost"}
  /\ hcatches \in Nat /\ htried \subseteq (Nat \X Nat)

\* With one hop nobody is asked for its password while a key file of the first
\* server is left that was neither shown to the hop nor given up, in this attempt
\* or an earlier one: the list survives the retries of the session (retryJump).
HopPasswordLast ==
  phase = "ready" /\ hphase = "password" /\ Len(route) = 1 /\ route[1].saved = NoKey
    => \A k \in DOMAIN route[1].files : <<1, k>> \in htried

\* What holds in every state of a route, with the types.
RouteInv == RouteTypeOK /\ HopPasswordLast

\* The hop's own credentials open it.  If they do not come from the bookmark, its
\* password is typed; the one saved for the first server would be taken instead.
\* A key whose file is missing is none, although the server knows it.
Opens(h) ==
  \/ h.agent = "taken"
  \/ h.saved # NoKey /\ h.saved.known
  \/ h.server = "password" /\ h.password = "right"
  \/ /\ h.saved = NoKey /\ h.password = "none"
     /\ \/ \E k \in DOMAIN h.files : h.files[k].known /\ h.files[k].kind # "missing"
        \/ h.server = "password" /\ world.password = "none"
Saved(h) == h.agent = "taken" \/ h.saved # NoKey \/ h.password # "none"

\* A session that can reach its last server does, however many credentials are
\* refused on the way, if prompts are answered and the lines hold.  Only the last
\* hop may look for key files: the list it leaves is taken for a later hop's.
RouteComplete ==
  /\ Sufficient /\ mishaps = MaxMishaps
  /\ \A i \in DOMAIN route : Opens(route[i]) /\ (i < Len(route) => Saved(route[i]))
  => phase # "failed"
=============================================================================
