----------------------------- MODULE SshSession -----------------------------
(* One SSH session and the server it connects to first, from sshConnect to *)
(* kill, in server/session-ssh.js.  A login that fails is retried through  *)
(* the same object: with the next key file, without the password when a    *)
(* second factor is asked for, with a passphrase or a password that the    *)
(* user types.                                                             *)
(*                                                                         *)
(* A key is its position in ~/.ssh, 0 is the key saved with the bookmark;  *)
(* a passphrase is the key it opens.  The attempts are chained promises:   *)
(* the prompts for a name and a passphrase catch whatever fails after      *)
(* them, and catches counts the handlers that enclose the present attempt. *)
EXTENDS Integers, Sequences

CONSTANTS
  Worlds,      (* what a session may meet, see World                       *)
  MaxMishaps   (* bound on mistakes and refusals of users, servers, lines  *)

None  == -1
Wrong == -2

(* A key is locked by a passphrase, open, or its file is missing beside    *)
(* the .pub; it is known when the server accepts it.  The server takes     *)
(* keys alone, or also a password, or password and code in one keyboard-   *)
(* interactive round, or the password first and then the code.             *)
Key   == [kind : {"open", "locked", "missing"}, known : BOOLEAN]
NoKey == [kind |-> "none", known |-> FALSE]
World == [files : Seq(Key), saved : Key \cup {NoKey},
          username : BOOLEAN, password : {"none", "right", "wrong"}, mfa : BOOLEAN,
          server : {"keys", "password", "code", "both"}, ciphers : BOOLEAN,
          purpose : {"terminal", "sftp", "test"}, hops : BOOLEAN]

ASSUME SshAssumption == Worlds \subseteq World /\ MaxMishaps \in Nat

VARIABLES
  world,      (* initOptions, the key directory, the server                *)
  cred,       (* connectOptions: username, password, privateKey, passphrase *)
  listed,     (* sshKeys is defined                                        *)
  sshKeys,    (* the key files not tried yet                               *)
  retry2FA, altAlg,
  phase,      (* what the session waits for                                *)
  err,        (* why the last attempt failed                               *)
  catches,    (* handlers around the present attempt                       *)
  client,     (* this.conn: "none", "idle", "open" or "ended"              *)
  stray,      (* a client was replaced while open                          *)
  beyond,     (* history: a retry has begun from behind a hop              *)
  registered, channel,
  tried,      (* keys shown to the server, given up, or lost with the line *)
  mishaps     (* left of MaxMishaps                                        *)

vars == <<world, cred, listed, sshKeys, retry2FA, altAlg, phase, err, catches,
          client, stray, beyond, registered, channel, tried, mishaps>>
keys    == <<listed, sshKeys>>
fixed   == <<world, retry2FA, altAlg>>
flags   == <<fixed, beyond>>
outcome == <<stray, registered, channel>>
login   == <<flags, cred, keys, phase, err, catches, client, outcome, tried>>

Init ==
  /\ world \in Worlds
  /\ cred = [username |-> IF world.username THEN "right" ELSE "",
             password |-> IF world.mfa THEN "none" ELSE world.password,
             key |-> IF world.saved = NoKey THEN None ELSE 0,
             passphrase |-> None]
  /\ retry2FA = world.mfa
  /\ listed = FALSE /\ sshKeys = <<>> /\ altAlg = FALSE
  /\ phase = "connect" /\ err = "none" /\ catches = 0
  /\ client = "none" /\ stray = FALSE /\ beyond = FALSE /\ registered = FALSE /\ channel = FALSE
  /\ tried = {} /\ mishaps = MaxMishaps

Mishap   == mishaps > 0 /\ mishaps' = mishaps - 1
NoMishap == UNCHANGED mishaps

KeyOf(k) == IF k = 0 THEN world.saved ELSE world.files[k]
Files    == DOMAIN world.files

-----------------------------------------------------------------------------
\* this.conn.end().
Ended == IF client = "open" THEN "ended" ELSE client

\* nextTry when it tries again, and when it does not.
Retry  == phase' = "connect" /\ client' = Ended
GiveUp == phase' = "failed" /\ UNCHANGED client

NextTry(force) ==
  IF listed \/ force THEN Retry /\ UNCHANGED catches
                     ELSE GiveUp /\ catches' = 0

\* An exception meets the innermost handler, which calls nextTry: that tries
\* again while key files are left, else throws, and so do the outer handlers.
\* Behind a hop this.conn is the hop's client: that one is ended, and the client
\* to the first server stays open.
Throw(behind) ==
  IF listed /\ catches > 0
    THEN /\ phase' = "connect" /\ catches' = catches - 1
         /\ client' = IF behind THEN client ELSE Ended
         /\ beyond' = (beyond \/ behind)
    ELSE GiveUp /\ catches' = 0 /\ UNCHANGED beyond

\* The attempt ends with the error e and the client in the state c.
Fail(e, c) == phase' = "error" /\ err' = e /\ client' = c

-----------------------------------------------------------------------------
\* sshConnect: a new client takes the place of the last one.
NewClient == stray' = (stray \/ client = "open")

\* getUserName: the prompt is empty and hidden, which onKeyboardEvent takes for
\* a password prompt, and answers with the saved password if there is one.
AskUsername ==
  /\ phase = "connect" /\ cred.username = ""
  /\ NewClient /\ client' = "idle"
  /\ IF world.password # "none"
       THEN /\ cred' = [cred EXCEPT !.username = "secret"]
            /\ catches' = catches + 1
            /\ UNCHANGED phase
       ELSE /\ phase' = "username"
            /\ UNCHANGED <<cred, catches>>
  /\ UNCHANGED <<flags, keys, err, registered, channel, tried, mishaps>>

AnswerUsername ==
  /\ phase = "username"
  /\ \/ NoMishap /\ cred' = [cred EXCEPT !.username = "right"]
     \/ Mishap /\ UNCHANGED cred
  /\ catches' = catches + 1
  /\ phase' = "connect"
  /\ UNCHANGED <<flags, keys, err, client, outcome, tried>>

CancelUsername ==
  /\ phase = "username" /\ Mishap
  /\ NextTry(FALSE)
  /\ UNCHANGED <<flags, cred, keys, err, outcome, tried>>

\* connect with the key k and the passphrase p: a locked key is parsed first.
Dial(k, p) ==
  IF k # None /\ KeyOf(k).kind = "locked" /\ p # k
    THEN Fail("passphrase", "idle")
    ELSE phase' = "auth" /\ client' = "open" /\ UNCHANGED err

\* getPrivateKey is called, and the key files it takes the next one of.
WantsFile == listed \/ /\ cred.key = None /\ cred.password = "none"
                       /\ world.password = "none"
Queue == IF listed THEN sshKeys ELSE [k \in Files |-> k]

Connect ==
  /\ phase = "connect" /\ cred.username # ""
  /\ NewClient
  /\ ~WantsFile \/ (Queue = <<>> /\ ~listed)
  /\ Dial(cred.key, cred.passphrase)
  /\ UNCHANGED <<flags, cred, keys, catches, registered, channel, tried, mishaps>>

\* The next key file; if it cannot be read the exception leaves sshConnect,
\* the first time before sshKeys is set.
ConnectWithFile ==
  /\ phase = "connect" /\ cred.username # ""
  /\ NewClient
  /\ WantsFile /\ Queue # <<>>
  /\ LET k == Head(Queue) IN
     IF KeyOf(k).kind = "missing"
       THEN /\ Fail("unreadable", "idle")
            /\ sshKeys' = IF listed THEN Tail(Queue) ELSE sshKeys
            /\ tried' = tried \cup {k}
            /\ UNCHANGED <<cred, listed>>
       ELSE /\ Dial(k, cred.passphrase)
            /\ cred' = [cred EXCEPT !.key = k]
            /\ listed' = TRUE /\ sshKeys' = Tail(Queue)
            /\ UNCHANGED tried
  /\ UNCHANGED <<flags, catches, registered, channel, mishaps>>

\* No file is left: a last attempt without a key.
ConnectDrained ==
  /\ phase = "connect" /\ cred.username # ""
  /\ NewClient
  /\ listed /\ sshKeys = <<>>
  /\ cred' = [cred EXCEPT !.key = None, !.passphrase = None]
  /\ listed' = FALSE
  /\ Dial(None, None)
  /\ UNCHANGED <<flags, sshKeys, catches, registered, channel, tried, mishaps>>

-----------------------------------------------------------------------------
\* The server's side of an attempt, after createAuthHandler's order.
Shown == IF cred.key = None THEN tried ELSE tried \cup {cred.key}
Accepted ==
  /\ cred.username = "right"
  /\ \/ cred.key # None /\ KeyOf(cred.key).known
     \/ world.server = "password" /\ cred.password = "right"
AsksCode == \/ world.server = "code"
            \/ /\ world.server = "both"
               /\ cred.username = "right" /\ cred.password = "right"

Mismatch ==
  /\ phase = "auth" /\ ~world.ciphers
  /\ Fail("cipher", "ended")
  /\ UNCHANGED <<flags, cred, keys, catches, outcome, tried, mishaps>>

Accept ==
  /\ phase = "auth" /\ world.ciphers /\ Accepted
  /\ phase' = "ready"
  /\ tried' = Shown
  /\ UNCHANGED <<flags, cred, keys, err, catches, client, outcome, mishaps>>

\* The prompts look like a second factor while a password was sent along: begin
\* again without it, once.
Retries2FA == ~retry2FA /\ cred.password # "none" /\ world.server = "code"

AskCode ==
  /\ phase = "auth" /\ world.ciphers /\ ~Accepted /\ AsksCode
  /\ tried' = Shown
  /\ IF Retries2FA
       THEN /\ retry2FA' = TRUE
            /\ Fail("2fa", "ended")
       ELSE /\ phase' = "code"
            /\ UNCHANGED <<retry2FA, err, client>>
  /\ UNCHANGED <<world, altAlg, beyond, cred, keys, catches, outcome, mishaps>>

Refuse ==
  /\ phase = "auth" /\ world.ciphers /\ ~Accepted /\ ~AsksCode
  /\ tried' = Shown
  /\ Fail("refused", "ended")
  /\ UNCHANGED <<flags, cred, keys, catches, outcome, mishaps>>

\* The password of the keyboard-interactive round is the present one, else the
\* saved one, else the user types it with the code.
RoundPassword ==
  IF cred.password # "none" THEN cred.password ELSE world.password

AnswerCode ==
  /\ phase = "code"
  /\ IF cred.username = "right" /\ RoundPassword # "wrong"
       THEN \/ /\ phase' = "ready" /\ NoMishap
               /\ UNCHANGED <<err, client>>
            \/ Mishap /\ Fail("refused", "ended")
       ELSE NoMishap /\ Fail("refused", "ended")
  /\ UNCHANGED <<flags, cred, keys, catches, outcome, tried>>

\* The client is not ended here; readyTimeout will end it.
CancelCode ==
  /\ phase = "code" /\ Mishap
  /\ Fail("cancel", client)
  /\ UNCHANGED <<flags, cred, keys, catches, outcome, tried>>

\* The line fails, the host key is denied, or readyTimeout passes.
LoseLine ==
  /\ phase \in {"auth", "code"} /\ Mishap
  /\ Fail("lost", "ended")
  /\ tried' = Shown
  /\ UNCHANGED <<flags, cred, keys, catches, outcome>>

-----------------------------------------------------------------------------
\* What sshConnect does about a failed attempt, in the order of its tests.  Its
\* branch for a saved password that was not sent cannot be reached: one that is
\* missing from connectOptions was removed together with setting retry2FA.

\* reTryAltAlg ends the client, and algAlt throws: it calls exports.algDefault
\* in a module that has no exports, before altAlg is set.  An unreadable file
\* is an exception as well.
AfterException ==
  /\ phase = "error" /\ err \in {"cipher", "unreadable"}
  /\ Throw(FALSE)
  /\ UNCHANGED <<fixed, cred, keys, err, outcome, tried, mishaps>>

After2FA ==
  /\ phase = "error" /\ err = "2fa"
  /\ cred' = [cred EXCEPT !.password = "none"]
  /\ phase' = "connect"
  /\ UNCHANGED <<flags, keys, err, catches, client, outcome, tried, mishaps>>

AskPassphrase ==
  /\ phase = "error" /\ err = "passphrase"
  /\ phase' = "passphrase"
  /\ UNCHANGED <<flags, cred, keys, err, catches, client, outcome, tried, mishaps>>

\* Nothing to type a password for while key files are left.
\* Mutant: the files are forgotten.
AsksPasswordEarly == err = "refused" /\ cred.password = "none"
AsksPassword == err = "refused" /\ ~listed /\ cred.password = "none"

\* The prompt is answered by the saved password if there is one.
AskPassword ==
  /\ phase = "error" /\ AsksPassword
  /\ IF world.password # "none"
       THEN cred' = [cred EXCEPT !.password = world.password] /\ phase' = "connect"
       ELSE phase' = "password" /\ UNCHANGED cred
  /\ UNCHANGED <<flags, keys, err, catches, client, outcome, tried, mishaps>>

AfterError ==
  /\ phase = "error" /\ err \in {"refused", "cancel", "lost"} /\ ~AsksPassword
  /\ NextTry(FALSE)
  /\ UNCHANGED <<flags, cred, keys, err, outcome, tried, mishaps>>

\* The key goes back to the front to be tried with its passphrase.
KeyAgain == IF listed THEN <<cred.key>> \o sshKeys ELSE sshKeys

AnswerPassphrase ==
  /\ phase = "passphrase"
  /\ \/ NoMishap /\ cred' = [cred EXCEPT !.passphrase = cred.key]
     \/ Mishap /\ cred' = [cred EXCEPT !.passphrase = Wrong]
  /\ sshKeys' = KeyAgain
  /\ Retry /\ catches' = catches + 1
  /\ UNCHANGED <<flags, listed, err, outcome, tried>>

\* The prompt is cancelled, or answered by nothing, which is caught later.
CancelPassphrase ==
  /\ phase = "passphrase" /\ Mishap
  /\ tried' = Shown
  /\ IF listed THEN Retry /\ catches' \in {catches, catches + 1}
               ELSE GiveUp /\ catches' = 0
  /\ UNCHANGED <<flags, cred, keys, err, outcome>>

AnswerPassword ==
  /\ phase = "password"
  /\ \/ NoMishap /\ cred' = [cred EXCEPT !.password = "right"]
     \/ Mishap /\ cred' = [cred EXCEPT !.password = "wrong"]
  /\ phase' = "connect"
  /\ UNCHANGED <<flags, keys, err, catches, client, outcome, tried>>

CancelPassword ==
  /\ phase = "password" /\ Mishap
  /\ Throw(FALSE)
  /\ UNCHANGED <<fixed, cred, keys, err, outcome, tried>>

-----------------------------------------------------------------------------
\* onInitSshReady: a test ends the connection, a session for files alone is
\* registered at once, a terminal when it has its shell.
TestDone ==
  /\ phase = "ready" /\ world.purpose = "test"
  /\ phase' = "done" /\ client' = Ended
  /\ UNCHANGED <<flags, cred, keys, err, catches, outcome, tried, mishaps>>

Register ==
  /\ phase = "ready" /\ world.purpose # "test"
  /\ phase' = "open"
  /\ registered' = TRUE /\ channel' = (world.purpose = "terminal")
  /\ UNCHANGED <<flags, cred, keys, err, catches, client, stray, tried, mishaps>>

\* The last server refuses the shell.
ShellRefused ==
  /\ phase = "ready" /\ world.purpose = "terminal" /\ Mishap
  /\ Throw(world.hops)
  /\ UNCHANGED <<fixed, cred, keys, err, outcome, tried>>

\* A way to a further server is cut: endConns ends the client, then it throws.
CutOff ==
  /\ client' = Ended /\ UNCHANGED beyond
  /\ IF listed /\ catches > 0 THEN phase' = "connect" /\ catches' = catches - 1
                              ELSE phase' = "failed" /\ catches' = 0

\* hopping fails, at the first hop or behind one: the servers behind the first one
\* are in SshRoute.
HopsFail(cut, behind) ==
  /\ phase = "ready" /\ world.hops
  /\ IF cut THEN CutOff ELSE Throw(behind)
  /\ UNCHANGED <<fixed, cred, keys, err, outcome, tried, mishaps>>

\* kill forgets every field, conn too, before doKill ends what it still finds.
Kill ==
  /\ phase = "open" /\ registered
  /\ phase' = "killed"
  /\ registered' = FALSE /\ channel' = FALSE
  /\ UNCHANGED <<flags, cred, keys, err, catches, client, stray, tried, mishaps>>

\* Something goes wrong at a hop, which deals with it itself.
HopTrouble == phase = "ready" /\ world.hops /\ Mishap /\ UNCHANGED login

\* What happens between the session and the first server.
Direct ==
  \/ AskUsername \/ AnswerUsername \/ CancelUsername
  \/ Connect \/ ConnectWithFile \/ ConnectDrained
  \/ Mismatch \/ Accept \/ AskCode \/ Refuse \/ AnswerCode \/ CancelCode \/ LoseLine
  \/ AfterException \/ After2FA \/ AskPassphrase \/ AskPassword \/ AfterError
  \/ AnswerPassphrase \/ CancelPassphrase \/ AnswerPassword \/ CancelPassword
  \/ TestDone \/ Register \/ ShellRefused \/ Kill

Next == Direct \/ HopTrouble \/ \E cut, behind \in BOOLEAN : HopsFail(cut, behind)

Spec == Init /\ [][Next]_vars

-----------------------------------------------------------------------------
CredType == [username : {"", "right", "secret"}, password : {"none", "right", "wrong"},
             key : {None, 0} \cup Files, passphrase : {None, Wrong, 0} \cup Files]
Phases == {"connect", "username", "auth", "code", "error", "passphrase", "password",
           "ready", "open", "failed", "done", "killed"}
Errors == {"none", "passphrase", "unreadable", "cipher", "2fa", "refused", "cancel", "lost"}

TypeOK ==
  /\ world \in Worlds
  /\ cred \in CredType
  /\ listed \in BOOLEAN /\ sshKeys \in Seq(Files)
  /\ retry2FA \in BOOLEAN /\ altAlg \in BOOLEAN
  /\ phase \in Phases /\ err \in Errors
  /\ catches \in Nat /\ mishaps \in 0 .. MaxMishaps
  /\ client \in {"none", "idle", "open", "ended"}
  /\ stray \in BOOLEAN /\ beyond \in BOOLEAN /\ registered \in BOOLEAN /\ channel \in BOOLEAN
  /\ tried \subseteq ({0} \cup Files)

\* A credential exists that the server takes: a key that was saved, or one in
\* ~/.ssh if nothing was saved; else a password, saved right or to be typed.
\* A saved password must come with a user name (it answers that prompt).
Sufficient ==
  /\ world.ciphers
  /\ world.username \/ world.password = "none"
  /\ \A k \in Files : KeyOf(k).kind # "missing"
  /\ \/ world.saved # NoKey /\ world.saved.known
     \/ world.saved = NoKey /\ world.password = "none" /\ \E k \in Files : KeyOf(k).known
     \/ world.server # "keys" /\ world.password # "wrong"

\* An attempt begins only after the client of the one before it was ended, so
\* that one session never holds two connections to the server (nextTry); it does
\* when a retry begins from behind a hop, whose client is ended in its stead.
OneClient == (stray => beyond) /\ (beyond => world.hops)

\* The session's own prompt for a password (sshConnect) does not come while a key
\* file is left that was neither shown to the server nor given up, whatever went
\* wrong before.  (A server that asks for a password in its keyboard-interactive
\* round is heard at once, phase "code".)
OwnPromptLast ==
  phase = "password" /\ world.saved = NoKey => Files \subseteq tried

\* If prompts are answered, the attempts come to an end: in a session or in
\* an error, never in an endless series of retries (sshConnect, nextTry).
Settles == <>(phase \in {"open", "failed", "done", "killed"})

\* What holds in every state of a login, with the types.
SshInv == TypeOK /\ OneClient /\ OwnPromptLast
=============================================================================
