--------------------------- MODULE SshRouteProofs ---------------------------
(* Proofs about a session and the servers behind it (SshSession, SshRoute),  *)
(* for every world, every route and any number of mishaps.  The login comes   *)
(* first: one client at a time unless a retry begins behind a hop, types, the *)
(* session's own prompt for a password last.  A route is a session, so what   *)
(* is proved of the login holds of it; then come the types and the invariant  *)
(* of its hops; and last that a session that can reach its last server does.  *)
EXTENDS SshRoute, SequenceTheorems, TLAPS

-----------------------------------------------------------------------------
(* One connection at a time.  A new client replaces the old one on the way *)
(* out of "connect" only, so the invariant says of every wait that leads   *)
(* there, and of the errors that lead to such a wait, that the client is   *)
(* not open, unless a retry has begun behind a hop.                        *)
Settled ==
  \/ phase \in {"connect", "username", "passphrase", "password"}
  \/ phase = "error" /\ err \in {"2fa", "passphrase", "refused"}

ClientInv ==
  /\ OneClient
  /\ Settled => client # "open" \/ beyond

\* The helpers that end a step leave the client settled.
LEMMA RetrySettles == Retry => client' # "open"
  BY DEF Retry, Ended

\* So does nextTry, whether it tries again or not.
LEMMA NextTrySettles ==
  ASSUME NEW force \in BOOLEAN, NextTry(force), UNCHANGED <<world, stray, beyond, err>>, ClientInv
  PROVE  ClientInv'
  BY RetrySettles DEF NextTry, Retry, GiveUp, ClientInv, OneClient, Settled

\* So does an exception that meets the handlers, but behind a hop.
LEMMA ThrowSettles ==
  ASSUME NEW behind, Throw(behind), behind => world.hops,
         UNCHANGED <<world, stray, err>>, ClientInv
  PROVE  ClientInv'
  BY DEF Throw, GiveUp, Ended, ClientInv, OneClient, Settled

\* A new attempt replaces a client that is not open.
LEMMA DialSettles ==
  ASSUME NEW k, NEW p, phase = "connect", NewClient, Dial(k, p), ClientInv,
         UNCHANGED <<world, beyond>>
  PROVE  ClientInv'
  BY DEF NewClient, Dial, Fail, ClientInv, OneClient, Settled

\* When hopping fails the session begins again, with the client to the first server
\* ended or left open behind a hop; else the login is over.
LEMMA HopsFailEnds ==
  ASSUME NEW cut \in BOOLEAN, NEW behind \in BOOLEAN, HopsFail(cut, behind)
  PROVE  /\ \/ phase' = "connect" /\ listed /\ (beyond' \in BOOLEAN \/ UNCHANGED beyond)
            \/ phase' = "failed" /\ UNCHANGED beyond
         /\ client' \in {client, Ended}
         /\ client' = Ended \/ phase' = "failed" \/ beyond'
         /\ beyond => beyond'
         /\ phase = "ready" /\ world.hops
         /\ UNCHANGED <<fixed, cred, keys, err, outcome, tried, mishaps>>
<1>1. phase = "ready" /\ world.hops /\ UNCHANGED <<fixed, cred, keys, err, outcome, tried, mishaps>>
  BY DEF HopsFail
<1>2. CASE CutOff
  BY <1>1, <1>2 DEF CutOff
<1>3. CASE Throw(behind)
  <2>1. CASE listed /\ catches > 0
    <3>1. phase' = "connect" /\ beyond' = (beyond \/ behind)
      BY <1>3, <2>1 DEF Throw
    <3>2. client' = IF behind THEN client ELSE Ended
      BY <1>3, <2>1 DEF Throw
    <3>3. beyond' \in BOOLEAN /\ (behind => beyond') /\ (beyond => beyond')
      BY <3>1, Zenon
    <3>4. client' \in {client, Ended} /\ (client' = Ended \/ beyond')
      BY <3>2, <3>3
    <3> QED BY <1>1, <2>1, <3>1, <3>3, <3>4
  <2>2. CASE ~(listed /\ catches > 0)
    BY <1>1, <1>3, <2>2 DEF Throw, GiveUp
  <2> QED BY <2>1, <2>2
<1> QED
  BY <1>2, <1>3 DEF HopsFail

\* Every step keeps the client of a session settled between two attempts.
LEMMA ClientStep == ClientInv /\ [Next]_vars => ClientInv'
<1> SUFFICES ASSUME ClientInv, [Next]_vars PROVE ClientInv'
  OBVIOUS
<1>1. CASE AskUsername
  BY <1>1 DEF AskUsername, NewClient, ClientInv, OneClient, Settled, flags, fixed, keys
<1>2. CASE AnswerUsername
  BY <1>2 DEF AnswerUsername, ClientInv, OneClient, Settled, flags, fixed, keys, outcome
<1>3. CASE CancelUsername
  BY <1>3, NextTrySettles DEF CancelUsername, flags, fixed, outcome
<1>4. CASE Connect
  BY <1>4, DialSettles DEF Connect, flags, fixed
<1>5. CASE ConnectWithFile
  <2>1. CASE KeyOf(Head(Queue)).kind = "missing"
    BY <1>5, <2>1 DEF ConnectWithFile, NewClient, Fail, ClientInv, OneClient, Settled,
                      flags, fixed
  <2>2. CASE KeyOf(Head(Queue)).kind # "missing"
    BY <1>5, <2>2, DialSettles DEF ConnectWithFile, flags, fixed
  <2> QED BY <2>1, <2>2
<1>6. CASE ConnectDrained
  BY <1>6, DialSettles DEF ConnectDrained, flags, fixed
<1>7. CASE Mismatch \/ Accept \/ Refuse \/ LoseLine
  BY <1>7 DEF Mismatch, Accept, Refuse, LoseLine, Fail, ClientInv, OneClient, Settled, outcome, flags, fixed
<1>8. CASE AskCode
  BY <1>8 DEF AskCode, Fail, ClientInv, OneClient, Settled, outcome, flags, fixed
<1>9. CASE AnswerCode \/ CancelCode
  BY <1>9 DEF AnswerCode, CancelCode, Fail, ClientInv, OneClient, Settled, outcome, flags, fixed
<1>10. CASE AfterException
  BY <1>10, ThrowSettles DEF AfterException, outcome, fixed
<1>11. CASE After2FA \/ AskPassphrase \/ AskPassword
  BY <1>11 DEF After2FA, AskPassphrase, AskPassword, AsksPassword, ClientInv, OneClient,
               Settled, outcome, flags, fixed
<1>12. CASE AfterError
  BY <1>12, NextTrySettles DEF AfterError, outcome, flags, fixed
<1>13. CASE AnswerPassphrase \/ CancelPassphrase
  BY <1>13, RetrySettles DEF AnswerPassphrase, CancelPassphrase, Retry, GiveUp, ClientInv,
                             OneClient, Settled, outcome, flags, fixed
<1>14. CASE AnswerPassword
  BY <1>14 DEF AnswerPassword, ClientInv, OneClient, Settled, outcome, flags, fixed
<1>15. CASE CancelPassword \/ ShellRefused
  <2>1. CASE CancelPassword
    <3>1. Throw(FALSE) /\ UNCHANGED <<world, stray, err>>
      BY <2>1 DEF CancelPassword, outcome, fixed
    <3> QED BY <3>1, ThrowSettles
  <2>2. CASE ShellRefused
    <3>1. Throw(world.hops) /\ UNCHANGED <<world, stray, err>>
      BY <2>2 DEF ShellRefused, outcome, fixed
    <3> QED BY <3>1, ThrowSettles
  <2> QED BY <1>15, <2>1, <2>2
<1>16. CASE TestDone \/ Register \/ Kill
  BY <1>16 DEF TestDone, Register, Kill, ClientInv, OneClient, Settled, outcome, flags, fixed
<1>17. CASE UNCHANGED vars
  BY <1>17 DEF vars, ClientInv, OneClient, Settled
<1>18. CASE \E cut, behind \in BOOLEAN : HopsFail(cut, behind)
  BY <1>18, HopsFailEnds DEF ClientInv, OneClient, Settled, outcome, fixed, Ended
<1>19. CASE HopTrouble
  BY <1>19 DEF HopTrouble, login, ClientInv, OneClient, Settled, outcome, flags, fixed
<1> QED
  BY <1>1, <1>2, <1>3, <1>4, <1>5, <1>6, <1>7, <1>8, <1>9, <1>10, <1>11, <1>12, <1>13,
     <1>14, <1>15, <1>16, <1>17, <1>18, <1>19 DEF Next, Direct

\* An attempt begins only after the client of the one before it was ended: one
\* session never holds two connections to the server (sshConnect, nextTry), unless a
\* retry began behind a hop, where nextTry ends the hop's client.
THEOREM OneClientAlways == Spec => []OneClient
<1>1. Init => ClientInv
  BY DEF Init, ClientInv, OneClient, Settled
<1>2. ClientInv => OneClient
  BY DEF ClientInv
<1> QED
  BY <1>1, <1>2, ClientStep, PTL DEF Spec

-----------------------------------------------------------------------------
(* Types.                                                                  *)
\* The key files are numbered from 1.
LEMMA WorldType ==
  ASSUME world \in Worlds
  PROVE  /\ world \in World
         /\ Files = 1 .. Len(world.files) /\ Len(world.files) \in Nat
         /\ \A k \in Files : world.files[k] \in Key
<1>1. world \in World
  BY SshAssumption
<1>2. world.files \in Seq(Key)
  BY <1>1 DEF World
<1>3. DOMAIN world.files = 1 .. Len(world.files) /\ Len(world.files) \in Nat
  BY <1>2
<1>4. \A k \in 1 .. Len(world.files) : world.files[k] \in Key
  BY <1>2
<1> QED
  BY <1>1, <1>3, <1>4 DEF Files

\* The key files a session may still take, and the next one.
LEMMA QueueType ==
  ASSUME world \in Worlds, sshKeys \in Seq(Files)
  PROVE  /\ Queue \in Seq(Files)
         /\ Queue # <<>> => Head(Queue) \in Files /\ Tail(Queue) \in Seq(Files)
<1>1. [k \in Files |-> k] \in Seq(Files)
  BY WorldType, SeqDef
<1>2. Queue \in Seq(Files)
  BY <1>1 DEF Queue
<1> QED
  BY <1>2, HeadTailProperties

\* A key put back is a key file.
LEMMA KeyAgainType ==
  ASSUME sshKeys \in Seq(Files), listed => cred.key \in Files
  PROVE  KeyAgain \in Seq(Files)
<1>1. CASE listed
  <2>1. <<cred.key>> \in Seq(Files)
    BY <1>1
  <2> QED
    BY <1>1, <2>1, ConcatProperties DEF KeyAgain
<1>2. CASE ~listed
  BY <1>2 DEF KeyAgain
<1> QED
  BY <1>1, <1>2

\* The types in two parts; while files are listed, the present key is one.
DataInv ==
  /\ world \in Worlds /\ cred \in CredType
  /\ listed \in BOOLEAN /\ sshKeys \in Seq(Files)
  /\ listed => cred.key \in Files
  /\ tried \subseteq ({0} \cup Files)

ControlInv ==
  /\ retry2FA \in BOOLEAN /\ altAlg \in BOOLEAN
  /\ phase \in Phases /\ err \in Errors
  /\ catches \in Nat /\ mishaps \in 0 .. MaxMishaps
  /\ client \in {"none", "idle", "open", "ended"}
  /\ stray \in BOOLEAN /\ beyond \in BOOLEAN /\ registered \in BOOLEAN /\ channel \in BOOLEAN

\* What a session meets does not change.
LEMMA SameWorld ==
  ASSUME [Next]_vars
  PROVE  world' = world /\ Files' = Files /\ CredType' = CredType
<1>1. world' = world
  BY DEF Next, vars, flags, fixed, AskUsername, AnswerUsername, CancelUsername, Connect,
         ConnectWithFile, ConnectDrained, Mismatch, Accept, AskCode, Refuse, AnswerCode,
         CancelCode, LoseLine, AfterException, After2FA, AskPassphrase, AskPassword,
         AfterError, AnswerPassphrase, CancelPassphrase, AnswerPassword, CancelPassword,
         TestDone, Register, ShellRefused, Kill, Direct, HopsFail, HopTrouble, login
<1> QED
  BY <1>1 DEF Files, CredType

\* The fields of the credentials can be set one by one.
LEMMA CredSet ==
  ASSUME cred \in CredType
  PROVE  /\ \A u \in {"", "right", "secret"} :
              LET c == [cred EXCEPT !.username = u] IN c \in CredType /\ c.key = cred.key
         /\ \A w \in {"none", "right", "wrong"} :
              LET c == [cred EXCEPT !.password = w] IN c \in CredType /\ c.key = cred.key
         /\ \A k \in {None} \cup Files :
              LET c == [cred EXCEPT !.key = k] IN c \in CredType /\ c.key = k
         /\ \A p \in {None, Wrong, 0} \cup Files :
              LET c == [cred EXCEPT !.passphrase = p] IN c \in CredType /\ c.key = cred.key
         /\ [cred EXCEPT !.key = None, !.passphrase = None] \in CredType
  BY DEF CredType

\* The present key may be put among those that were tried.
LEMMA ShownType ==
  ASSUME cred \in CredType, tried \subseteq ({0} \cup Files)
  PROVE  Shown \subseteq ({0} \cup Files)
<1>1. cred.key \in {None, 0} \cup Files
  BY DEF CredType
<1> QED
  BY <1>1 DEF Shown

\* No step leaves the types of the control variables.
LEMMA ControlStep == ControlInv /\ [Next]_vars => ControlInv'
<1> SUFFICES ASSUME ControlInv, [Next]_vars PROVE ControlInv'
  OBVIOUS
<1> USE DEF ControlInv, flags, fixed, outcome, Phases, Errors, Mishap, NoMishap
<1>1. CASE AskUsername
  <2>1. stray' \in BOOLEAN
    BY <1>1 DEF AskUsername, NewClient
  <2>2. catches' \in Nat
    <3>1. catches' = catches + 1 \/ catches' = catches
      BY <1>1, Zenon DEF AskUsername
    <3> QED BY <3>1
  <2>3. phase' \in Phases /\ client' \in {"none", "idle", "open", "ended"}
    BY <1>1 DEF AskUsername
  <2> QED
    BY <1>1, <2>1, <2>2, <2>3 DEF AskUsername
<1>9. CASE AnswerUsername
  BY <1>9, SshAssumption DEF AnswerUsername
<1>10. CASE CancelUsername
  BY <1>10, SshAssumption DEF CancelUsername, NextTry, Retry, GiveUp, Ended
<1>2. CASE Connect \/ ConnectWithFile \/ ConnectDrained
  BY <1>2 DEF Connect, ConnectWithFile, ConnectDrained, NewClient, Dial, Fail
<1>3. CASE Mismatch \/ Accept \/ AskCode \/ Refuse
  BY <1>3 DEF Mismatch, Accept, AskCode, Refuse, Fail
<1>4. CASE AnswerCode \/ CancelCode \/ LoseLine
  BY <1>4, SshAssumption DEF AnswerCode, CancelCode, LoseLine, Fail
<1>5. CASE AfterException \/ After2FA \/ AskPassphrase \/ AskPassword \/ AfterError
  BY <1>5 DEF AfterException, After2FA, AskPassphrase, AskPassword, AfterError, Throw,
              NextTry, Retry, GiveUp, Ended
<1>6. CASE AnswerPassphrase \/ CancelPassphrase \/ AnswerPassword \/ CancelPassword
  BY <1>6, SshAssumption DEF AnswerPassphrase, CancelPassphrase, AnswerPassword, CancelPassword,
              Throw, Retry, GiveUp, Ended
<1>7. CASE TestDone \/ Register \/ ShellRefused \/ Kill
  <2>1. CASE TestDone
    BY <2>1 DEF TestDone, Ended
  <2>2. CASE Register
    BY <2>2 DEF Register
  <2>3. CASE ShellRefused
    <3>1. Throw(world.hops) /\ mishaps' \in 0 .. MaxMishaps
      BY <2>3, SshAssumption DEF ShellRefused
    <3>2. beyond' \in BOOLEAN
      BY <3>1 DEF Throw
    <3>3. phase' \in {"connect", "failed"} /\ client' \in {client, Ended} /\ catches' \in Nat
      BY <3>1 DEF Throw, GiveUp
    <3> QED BY <2>3, <3>1, <3>2, <3>3 DEF ShellRefused, Ended
  <2>4. CASE Kill
    BY <2>4 DEF Kill
  <2> QED BY <1>7, <2>1, <2>2, <2>3, <2>4
<1>8. CASE UNCHANGED vars
  BY <1>8 DEF vars
<1>11. ASSUME NEW cut \in BOOLEAN, NEW behind \in BOOLEAN, HopsFail(cut, behind)
      PROVE  ControlInv'
  <2>1. catches' \in Nat
    BY <1>11 DEF HopsFail, CutOff, Throw, Retry, GiveUp
  <2>2. beyond' \in BOOLEAN /\ phase' \in Phases /\ client' \in {client, Ended}
    BY <1>11, HopsFailEnds
  <2>3. UNCHANGED <<fixed, err, outcome, mishaps>>
    BY <1>11, HopsFailEnds
  <2> QED
    BY <2>1, <2>2, <2>3 DEF Ended
<1>12. CASE HopTrouble
  BY <1>12, SshAssumption DEF HopTrouble, login
<1> QED
  BY <1>1, <1>2, <1>3, <1>4, <1>5, <1>6, <1>7, <1>8, <1>9, <1>10, <1>11, <1>12
     DEF Next, Direct

\* No step leaves the types of the credentials and the key files.
LEMMA DataStep == DataInv /\ [Next]_vars => DataInv'
<1> SUFFICES ASSUME DataInv, [Next]_vars PROVE DataInv'
  OBVIOUS
<1>s. world' = world /\ Files' = Files /\ CredType' = CredType
  BY SameWorld
<1>k. cred' \in CredType /\ cred'.key = cred.key /\ UNCHANGED <<keys, tried>> => DataInv'
  BY <1>s DEF DataInv, keys
<1>t. UNCHANGED <<cred, keys>> /\ tried' \in {tried, Shown} => DataInv'
  BY <1>s, ShownType DEF DataInv, keys
<1>1. CASE \/ CancelUsername \/ Connect \/ Mismatch \/ Accept \/ AskCode \/ Refuse
           \/ AnswerCode \/ CancelCode \/ LoseLine
  BY <1>1, <1>t DEF CancelUsername, Connect, Mismatch, Accept, AskCode, Refuse, AnswerCode,
                    CancelCode, LoseLine
<1>7. CASE \/ AfterException \/ AskPassphrase \/ AfterError \/ CancelPassphrase
           \/ CancelPassword \/ TestDone \/ Register \/ ShellRefused \/ Kill
  BY <1>7, <1>t DEF AfterException, AskPassphrase, AfterError, CancelPassphrase,
                    CancelPassword, TestDone, Register, ShellRefused, Kill
<1>8. CASE UNCHANGED vars
  BY <1>8, <1>t DEF vars, keys
<1>h. ASSUME NEW cut \in BOOLEAN, NEW behind \in BOOLEAN, HopsFail(cut, behind)
      PROVE  DataInv'
  BY <1>h, <1>t, HopsFailEnds
<1>m. CASE HopTrouble
  BY <1>m, <1>t DEF HopTrouble, login
<1>2. CASE AskUsername \/ AnswerUsername
  <2>1. cred' = cred \/ \E u \in {"right", "secret"} : cred' = [cred EXCEPT !.username = u]
    BY <1>2 DEF AskUsername, AnswerUsername
  <2>2. cred' \in CredType /\ cred'.key = cred.key
    BY <2>1, CredSet DEF DataInv
  <2> QED BY <1>2, <2>2, <1>k DEF AskUsername, AnswerUsername
<1>3. CASE After2FA \/ AskPassword \/ AnswerPassword
  <2>0. world.password \in {"none", "right", "wrong"}
    BY WorldType DEF DataInv, World
  <2>1. \/ cred' = cred
        \/ \E w \in {"none", "right", "wrong"} : cred' = [cred EXCEPT !.password = w]
    BY <1>3, <2>0 DEF After2FA, AskPassword, AnswerPassword
  <2>2. cred' \in CredType /\ cred'.key = cred.key
    BY <2>1, CredSet DEF DataInv
  <2> QED BY <1>3, <2>2, <1>k DEF After2FA, AskPassword, AnswerPassword
<1>4. CASE AnswerPassphrase
  <2>0. cred.key \in {None, Wrong, 0} \cup Files
    BY DEF DataInv, CredType
  <2>1. \E p \in {None, Wrong, 0} \cup Files : cred' = [cred EXCEPT !.passphrase = p]
    BY <1>4, <2>0 DEF AnswerPassphrase
  <2>2. cred' \in CredType /\ cred'.key = cred.key
    BY <2>1, CredSet DEF DataInv
  <2>3. sshKeys' \in Seq(Files)
    BY <1>4, KeyAgainType DEF AnswerPassphrase, DataInv
  <2> QED BY <1>4, <1>s, <2>2, <2>3 DEF AnswerPassphrase, DataInv
<1>5. CASE ConnectWithFile
  <2>1. Head(Queue) \in Files /\ Tail(Queue) \in Seq(Files)
    BY <1>5, QueueType DEF ConnectWithFile, DataInv
  <2>2. CASE KeyOf(Head(Queue)).kind = "missing"
    BY <1>5, <1>s, <2>1, <2>2 DEF ConnectWithFile, DataInv
  <2>3. CASE KeyOf(Head(Queue)).kind # "missing"
    <3>0. cred' = [cred EXCEPT !.key = Head(Queue)]
      BY <1>5, <2>3 DEF ConnectWithFile
    <3>1. cred' \in CredType /\ cred'.key = Head(Queue)
      BY <3>0, <2>1, CredSet DEF DataInv
    <3> QED BY <1>5, <1>s, <2>1, <2>3, <3>1 DEF ConnectWithFile, DataInv
  <2> QED BY <2>2, <2>3
<1>6. CASE ConnectDrained
  <2>1. cred' \in CredType
    BY <1>6, CredSet DEF ConnectDrained, DataInv
  <2> QED BY <1>6, <1>s, <2>1 DEF ConnectDrained, DataInv
<1> QED
  BY <1>1, <1>2, <1>3, <1>4, <1>5, <1>6, <1>7, <1>8, <1>h, <1>m DEF Next, Direct

\* The session begins with values of the types.
LEMMA InitInv == Init => DataInv /\ ControlInv
<1> SUFFICES ASSUME Init PROVE DataInv /\ ControlInv
  OBVIOUS
<1>1. world \in World
  BY SshAssumption DEF Init
<1>2. cred \in CredType
  BY <1>1 DEF Init, World, CredType
<1>3. world.mfa \in BOOLEAN
  BY <1>1 DEF World
<1>4. ControlInv
  <2>1. catches \in Nat /\ mishaps \in 0 .. MaxMishaps
    <3>1. catches = 0 /\ mishaps = MaxMishaps
      BY Zenon DEF Init
    <3> QED BY <3>1, SshAssumption
  <2>2. retry2FA \in BOOLEAN /\ altAlg \in BOOLEAN /\ stray \in BOOLEAN /\ beyond \in BOOLEAN
          /\ registered \in BOOLEAN /\ channel \in BOOLEAN
    BY <1>3 DEF Init
  <2> QED BY <2>1, <2>2 DEF Init, ControlInv, Phases, Errors
<1>5. <<>> \in Seq(Files)
  OBVIOUS
<1> QED BY <1>2, <1>4, <1>5 DEF Init, DataInv

\* Every variable keeps its type, whatever the world and the mishaps.
THEOREM TypeCorrect == Spec => []TypeOK
<1>1. DataInv /\ ControlInv => TypeOK
  BY DEF DataInv, ControlInv, TypeOK
<1> QED
  BY InitInv, <1>1, DataStep, ControlStep, PTL DEF Spec
-----------------------------------------------------------------------------
(* The password is asked for last.  A key file is accounted for when it    *)
(* was tried or is left in sshKeys; only the key an attempt is made with   *)
(* is in neither place, until the server has seen it, or it is put back    *)
(* for its passphrase, or given up.  When no file is listed any more and   *)
(* no password is known, all of them were tried.                           *)
Left == {sshKeys[i] : i \in DOMAIN sshKeys}

\* The present key is under way.
UnderWay == \/ phase \in {"auth", "passphrase"}
            \/ phase = "error" /\ err = "passphrase"

\* What a refusal now would lead to the password prompt.
NothingElse ==
  /\ ~listed /\ cred.password = "none" /\ world.password = "none"
  /\ phase \in {"auth", "code"} \/ (phase = "error" /\ err = "refused")

FileInv(f) ==
  /\ listed => f \in tried \/ f \in Left \/ f = cred.key
  /\ listed /\ ~UnderWay => f \in tried \/ f \in Left
  /\ world.saved = NoKey /\ NothingElse => f \in tried
  /\ world.saved = NoKey /\ phase = "password" => f \in tried

\* No file is listed before the user has a name, the present key is a listed
\* one, and a server without a common cipher never gets as far as a refusal.
LoginInv ==
  /\ cred.username = "" => ~listed
  /\ world.saved = NoKey /\ ~listed => cred.key = None
  /\ phase \in {"code", "password"} \/ err = "refused" => world.ciphers
  /\ err = "cipher" => ~world.ciphers

AskInv == LoginInv /\ (world.ciphers => \A f \in Files : FileInv(f))

\* The empty sequence has no positions.
LEMMA EmptyDomain == DOMAIN << >> = {}
<1>1. DOMAIN << >> = 1 .. Len(<< >>) /\ Len(<< >>) = 0
  BY EmptySeq
<1> QED BY <1>1

\* Taking the first of some keys leaves the others.
LEMMA TakeFirst ==
  ASSUME NEW S, NEW s \in Seq(S), s # <<>>, NEW i \in DOMAIN s
  PROVE  s[i] = Head(s) \/ \E j \in DOMAIN Tail(s) : s[i] = Tail(s)[j]
<1>1. i \in 1 .. Len(s) /\ Len(s) \in Nat
  OBVIOUS
<1>2. CASE i = 1
  BY <1>2
<1>3. CASE i # 1
  <2>1. i - 1 \in 1 .. Len(Tail(s)) /\ Tail(s)[i - 1] = s[i]
    BY <1>1, <1>3
  <2>2. DOMAIN Tail(s) = 1 .. Len(Tail(s))
    OBVIOUS
  <2> QED BY <2>1, <2>2
<1> QED BY <1>2, <1>3

\* Taking the next key accounts for it alone.
LEMMA LeftAfterTake ==
  ASSUME world \in Worlds, sshKeys \in Seq(Files), Queue # <<>>, sshKeys' = Tail(Queue)
  PROVE  /\ listed => Left \subseteq Left' \cup {Head(Queue)}
         /\ ~listed => Files \subseteq Left' \cup {Head(Queue)}
<1>1. Queue \in Seq(Files)
  BY QueueType
<1>2. \A i \in DOMAIN Queue : Queue[i] \in Left' \cup {Head(Queue)}
  BY <1>1, TakeFirst DEF Left
<1>3. ASSUME listed PROVE Left \subseteq Left' \cup {Head(Queue)}
  BY <1>2, <1>3 DEF Queue, Left
<1>4. ASSUME ~listed PROVE Files \subseteq Left' \cup {Head(Queue)}
  BY <1>2, <1>4 DEF Queue
<1> QED BY <1>3, <1>4

\* A key put back is left again, with the others.
LEMMA LeftAfterAgain ==
  ASSUME sshKeys \in Seq(Files), listed, cred.key \in Files, sshKeys' = KeyAgain
  PROVE  Left \cup {cred.key} \subseteq Left'
<1>1. sshKeys' = <<cred.key>> \o sshKeys /\ <<cred.key>> \in Seq(Files)
  BY DEF KeyAgain
<1>2. /\ DOMAIN sshKeys' = 1 .. Len(sshKeys) + 1 /\ Len(sshKeys) \in Nat
      /\ sshKeys'[1] = cred.key
      /\ \A i \in 1 .. Len(sshKeys) : sshKeys'[i + 1] = sshKeys[i]
  BY <1>1
<1>3. cred.key \in Left'
  BY <1>2 DEF Left
<1>4. \A i \in DOMAIN sshKeys : sshKeys[i] \in Left'
  <2> SUFFICES ASSUME NEW i \in DOMAIN sshKeys PROVE sshKeys[i] \in Left'
    OBVIOUS
  <2>1. i + 1 \in DOMAIN sshKeys' /\ sshKeys'[i + 1] = sshKeys[i]
    BY <1>2
  <2> QED BY <2>1 DEF Left
<1> QED BY <1>3, <1>4 DEF Left

\* The fields an assignment to the credentials leaves alone.
LEMMA CredFields ==
  ASSUME cred \in CredType
  PROVE  /\ \A u : LET c == [cred EXCEPT !.username = u] IN
              c.username = u /\ c.password = cred.password /\ c.key = cred.key
         /\ \A w : LET c == [cred EXCEPT !.password = w] IN
              c.username = cred.username /\ c.password = w /\ c.key = cred.key
         /\ \A k : LET c == [cred EXCEPT !.key = k] IN
              c.username = cred.username /\ c.password = cred.password /\ c.key = k
         /\ \A p : LET c == [cred EXCEPT !.passphrase = p] IN
              c.username = cred.username /\ c.password = cred.password /\ c.key = cred.key
         /\ LET c == [cred EXCEPT !.key = None, !.passphrase = None] IN
              c.username = cred.username /\ c.password = cred.password /\ c.key = None
  BY DEF CredType

\* What the steps that ask for something do to the credentials.
LEMMA Asking ==
  ASSUME cred \in CredType
  PROVE  /\ AskUsername \/ AnswerUsername
              => /\ cred'.key = cred.key /\ cred'.password = cred.password
                 /\ cred.username # "" => cred'.username # ""
         /\ After2FA \/ AskPassword \/ AnswerPassword \/ AnswerPassphrase
              => cred'.key = cred.key /\ cred'.username = cred.username
         /\ AnswerPassphrase => cred'.password = cred.password
<1>1. ASSUME AskUsername \/ AnswerUsername
      PROVE  /\ cred'.key = cred.key /\ cred'.password = cred.password
             /\ cred.username # "" => cred'.username # ""
  <2>1. cred' = cred \/ \E u \in {"right", "secret"} : cred' = [cred EXCEPT !.username = u]
    BY <1>1 DEF AskUsername, AnswerUsername
  <2>2. CASE cred' = cred
    BY <2>2
  <2>3. ASSUME NEW u \in {"right", "secret"}, cred' = [cred EXCEPT !.username = u]
        PROVE  cred'.key = cred.key /\ cred'.password = cred.password /\ cred'.username = u
    BY <2>3 DEF CredType
  <2> QED BY <2>1, <2>2, <2>3
<1>2. ASSUME After2FA \/ AskPassword \/ AnswerPassword
      PROVE  cred'.key = cred.key /\ cred'.username = cred.username
  <2>1. cred' = cred \/ \E w : cred' = [cred EXCEPT !.password = w]
    BY <1>2 DEF After2FA, AskPassword, AnswerPassword
  <2>2. CASE cred' = cred
    BY <2>2
  <2>3. ASSUME NEW w, cred' = [cred EXCEPT !.password = w]
        PROVE  cred'.key = cred.key /\ cred'.username = cred.username
    BY <2>3 DEF CredType
  <2> QED BY <2>1, <2>2, <2>3
<1>3. ASSUME AnswerPassphrase
      PROVE  cred'.key = cred.key /\ cred'.username = cred.username
               /\ cred'.password = cred.password
  <2>1. \E p : cred' = [cred EXCEPT !.passphrase = p]
    BY <1>3 DEF AnswerPassphrase
  <2> QED BY <2>1, CredFields
<1> QED BY <1>1, <1>2, <1>3

\* No step lists a file too soon, loses the present key, or asks for a password
\* of a server without a common cipher.
LEMMA LoginStep == DataInv /\ LoginInv /\ [Next]_vars => LoginInv'
<1> SUFFICES ASSUME DataInv, LoginInv, [Next]_vars PROVE LoginInv'
  OBVIOUS
<1>s. world' = world
  BY SameWorld
<1>b. listed \in BOOLEAN /\ cred \in CredType
  BY DEF DataInv
<1> USE DEF LoginInv, flags, fixed, keys
<1>1. CASE AskUsername
  BY <1>1, <1>s, <1>b, Asking DEF AskUsername
<1>2. CASE AnswerUsername
  BY <1>2, <1>s, <1>b, Asking DEF AnswerUsername
<1>3. CASE CancelUsername
  BY <1>3, <1>s, <1>b DEF CancelUsername, NextTry, Retry, GiveUp
<1>4. CASE Connect
  BY <1>4, <1>s, <1>b DEF Connect, WantsFile, Queue, Dial, Fail
<1>5. CASE ConnectWithFile
  <2>1. CASE KeyOf(Head(Queue)).kind = "missing"
    BY <1>5, <2>1, <1>s DEF ConnectWithFile, Fail
  <2>2. CASE KeyOf(Head(Queue)).kind # "missing"
    <3>0. cred' = [cred EXCEPT !.key = Head(Queue)]
      BY <1>5, <2>2 DEF ConnectWithFile
    <3>1. cred'.username = cred.username
      BY <3>0, <1>b, CredFields
    <3>2. listed' = TRUE /\ cred.username # "" /\ phase' \in {"auth", "error"}
            /\ err' \in {err, "passphrase"}
      BY <1>5, <2>2 DEF ConnectWithFile, Dial, Fail
    <3> QED BY <3>1, <3>2, <1>s
  <2> QED BY <2>1, <2>2
<1>6. CASE ConnectDrained
  BY <1>6, <1>s, <1>b, CredFields DEF ConnectDrained, Dial, Fail
<1>7. CASE Mismatch
  BY <1>7, <1>s, <1>b DEF Mismatch, Fail
<1>8. CASE Accept
  BY <1>8, <1>s, <1>b DEF Accept, Shown
<1>9. CASE AskCode
  BY <1>9, <1>s, <1>b DEF AskCode, Shown, Fail
<1>10. CASE Refuse
  BY <1>10, <1>s, <1>b DEF Refuse, Shown, Fail
<1>11. CASE AnswerCode
  BY <1>11, <1>s, <1>b DEF AnswerCode, Fail
<1>12. CASE CancelCode
  BY <1>12, <1>s, <1>b DEF CancelCode, Fail
<1>13. CASE LoseLine
  BY <1>13, <1>s, <1>b DEF LoseLine, Shown, Fail
<1>14. CASE AfterException
  BY <1>14, <1>s, <1>b DEF AfterException, Throw, Retry, GiveUp
<1>15. CASE After2FA
  BY <1>15, <1>s, <1>b, Asking DEF After2FA
<1>16. CASE AskPassphrase
  BY <1>16, <1>s, <1>b DEF AskPassphrase
<1>17. CASE AskPassword
  BY <1>17, <1>s, <1>b, Asking DEF AskPassword, AsksPassword
<1>18. CASE AfterError
  BY <1>18, <1>s, <1>b DEF AfterError, NextTry, Retry, GiveUp
<1>19. CASE AnswerPassphrase
  BY <1>19, <1>s, <1>b, Asking DEF AnswerPassphrase, Retry
<1>20. CASE CancelPassphrase
  BY <1>20, <1>s, <1>b DEF CancelPassphrase, Shown, Retry, GiveUp
<1>21. CASE AnswerPassword
  BY <1>21, <1>s, <1>b, Asking DEF AnswerPassword
<1>22. CASE CancelPassword
  BY <1>22, <1>s, <1>b DEF CancelPassword, Throw, Retry, GiveUp
<1>23. CASE TestDone \/ Register \/ Kill
  <2>1. /\ phase' \in {"done", "open", "killed"}
        /\ UNCHANGED <<cred, listed, sshKeys, tried, err>>
    BY <1>23 DEF TestDone, Register, Kill
  <2> QED BY <2>1, <1>s
<1>24. CASE ShellRefused
  BY <1>24, <1>s, <1>b DEF ShellRefused, Throw, Retry, GiveUp
<1>25. CASE UNCHANGED vars
  BY <1>25, <1>s, <1>b DEF vars
<1>26. ASSUME NEW cut \in BOOLEAN, NEW behind \in BOOLEAN, HopsFail(cut, behind)
      PROVE  LoginInv'
  BY <1>26, <1>s, <1>b, HopsFailEnds
<1>27. CASE HopTrouble
  BY <1>27, <1>s, <1>b DEF HopTrouble, login
<1> QED
  BY <1>1, <1>2, <1>3, <1>4, <1>5, <1>6, <1>7, <1>8, <1>9, <1>10, <1>11, <1>12, <1>13,
     <1>14, <1>15, <1>16, <1>17, <1>18, <1>19, <1>20, <1>21, <1>22, <1>23, <1>24, <1>25,
     <1>26, <1>27 DEF Next, Direct

\* No step loses a key file, or forgets that it was not tried.
LEMMA FileStep ==
  ASSUME DataInv, LoginInv, [Next]_vars, world.ciphers, NEW f \in Files, FileInv(f)
  PROVE  FileInv(f)'
<1>s. world' = world
  BY SameWorld
<1>l. UNCHANGED sshKeys => Left' = Left
  BY DEF Left
<1>b. listed \in BOOLEAN /\ cred \in CredType /\ (listed => cred.key \in Files) /\ f # None
  BY WorldType DEF DataInv, None
<1> USE DEF FileInv, LoginInv, UnderWay, NothingElse, flags, fixed, keys
<1>1. CASE AskUsername
  BY <1>1, <1>s, <1>l, <1>b, Asking DEF AskUsername
<1>2. CASE AnswerUsername
  BY <1>2, <1>s, <1>l, <1>b, Asking DEF AnswerUsername
<1>3. CASE CancelUsername
  BY <1>3, <1>s, <1>l, <1>b DEF CancelUsername, NextTry, Retry, GiveUp
<1>4. CASE Connect
  <2>1. ~listed /\ UNCHANGED <<cred, listed>>
    BY <1>4 DEF Connect, WantsFile
  <2>2. phase' \in {"auth", "error"}
    BY <1>4 DEF Connect, Dial, Fail
  <2>3. ~(world.saved = NoKey /\ cred.password = "none" /\ world.password = "none")
    <3>1. SUFFICES ASSUME world.saved = NoKey, cred.password = "none",
                          world.password = "none"
                   PROVE  FALSE
      OBVIOUS
    <3>2. WantsFile
      BY <2>1, <3>1 DEF WantsFile
    <3>3. Queue = <<>>
      BY <1>4, <3>2 DEF Connect
    <3>4. Queue = [k \in Files |-> k]
      BY <2>1 DEF Queue
    <3>5. DOMAIN Queue = Files
      BY <3>4
    <3>6. Files = {}
      BY <3>3, <3>5, EmptyDomain
    <3> QED BY <3>6
  <2> QED BY <2>1, <2>2, <2>3, <1>s
<1>5. CASE ConnectWithFile
  <2> DEFINE k == Head(Queue)
  <2>0. phase = "connect" /\ Queue # <<>>
    BY <1>5 DEF ConnectWithFile
  <2>1. ASSUME sshKeys' = Tail(Queue)
        PROVE  (listed => f \in tried \/ f \in Left' \/ f = k)
                 /\ (~listed => f \in Left' \/ f = k)
    <3>1. listed => f \in tried \/ f \in Left
      BY <2>0
    <3>2. /\ listed => Left \subseteq Left' \cup {k}
          /\ ~listed => Files \subseteq Left' \cup {k}
      BY <2>0, <2>1, LeftAfterTake DEF DataInv
    <3> QED BY <3>1, <3>2
  <2>2. CASE KeyOf(k).kind = "missing"
    <3>1. /\ phase' = "error" /\ err' = "unreadable"
          /\ tried' = tried \cup {k} /\ UNCHANGED <<cred, listed>>
          /\ listed => sshKeys' = Tail(Queue)
      BY <1>5, <2>2 DEF ConnectWithFile, Fail
    <3>2. listed => f \in tried' \/ f \in Left'
      BY <2>1, <3>1
    <3> HIDE DEF k
    <3> QED BY <3>1, <3>2, <1>s
  <2>3. CASE KeyOf(k).kind # "missing"
    <3>1. /\ phase' = "auth" \/ (phase' = "error" /\ err' = "passphrase")
          /\ cred' = [cred EXCEPT !.key = k] /\ listed' = TRUE
          /\ sshKeys' = Tail(Queue) /\ tried' = tried
      BY <1>5, <2>3 DEF ConnectWithFile, Dial, Fail
    <3>2. cred'.key = k
      BY <3>1, <1>b, CredFields
    <3>3. f \in tried' \/ f \in Left' \/ f = k
      BY <2>1, <3>1, <1>b
    <3> HIDE DEF k
    <3> QED BY <3>1, <3>2, <3>3
  <2> QED BY <2>2, <2>3
<1>6. CASE ConnectDrained
  <2>1. listed /\ sshKeys = <<>> /\ phase = "connect"
    BY <1>6 DEF ConnectDrained
  <2>2. listed' = FALSE /\ tried' = tried /\ phase' \in {"auth", "error"}
    BY <1>6 DEF ConnectDrained, Dial, Fail
  <2>3. f \notin Left
    BY <2>1, EmptyDomain DEF Left
  <2>4. f \in tried
    BY <2>1, <2>3
  <2> QED BY <2>2, <2>4
<1>7. CASE Mismatch
  BY <1>7, <1>s, <1>l, <1>b DEF Mismatch, Fail
<1>8. CASE Accept
  BY <1>8, <1>s, <1>l, <1>b DEF Accept, Shown
<1>9. CASE AskCode
  BY <1>9, <1>s, <1>l, <1>b DEF AskCode, Shown, Fail
<1>10. CASE Refuse
  BY <1>10, <1>s, <1>l, <1>b DEF Refuse, Shown, Fail
<1>11. CASE AnswerCode
  BY <1>11, <1>s, <1>l, <1>b DEF AnswerCode, Fail
<1>12. CASE CancelCode
  BY <1>12, <1>s, <1>l, <1>b DEF CancelCode, Fail
<1>13. CASE LoseLine
  BY <1>13, <1>s, <1>l, <1>b DEF LoseLine, Shown, Fail
<1>14. CASE AfterException
  BY <1>14, <1>s, <1>l, <1>b DEF AfterException, Throw, Retry, GiveUp
<1>15. CASE After2FA
  BY <1>15, <1>s, <1>l, <1>b, Asking DEF After2FA
<1>16. CASE AskPassphrase
  BY <1>16, <1>s, <1>l, <1>b DEF AskPassphrase
<1>17. CASE AskPassword
  BY <1>17, <1>s, <1>l, <1>b, Asking DEF AskPassword, AsksPassword
<1>18. CASE AfterError
  BY <1>18, <1>s, <1>l, <1>b DEF AfterError, NextTry, Retry, GiveUp
<1>19. CASE AnswerPassphrase
  <2>1. /\ phase = "passphrase" /\ phase' = "connect"
        /\ UNCHANGED <<listed, tried, err>> /\ sshKeys' = KeyAgain
    BY <1>19 DEF AnswerPassphrase, Retry
  <2>2. cred'.key = cred.key
    BY <1>19, <1>b, Asking
  <2>3. listed => Left \cup {cred.key} \subseteq Left'
    BY <2>1, <1>b, LeftAfterAgain DEF DataInv
  <2>4. listed => f \in tried' \/ f \in Left'
    BY <2>1, <2>3
  <2> QED BY <2>1, <2>4
<1>20. CASE CancelPassphrase
  BY <1>20, <1>s, <1>l, <1>b DEF CancelPassphrase, Shown, Retry, GiveUp
<1>21. CASE AnswerPassword
  BY <1>21, <1>s, <1>l, <1>b, Asking DEF AnswerPassword
<1>22. CASE CancelPassword
  BY <1>22, <1>s, <1>l, <1>b DEF CancelPassword, Throw, Retry, GiveUp
<1>23. CASE TestDone \/ Register \/ Kill
  <2>1. /\ phase' \in {"done", "open", "killed"}
        /\ UNCHANGED <<cred, listed, sshKeys, tried, err>>
    BY <1>23 DEF TestDone, Register, Kill
  <2>2. Left' = Left
    BY <2>1, <1>l
  <2> QED BY <1>23, <2>1, <2>2, <1>b DEF TestDone, Register, Kill
<1>24. CASE ShellRefused
  BY <1>24, <1>s, <1>l, <1>b DEF ShellRefused, Throw, Retry, GiveUp
<1>25. CASE UNCHANGED vars
  BY <1>25, <1>s, <1>l, <1>b DEF vars
<1>26. ASSUME NEW cut \in BOOLEAN, NEW behind \in BOOLEAN, HopsFail(cut, behind)
      PROVE  FileInv(f)'
  BY <1>26, <1>s, <1>l, <1>b, HopsFailEnds
<1>27. CASE HopTrouble
  BY <1>27, <1>s, <1>l, <1>b DEF HopTrouble, login
<1> QED
  BY <1>1, <1>2, <1>3, <1>4, <1>5, <1>6, <1>7, <1>8, <1>9, <1>10, <1>11, <1>12, <1>13,
     <1>14, <1>15, <1>16, <1>17, <1>18, <1>19, <1>20, <1>21, <1>22, <1>23, <1>24, <1>25,
     <1>26, <1>27 DEF Next, Direct

\* The session's own prompt for a password does not come while a key file is left to
\* be tried, whatever the world, the mistakes and the failures of the line.
THEOREM OwnPromptLastAlways == Spec => []OwnPromptLast
<1>1. Init => DataInv /\ AskInv
  <2> SUFFICES ASSUME Init PROVE DataInv /\ AskInv
    OBVIOUS
  <2>1. DataInv
    BY InitInv
  <2>2. /\ ~listed /\ phase = "connect" /\ err = "none"
        /\ world.saved = NoKey => cred.key = None
    BY DEF Init
  <2> QED BY <2>1, <2>2 DEF AskInv, LoginInv, FileInv, NothingElse
<1>2. DataInv /\ AskInv /\ [Next]_vars => AskInv'
  <2> SUFFICES ASSUME DataInv, AskInv, [Next]_vars PROVE AskInv'
    OBVIOUS
  <2>1. LoginInv'
    BY LoginStep DEF AskInv
  <2>2. world' = world
    BY SameWorld
  <2>3. ASSUME world.ciphers, NEW f \in Files PROVE FileInv(f)'
    BY <2>3, FileStep DEF AskInv
  <2>4. Files' = Files
    BY <2>2 DEF Files
  <2> QED BY <2>1, <2>2, <2>3, <2>4 DEF AskInv
<1>3. AskInv => OwnPromptLast
  <2> SUFFICES ASSUME AskInv, phase = "password", world.saved = NoKey, NEW f \in Files
               PROVE  f \in tried
    BY DEF OwnPromptLast
  <2>1. world.ciphers
    BY DEF AskInv, LoginInv
  <2> QED BY <2>1 DEF AskInv, FileInv
<1> QED
  BY <1>1, <1>2, <1>3, DataStep, PTL DEF Spec

\* Every state of a login is well-formed, holds one client at most unless a retry
\* began behind a hop, and prompts for a password last: the retries of sshConnect, for
\* any worlds and any mishaps.
THEOREM LoginInvariant == Spec => []SshInv
<1>1. TypeOK /\ OneClient /\ OwnPromptLast => SshInv
  BY DEF SshInv
<1> QED
  BY <1>1, TypeCorrect, OneClientAlways, OwnPromptLastAlways, PTL

-----------------------------------------------------------------------------
(* Where a hop stands: it is made while the session is ready, and its      *)
(* passphrase is asked for when it has a key.                              *)
HopPhases == {"idle", "forward", "read", "auth", "error", "passphrase", "password",
              "failed", "cut"}
HopErrors == {"none", "passphrase", "refused", "lost"}
HopCreds  == [key : {None} \cup Nat, passphrase : {None, Wrong} \cup Nat,
              password : {"none", "right", "wrong"}, drained : BOOLEAN]

Asked == hphase = "passphrase" \/ (hphase = "error" /\ herr = "passphrase")

PlaceInv ==
  /\ route \in Seq(Hop) /\ route \in Routes /\ passed \in 0 .. Len(route)
  /\ world.hops <=> route # <<>>
  /\ hphase \in HopPhases /\ herr \in HopErrors
  /\ hphase # "idle" => phase = "ready" /\ passed < Len(route)
  /\ skips \in BOOLEAN /\ hlisted \in BOOLEAN /\ hcatches \in Nat

HopDataInv ==
  /\ hcred \in HopCreds
  /\ hkeys \in Seq(Nat)
  /\ Asked => hcred.key \in Nat
  /\ htried \subseteq (Nat \X Nat)

\* The ways a step of a hop ends.
LEMMA HopThrowEnds ==
  ASSUME HopThrow, hcatches \in Nat, skips \in BOOLEAN
  PROVE  hphase' \in {"forward", "failed"} /\ skips' \in BOOLEAN /\ hcatches' \in Nat
<1>1. CASE hcatches > 0
  <2>1. hphase' = "forward" /\ skips' = FALSE /\ hcatches' = hcatches - 1
    BY <1>1 DEF HopThrow, Reconnect
  <2>2. hcatches' \in Nat
    BY <1>1, <2>1
  <2> QED BY <2>1, <2>2
<1>2. CASE ~(hcatches > 0)
  <2>1. hphase' = "failed" /\ skips' = skips /\ hcatches' = hcatches
    BY <1>2, Zenon DEF HopThrow
  <2> QED BY <2>1
<1> QED
  BY <1>1, <1>2

LEMMA HopDialEnds ==
  ASSUME NEW k, HopDial(k), herr \in HopErrors
  PROVE  /\ hphase' \in {"auth", "error"} /\ herr' \in HopErrors
         /\ hphase' = "error" => k # None
  BY DEF HopDial, HopError, HopErrors

\* A hop is made in a ready session, and leaves the session alone.
LEMMA HopIsElsewhere ==
  ASSUME PlaceInv, HopStep
  PROVE  /\ UNCHANGED <<login, route>> /\ phase = "ready" /\ passed < Len(route)
         /\ mishaps' = mishaps \/ Mishap
<1>1. CASE Jump
  BY <1>1 DEF Jump, PlaceInv, Arrived, way
<1>2. CASE Forwarded \/ ReadNothing \/ ReadKey \/ HopAccept \/ HopRefuse
  BY <1>2 DEF Forwarded, ReadNothing, ReadKey, HopAccept, HopRefuse, PlaceInv, way
<1>3. CASE HopAskPassphrase \/ HopNext \/ HopAskPassword
  BY <1>3 DEF HopAskPassphrase, HopNext, HopAskPassword, PlaceInv, way
<1>4. CASE ForwardFails \/ ReadFails \/ HopLose \/ HopEmptyPassphrase \/ HopCancelPassphrase
  BY <1>4 DEF ForwardFails, ReadFails, HopLose, HopEmptyPassphrase, HopCancelPassphrase,
              PlaceInv, way
<1>5. CASE ReadDrained \/ HopAnswerPassphrase \/ HopAnswerPassword \/ HopCancelPassword
  BY <1>5 DEF ReadDrained, HopAnswerPassphrase, HopAnswerPassword, HopCancelPassword,
              PlaceInv, way, NoMishap
<1> QED
  BY <1>1, <1>2, <1>3, <1>4, <1>5 DEF HopStep

\* Every step of a route is a step of its session, or none.
LEMMA StepIsSession == PlaceInv /\ [RouteNext]_hvars => [Next]_vars
<1> SUFFICES ASSUME PlaceInv, [RouteNext]_hvars PROVE [Next]_vars
  OBVIOUS
<1>1. CASE HopStep
  <2>1. UNCHANGED login /\ phase = "ready" /\ world.hops
    <3>1. route # <<>>
      BY <1>1, HopIsElsewhere DEF PlaceInv
    <3> QED BY <1>1, <3>1, HopIsElsewhere DEF PlaceInv
  <2>2. CASE Mishap
    BY <2>1, <2>2 DEF Next, HopTrouble
  <2>3. CASE mishaps' = mishaps
    BY <2>1, <2>3 DEF vars, login, flags, fixed, keys, outcome
  <2> QED BY <1>1, <2>2, <2>3, HopIsElsewhere
<1>2. CASE JumpFailed
  <2>1. HopsFail(hphase = "cut", passed > 0)
    BY <1>2 DEF JumpFailed
  <2>2. (hphase = "cut") \in BOOLEAN /\ (passed > 0) \in BOOLEAN
    OBVIOUS
  <2> QED BY <2>1, <2>2, Zenon DEF Next
<1>3. CASE SessionStep
  BY <1>3 DEF SessionStep, Next
<1>4. CASE UNCHANGED hvars
  BY <1>4 DEF hvars
<1> QED
  BY <1>1, <1>2, <1>3, <1>4 DEF RouteNext

\* No step leaves the place of the hop.
LEMMA PlaceStep == PlaceInv /\ [RouteNext]_hvars => PlaceInv'
<1> SUFFICES ASSUME PlaceInv, [RouteNext]_hvars PROVE PlaceInv'
  OBVIOUS
<1>w. world' = world
  BY StepIsSession, SameWorld
<1>h. HopStep => UNCHANGED <<login, route>> /\ phase = "ready" /\ phase' = "ready"
                   /\ passed < Len(route)
  BY HopIsElsewhere DEF login
<1>n. Len(route) \in Nat /\ passed \in Nat
  BY DEF PlaceInv
<1> USE DEF HopPhases, HopErrors, way
<1>1. CASE SessionStep
  <2>1. hphase = "idle"
    BY <1>1, <1>n DEF SessionStep, Arrived, PlaceInv
  <2>2. passed' \in 0 .. Len(route)
    BY <1>1 DEF SessionStep, PlaceInv
  <2> QED BY <1>1, <1>w, <2>1, <2>2 DEF SessionStep, PlaceInv, files
<1>2. CASE JumpFailed
  <2>1. passed' \in 0 .. Len(route)
    BY <1>2, <1>n DEF JumpFailed
  <2> QED BY <1>2, <1>w, <2>1 DEF JumpFailed, PlaceInv, files
<1>3. CASE Jump
  <2>1. skips' \in BOOLEAN
    BY <1>3 DEF Jump, Reconnect
  <2> QED BY <1>3, <1>w, <1>h, <2>1 DEF Jump, Reconnect, PlaceInv, HopStep, files
<1>4. CASE Forwarded
  BY <1>4, <1>w, <1>h, HopDialEnds DEF Forwarded, PlaceInv, HopStep, files
<1>5. CASE ForwardFails \/ HopLose \/ HopRefuse \/ HopAskPassphrase
  BY <1>5, <1>w, <1>h
     DEF ForwardFails, HopLose, HopRefuse, HopError, HopAskPassphrase, PlaceInv, HopStep, files
<1>6. CASE ReadNothing \/ ReadKey
  BY <1>6, <1>w, <1>h, HopDialEnds DEF ReadNothing, ReadKey, PlaceInv, HopStep, files
<1>7. CASE ReadDrained
  BY <1>7, <1>w, <1>h DEF ReadDrained, PlaceInv, HopStep
<1>8. CASE ReadFails \/ HopCancelPassword
  BY <1>8, <1>w, <1>h, HopThrowEnds DEF ReadFails, HopCancelPassword, PlaceInv, HopStep, files
<1>9. CASE HopAccept
  BY <1>9, <1>w, <1>h DEF HopAccept, PlaceInv, HopStep, files
<1>10. CASE HopNext
  BY <1>10, <1>w, <1>h, HopThrowEnds DEF HopNext, Reconnect, PlaceInv, HopStep, files
<1>11. CASE HopAskPassword
  BY <1>11, <1>w, <1>h DEF HopAskPassword, Reconnect, PlaceInv, HopStep, files
<1>12. CASE HopAnswerPassphrase \/ HopEmptyPassphrase
  <2>1. hcatches' \in Nat
    <3>1. hcatches' = hcatches + 1
      BY <1>12 DEF HopAnswerPassphrase, HopEmptyPassphrase
    <3> QED BY <3>1 DEF PlaceInv
  <2>2. hphase' = "forward" /\ skips' = TRUE /\ UNCHANGED <<passed, hlisted, herr>>
    BY <1>12 DEF HopAnswerPassphrase, HopEmptyPassphrase, Reconnect, files
  <2> QED BY <1>12, <1>w, <1>h, <2>1, <2>2 DEF PlaceInv, HopStep
<1>13. CASE HopCancelPassphrase \/ HopAnswerPassword
  BY <1>13, <1>w, <1>h
     DEF HopCancelPassphrase, HopAnswerPassword, Reconnect, PlaceInv, HopStep, files
<1>14. CASE UNCHANGED hvars
  BY <1>14, <1>w DEF hvars, vars, hop, PlaceInv
<1> QED
  BY <1>1, <1>2, <1>3, <1>4, <1>5, <1>6, <1>7, <1>8, <1>9, <1>10, <1>11, <1>12, <1>13, <1>14
     DEF RouteNext, HopStep

\* A route begins with no hop made.
LEMMA PlaceInit == RouteInit => PlaceInv
<1> SUFFICES ASSUME RouteInit PROVE PlaceInv
  OBVIOUS
<1>1. route \in Routes /\ route \in Seq(Hop) /\ (world.hops <=> route # <<>>)
  BY RouteAssumption DEF RouteInit
<1>2. passed \in 0 .. Len(route)
  BY <1>1 DEF RouteInit
<1> QED
  BY <1>1, <1>2 DEF RouteInit, PlaceInv, HopPhases, HopErrors

\* The hops of a session are part of it: a route of any servers, whatever fails on
\* the way, is a session of SshSession (hopping, within onInitSshReady).
THEOREM RouteIsSession == RouteSpec => Spec
<1>1. RouteInit => Init
  BY DEF RouteInit
<1> QED
  BY <1>1, PlaceInit, PlaceStep, StepIsSession, PTL DEF RouteSpec, Spec

\* So a session with hops also is well-formed, holds one client to its first server
\* and asks for that server's password last.
THEOREM RouteKeepsLogin == RouteSpec => []SshInv
  BY RouteIsSession, LoginInvariant, PTL

-----------------------------------------------------------------------------
(* The types of the hop's credentials and of its key files.                *)
LEMMA TargetType ==
  ASSUME PlaceInv, passed < Len(route)
  PROVE  /\ Target \in Hop
         /\ DOMAIN Target.files = 1 .. Len(Target.files) /\ Len(Target.files) \in Nat
         /\ passed + 1 \in Nat
<1>1. Target \in Hop /\ passed \in Nat
  BY DEF PlaceInv, Target
<1>2. Target.files \in Seq(Key)
  BY <1>1 DEF Hop
<1> QED
  BY <1>1, <1>2

\* The key files to be read, and the next of them.
LEMMA ToReadType ==
  ASSUME PlaceInv, passed < Len(route), hkeys \in Seq(Nat)
  PROVE  /\ ToRead \in Seq(Nat)
         /\ ToRead # <<>> => Head(ToRead) \in Nat /\ Tail(ToRead) \in Seq(Nat)
<1>1. [k \in DOMAIN Target.files |-> k] \in Seq(Nat)
  BY TargetType, SeqDef
<1>2. ToRead \in Seq(Nat)
  BY <1>1 DEF ToRead
<1> QED
  BY <1>2, HeadTailProperties

\* The fields of the hop's credentials can be set one by one.
LEMMA HopCredSet ==
  ASSUME hcred \in HopCreds
  PROVE  /\ \A k \in {None} \cup Nat :
              LET c == [hcred EXCEPT !.key = k] IN c \in HopCreds /\ c.key = k
         /\ \A p \in {None, Wrong} \cup Nat :
              LET c == [hcred EXCEPT !.passphrase = p] IN c \in HopCreds /\ c.key = hcred.key
         /\ \A p \in {"none", "right", "wrong"} :
              LET c == [hcred EXCEPT !.password = p] IN c \in HopCreds /\ c.key = hcred.key
         /\ Drained \in HopCreds /\ Drained.key = None
  BY DEF HopCreds, Drained

LEMMA MarkedType ==
  ASSUME htried \subseteq (Nat \X Nat), passed + 1 \in Nat, NEW k \in {None} \cup Nat
  PROVE  Marked(k) \subseteq (Nat \X Nat)
  BY DEF Marked

\* A key whose passphrase is asked for is a key.
LEMMA DialAsks ==
  ASSUME NEW k \in {None} \cup Nat, HopDial(k), hcred'.key = k
  PROVE  Asked' => hcred'.key \in Nat
  BY DEF HopDial, HopError, Asked

LEMMA HopDataStep == PlaceInv /\ HopDataInv /\ [RouteNext]_hvars => HopDataInv'
<1> SUFFICES ASSUME PlaceInv, HopDataInv, [RouteNext]_hvars PROVE HopDataInv'
  OBVIOUS
<1>k. hcred.key \in {None} \cup Nat
  BY DEF HopDataInv, HopCreds
<1>h. HopStep => passed < Len(route) /\ passed + 1 \in Nat /\ Target \in Hop
  BY HopIsElsewhere, TargetType
<1>m. HopStep => Marked(hcred.key) \subseteq (Nat \X Nat)
  BY <1>h, <1>k, MarkedType DEF HopDataInv
<1>1. CASE SessionStep \/ JumpFailed
  <2>1. UNCHANGED <<hcred, hkeys, htried, herr>> /\ hphase' \in {hphase, "idle"}
    BY <1>1 DEF SessionStep, JumpFailed, files
  <2> QED BY <2>1 DEF HopDataInv, Asked
<1>2. CASE Jump
  <2> DEFINE k == IF Target.saved = NoKey THEN None ELSE 0
  <2>1. Target.password \in {"none", "right", "wrong"}
    BY <1>2, <1>h DEF HopStep, Hop
  <2>2. hcred' = [NoCred EXCEPT !.key = k, !.password = Target.password]
    BY <1>2 DEF Jump
  <2>3. k \in {None} \cup Nat
    OBVIOUS
  <2>4. hcred' \in HopCreds
    BY <2>1, <2>2, <2>3 DEF NoCred, HopCreds
  <2> QED BY <1>2, <2>4 DEF Jump, Reconnect, files, HopDataInv, Asked
<1>3. CASE Forwarded \/ ReadNothing
  <2>1. UNCHANGED <<hcred, hkeys, htried>>
    BY <1>3 DEF Forwarded, ReadNothing, files
  <2>2. HopDial(hcred.key) \/ hphase' = "read"
    BY <1>3 DEF Forwarded, ReadNothing
  <2>3. Asked' => hcred'.key \in Nat
    BY <1>k, <2>1, <2>2, DialAsks DEF Asked
  <2> QED BY <2>1, <2>3 DEF HopDataInv
<1>4. CASE ForwardFails \/ HopLose \/ HopRefuse
  BY <1>4, <1>m DEF ForwardFails, HopLose, HopRefuse, HopError, files, HopDataInv, Asked, HopStep
<1>5. CASE HopAskPassphrase
  BY <1>5 DEF HopAskPassphrase, files, HopDataInv, Asked
<1>6. CASE ReadKey
  <2> DEFINE f   == Head(ToRead)
             key == IF HopKey(f).kind = "missing" THEN None ELSE f
  <2>1. f \in Nat /\ Tail(ToRead) \in Seq(Nat)
    BY <1>6, <1>h, ToReadType DEF ReadKey, HopDataInv, HopStep
  <2>2. key \in {None} \cup Nat
    BY <2>1
  <2>3. /\ hcred' = [hcred EXCEPT !.key = key] /\ HopDial(key) /\ hkeys' = Tail(ToRead)
        /\ htried' = (IF key = None THEN Marked(f) ELSE htried)
    BY <1>6 DEF ReadKey
  <2>4. hcred' \in HopCreds /\ hcred'.key = key
    BY <2>2, <2>3, HopCredSet DEF HopDataInv
  <2>5. Marked(f) \subseteq (Nat \X Nat)
    BY <1>6, <1>h, <2>1, MarkedType DEF HopDataInv, HopStep
  <2>6. htried' \subseteq (Nat \X Nat)
    BY <2>3, <2>5 DEF HopDataInv
  <2>7. Asked' => hcred'.key \in Nat
    BY <2>2, <2>3, <2>4, DialAsks
  <2> QED BY <2>1, <2>3, <2>4, <2>6, <2>7 DEF HopDataInv
<1>7. CASE ReadDrained
  <2>1. hcred' = Drained /\ hphase' = "auth" /\ UNCHANGED hkeys
    BY <1>7 DEF ReadDrained
  <2>2. htried' = htried \/ htried' = htried \cup {<<passed + 1, k>> : k \in DOMAIN Target.files}
    BY <1>7 DEF ReadDrained
  <2>3. DOMAIN Target.files \subseteq Nat /\ passed + 1 \in Nat
    BY <1>7, <1>h, TargetType DEF HopStep
  <2>4. htried' \subseteq (Nat \X Nat)
    BY <2>2, <2>3 DEF HopDataInv
  <2> QED BY <2>1, <2>4, HopCredSet DEF HopDataInv, Asked
<1>8. CASE ReadFails
  <2>1. Head(ToRead) \in Nat /\ Tail(ToRead) \in Seq(Nat)
    BY <1>8, <1>h, ToReadType DEF ReadFails, HopDataInv, HopStep
  <2>2. Marked(Head(ToRead)) \subseteq (Nat \X Nat)
    BY <1>8, <1>h, <2>1, MarkedType DEF HopDataInv, HopStep
  <2>3. /\ hkeys' \in {hkeys, Tail(ToRead)} /\ htried' = Marked(Head(ToRead))
        /\ hphase' \in {"forward", "failed"} /\ UNCHANGED hcred
    BY <1>8, HopThrowEnds DEF ReadFails, PlaceInv
  <2> QED BY <2>1, <2>2, <2>3 DEF HopDataInv, Asked
<1>9. CASE HopAccept
  BY <1>9, <1>m DEF HopAccept, files, HopDataInv, Asked, HopStep
<1>10. CASE HopNext \/ HopCancelPassword
  <2>1. hphase' \in {"forward", "failed"} /\ UNCHANGED <<hcred, hkeys, htried>>
    BY <1>10, HopThrowEnds DEF HopNext, HopCancelPassword, Reconnect, files, PlaceInv
  <2> QED BY <2>1 DEF HopDataInv, Asked
<1>11. CASE HopAskPassword \/ HopAnswerPassword
  <2>1. /\ hphase' \in {"forward", "password"} /\ UNCHANGED <<hkeys, htried>>
        /\ \/ hcred' = hcred
           \/ \E p \in {"none", "right", "wrong"} : hcred' = [hcred EXCEPT !.password = p]
    BY <1>11 DEF HopAskPassword, HopAnswerPassword, Reconnect, files
  <2>2. hcred' \in HopCreds
    BY <2>1, HopCredSet DEF HopDataInv
  <2> QED BY <2>1, <2>2 DEF HopDataInv, Asked
<1>12. CASE HopAnswerPassphrase
  <2>1. hcred.key \in Nat
    BY <1>12 DEF HopAnswerPassphrase, HopDataInv, Asked
  <2>2. \E p \in {None, Wrong} \cup Nat : hcred' = [hcred EXCEPT !.passphrase = p]
    BY <1>12, <2>1 DEF HopAnswerPassphrase
  <2>3. hcred' \in HopCreds
    BY <2>2, HopCredSet DEF HopDataInv
  <2>4. <<hcred.key>> \o hkeys \in Seq(Nat)
    BY <2>1, ConcatProperties DEF HopDataInv
  <2>5. hkeys' \in Seq(Nat) /\ hphase' = "forward" /\ UNCHANGED htried
    BY <1>12, <2>4 DEF HopAnswerPassphrase, Reconnect, HopDataInv
  <2> QED BY <2>3, <2>5 DEF HopDataInv, Asked
<1>13. CASE HopEmptyPassphrase
  BY <1>13 DEF HopEmptyPassphrase, Reconnect, files, HopDataInv, Asked
<1>14. CASE HopCancelPassphrase
  BY <1>14, <1>m DEF HopCancelPassphrase, Reconnect, files, HopDataInv, Asked, HopStep
<1>15. CASE UNCHANGED hvars
  BY <1>15 DEF hvars, hop, HopDataInv, Asked
<1> QED
  BY <1>1, <1>2, <1>3, <1>4, <1>5, <1>6, <1>7, <1>8, <1>9, <1>10, <1>11, <1>12, <1>13,
     <1>14, <1>15 DEF RouteNext, HopStep

LEMMA HopDataInit == RouteInit => HopDataInv
  BY DEF RouteInit, HopDataInv, HopCreds, NoCred, Asked

-----------------------------------------------------------------------------
(* The password is asked for last.  A key file of the first server is      *)
(* always tried, still in the list, or the one under way; when the list is *)
(* used up, every file was tried.                                          *)
HopLeft == {hkeys[i] : i \in DOMAIN hkeys}

HopUnderWay(f) ==
  /\ hcred.key = f
  /\ \/ hphase = "auth" \/ Asked
     \/ hphase = "forward" /\ skips

HopFileInv(f) ==
  /\ hlisted => <<1, f>> \in htried \/ f \in HopLeft \/ HopUnderWay(f)
  /\ ~hlisted /\ hphase # "idle" /\ hcred.drained => <<1, f>> \in htried

\* The list that was used up is not defined any more, and the prompt is for it.
DrainInv ==
  hphase # "idle" => /\ hcred.drained => ~hlisted
                     /\ hphase = "password" => hcred.drained

\* The fields an assignment leaves alone.
LEMMA HopCredFields ==
  ASSUME hcred \in HopCreds
  PROVE  /\ \A k : LET c == [hcred EXCEPT !.key = k] IN
              c.key = k /\ c.drained = hcred.drained /\ c.password = hcred.password
         /\ \A p : LET c == [hcred EXCEPT !.passphrase = p] IN
              c.key = hcred.key /\ c.drained = hcred.drained /\ c.password = hcred.password
         /\ \A p : LET c == [hcred EXCEPT !.password = p] IN
              c.key = hcred.key /\ c.drained = hcred.drained /\ c.password = p
         /\ Drained.key = None /\ Drained.drained = TRUE /\ Drained.password = hcred.password
         /\ hcred.drained \in BOOLEAN
  BY DEF HopCreds, Drained

\* What a step does to the list, to the key and to the mark of the used-up list.
LEMMA KeepsDrained ==
  ASSUME PlaceInv, HopDataInv
  PROVE  /\ HopAskPassword \/ HopAnswerPassword \/ HopAnswerPassphrase
              => hcred'.key = hcred.key /\ hcred'.drained = hcred.drained
         /\ ReadKey => hcred'.drained = hcred.drained
<1>b. hcred \in HopCreds
  BY DEF HopDataInv
<1>1. ASSUME HopAskPassword \/ HopAnswerPassword
      PROVE  hcred'.key = hcred.key /\ hcred'.drained = hcred.drained
  <2>1. HopAskPassword => hcred' = hcred \/ \E p : hcred' = [hcred EXCEPT !.password = p]
    BY DEF HopAskPassword
  <2>2. HopAnswerPassword => \E p : hcred' = [hcred EXCEPT !.password = p]
    BY DEF HopAnswerPassword
  <2>3. CASE hcred' = hcred
    BY <2>3
  <2>4. CASE \E p : hcred' = [hcred EXCEPT !.password = p]
    BY <1>b, <2>4, HopCredFields
  <2> QED BY <1>1, <2>1, <2>2, <2>3, <2>4
<1>2. ASSUME HopAnswerPassphrase
      PROVE  hcred'.key = hcred.key /\ hcred'.drained = hcred.drained
  <2>1. \E p : hcred' = [hcred EXCEPT !.passphrase = p]
    BY <1>2 DEF HopAnswerPassphrase
  <2> QED BY <1>b, <2>1, HopCredFields
<1>3. ASSUME ReadKey PROVE hcred'.drained = hcred.drained
  <2>1. \E k : hcred' = [hcred EXCEPT !.key = k]
    BY <1>3 DEF ReadKey
  <2> QED BY <1>b, <2>1, HopCredFields
<1> QED
  BY <1>1, <1>2, <1>3

LEMMA DrainStep == PlaceInv /\ HopDataInv /\ DrainInv /\ [RouteNext]_hvars => DrainInv'
<1> SUFFICES ASSUME PlaceInv, HopDataInv, DrainInv, [RouteNext]_hvars PROVE DrainInv'
  OBVIOUS
<1>b. hcred \in HopCreds /\ hlisted \in BOOLEAN /\ hcred.drained \in BOOLEAN
  BY HopCredFields DEF HopDataInv, PlaceInv
<1>1. CASE SessionStep \/ JumpFailed
  BY <1>1 DEF SessionStep, JumpFailed, files, DrainInv
<1>2. CASE Jump
  <2>1. hcred'.drained = FALSE /\ hphase' = "forward"
    BY <1>2 DEF Jump, NoCred, Reconnect
  <2> QED BY <2>1 DEF DrainInv
<1>3. CASE Forwarded \/ ReadNothing
  <2>1. hphase' \in {"auth", "error", "read"} /\ hphase # "idle" /\ UNCHANGED <<hcred, hlisted>>
    BY <1>3 DEF Forwarded, ReadNothing, HopDial, HopError, files
  <2> QED BY <2>1 DEF DrainInv
<1>4. CASE \/ ForwardFails \/ HopLose \/ HopRefuse \/ HopAccept \/ HopAskPassphrase
           \/ HopEmptyPassphrase \/ HopCancelPassphrase
  BY <1>4 DEF ForwardFails, HopLose, HopRefuse, HopAccept, HopAskPassphrase, HopError,
              HopEmptyPassphrase, HopCancelPassphrase, Reconnect, files, DrainInv
<1>5. CASE ReadKey
  <2>1. ~hcred.drained
    BY <1>5, <1>b DEF ReadKey, Lists, DrainInv
  <2>2. hphase' \in {"auth", "error"}
    BY <1>5 DEF ReadKey, HopDial, HopError
  <2>3. ~hcred'.drained
    BY <1>5, <2>1, KeepsDrained
  <2> QED BY <2>2, <2>3 DEF DrainInv
<1>6. CASE ReadDrained
  BY <1>6 DEF ReadDrained, DrainInv
<1>7. CASE ReadFails \/ HopNext \/ HopCancelPassword
  <2>1. /\ hphase' \in {"forward", "failed"} /\ hphase # "idle"
        /\ UNCHANGED <<hcred, hlisted>>
    BY <1>7, HopThrowEnds DEF ReadFails, HopNext, HopCancelPassword, Reconnect, files, PlaceInv
  <2> QED BY <2>1 DEF DrainInv
<1>8. CASE HopAskPassword
  <2>1. hphase # "idle" /\ hcred.drained /\ UNCHANGED hlisted
    BY <1>8 DEF HopAskPassword, AsksHopPassword, files
  <2> QED BY <1>8, <2>1, KeepsDrained DEF DrainInv
<1>9. CASE HopAnswerPassword \/ HopAnswerPassphrase
  <2>1. hphase # "idle" /\ hphase' = "forward" /\ UNCHANGED hlisted
    BY <1>9 DEF HopAnswerPassword, HopAnswerPassphrase, Reconnect, files
  <2> QED BY <1>9, <2>1, KeepsDrained DEF DrainInv
<1>10. CASE UNCHANGED hvars
  BY <1>10 DEF hvars, hop, DrainInv
<1> QED
  BY <1>1, <1>2, <1>3, <1>4, <1>5, <1>6, <1>7, <1>8, <1>9, <1>10 DEF RouteNext, HopStep

\* Taking the next file accounts for it alone, and a file put back is left again.
LEMMA HopLeftAfterTake ==
  ASSUME PlaceInv, HopDataInv, passed < Len(route), ToRead # <<>>, hkeys' = Tail(ToRead)
  PROVE  /\ hlisted => HopLeft \subseteq HopLeft' \cup {Head(ToRead)}
         /\ ~hlisted => DOMAIN Target.files \subseteq HopLeft' \cup {Head(ToRead)}
<1>1. ToRead \in Seq(Nat)
  BY ToReadType DEF HopDataInv
<1>2. \A i \in DOMAIN ToRead : ToRead[i] \in HopLeft' \cup {Head(ToRead)}
  BY <1>1, TakeFirst DEF HopLeft
<1>3. ASSUME hlisted PROVE HopLeft \subseteq HopLeft' \cup {Head(ToRead)}
  BY <1>2, <1>3 DEF ToRead, HopLeft
<1>4. ASSUME ~hlisted PROVE DOMAIN Target.files \subseteq HopLeft' \cup {Head(ToRead)}
  BY <1>2, <1>4 DEF ToRead
<1> QED BY <1>3, <1>4

LEMMA HopLeftAfterAgain ==
  ASSUME hkeys \in Seq(Nat), hcred.key \in Nat, hkeys' = <<hcred.key>> \o hkeys
  PROVE  HopLeft \subseteq HopLeft'
<1>1. /\ DOMAIN hkeys' = 1 .. Len(hkeys) + 1 /\ Len(hkeys) \in Nat
      /\ \A i \in 1 .. Len(hkeys) : hkeys'[i + 1] = hkeys[i]
  <2>1. <<hcred.key>> \in Seq(Nat)
    OBVIOUS
  <2> QED BY <2>1
<1>2. ASSUME NEW i \in DOMAIN hkeys PROVE hkeys[i] \in HopLeft'
  <2>1. i + 1 \in DOMAIN hkeys' /\ hkeys'[i + 1] = hkeys[i]
    BY <1>1
  <2> QED BY <2>1 DEF HopLeft
<1> QED BY <1>2 DEF HopLeft

\* No step loses a key file of the only hop.
LEMMA HopFileStep ==
  ASSUME PlaceInv, HopDataInv, DrainInv, [RouteNext]_hvars,
         Len(route) = 1, NEW f \in DOMAIN route[1].files, HopFileInv(f)
  PROVE  HopFileInv(f)'
<1>b. hlisted \in BOOLEAN /\ hcred.drained \in BOOLEAN /\ hcred \in HopCreds
  BY HopCredFields DEF HopDataInv, PlaceInv
<1>h. HopStep => passed = 0 /\ Target = route[1] /\ passed < Len(route)
  BY HopIsElsewhere DEF PlaceInv, Target
<1>f. f \in Nat /\ f # 0 /\ f # None
  <2>1. route[1] \in Hop
    BY DEF PlaceInv
  <2>2. route[1].files \in Seq(Key)
    BY <2>1 DEF Hop
  <2>3. f \in 1 .. Len(route[1].files) /\ Len(route[1].files) \in Nat
    BY <2>2
  <2> QED BY <2>3 DEF None
<1>m. HopStep => (\A k : htried \subseteq Marked(k)) /\ <<1, f>> \in Marked(f)
  BY <1>h, <1>f DEF Marked
<1>l. UNCHANGED hkeys => HopLeft' = HopLeft
  BY DEF HopLeft
<1>1. CASE SessionStep \/ JumpFailed
  <2>1. /\ UNCHANGED <<hcred, hlisted, hkeys, htried>>
        /\ hphase' = "idle" \/ UNCHANGED <<hphase, skips, herr>>
        /\ ~HopUnderWay(f) \/ UNCHANGED <<hphase, skips, herr>>
    BY <1>1 DEF SessionStep, JumpFailed, files, HopUnderWay, Asked
  <2> QED BY <2>1, <1>l DEF HopFileInv, HopUnderWay, Asked
<1>2. CASE Jump
  <2>1. ~HopUnderWay(f) /\ hcred'.drained = FALSE /\ UNCHANGED <<hlisted, hkeys, htried>>
    BY <1>2 DEF Jump, HopUnderWay, Asked, NoCred, files
  <2> QED BY <2>1, <1>l DEF HopFileInv
<1>3. CASE Forwarded
  <2>1. UNCHANGED <<hcred, hlisted, hkeys, htried>> /\ hphase = "forward"
    BY <1>3 DEF Forwarded, files
  <2>2. HopUnderWay(f) => HopUnderWay(f)'
    <3>1. ASSUME HopUnderWay(f) PROVE hphase' = "auth" \/ (hphase' = "error" /\ herr' = "passphrase")
      BY <1>3, <3>1 DEF Forwarded, HopUnderWay, Asked, HopDial, HopError
    <3> QED BY <3>1, <2>1 DEF HopUnderWay, Asked
  <2> QED BY <2>1, <2>2, <1>l DEF HopFileInv
<1>4. CASE ForwardFails \/ HopRefuse \/ HopLose \/ HopAccept \/ HopCancelPassphrase
  <2>1. /\ UNCHANGED <<hcred, hlisted, hkeys>> /\ hphase # "idle"
        /\ htried' = Marked(hcred.key)
    BY <1>4 DEF ForwardFails, HopRefuse, HopLose, HopAccept, HopCancelPassphrase, files
  <2>2. htried \subseteq htried' /\ (HopUnderWay(f) => <<1, f>> \in htried')
    BY <1>4, <1>m, <2>1 DEF HopUnderWay, HopStep
  <2> QED BY <2>1, <2>2, <1>l DEF HopFileInv
<1>5. CASE ReadNothing
  <2>1. /\ UNCHANGED <<hcred, hlisted, hkeys, htried>> /\ ~hlisted /\ hphase # "idle"
    BY <1>5 DEF ReadNothing, files
  <2> QED BY <2>1 DEF HopFileInv
<1>6. CASE ReadKey
  <2> DEFINE k == Head(ToRead)
  <2>1. ~HopUnderWay(f) /\ ToRead # <<>> /\ hkeys' = Tail(ToRead) /\ hlisted' = TRUE
    BY <1>6 DEF ReadKey, HopUnderWay, Asked
  <2>2. <<1, f>> \in htried \/ f \in HopLeft' \/ f = k
    BY <1>6, <1>h, <2>1, HopLeftAfterTake DEF HopFileInv, HopStep
  <2>3. CASE HopKey(k).kind = "missing"
    <3>1. htried' = Marked(k)
      BY <1>6, <2>3 DEF ReadKey
    <3> QED BY <1>6, <1>m, <2>1, <2>2, <3>1 DEF HopFileInv, HopStep
  <2>4. CASE HopKey(k).kind # "missing"
    <3>1. hcred' = [hcred EXCEPT !.key = k] /\ HopDial(k)
      BY <1>6, <2>4 DEF ReadKey
    <3>2. hcred'.key = k
      BY <3>1, <1>b, HopCredFields
    <3>3. htried \subseteq htried'
      BY <1>6, <1>m, <2>4 DEF ReadKey, HopStep
    <3>4. hphase' = "auth" \/ (hphase' = "error" /\ herr' = "passphrase")
      BY <3>1 DEF HopDial, HopError
    <3> QED BY <2>1, <2>2, <3>2, <3>3, <3>4 DEF HopFileInv, HopUnderWay, Asked
  <2> QED BY <2>3, <2>4
<1>7. CASE ReadDrained
  <2>1. ~HopUnderWay(f) /\ hlisted' = FALSE /\ Target = route[1] /\ passed = 0
    BY <1>7, <1>h DEF ReadDrained, HopUnderWay, Asked, HopStep
  <2>2. CASE ToRead = <<>> /\ UNCHANGED htried
    <3>1. DOMAIN ToRead = {}
      BY <2>2, EmptyDomain
    <3>2. hlisted
      BY <2>1, <3>1 DEF ToRead
    <3>3. HopLeft = {}
      BY <3>1, <3>2 DEF ToRead, HopLeft
    <3> QED BY <2>1, <2>2, <3>2, <3>3 DEF HopFileInv
  <2>3. CASE htried' = htried \cup {<<passed + 1, k>> : k \in DOMAIN Target.files}
    <3>1. <<passed + 1, f>> \in htried' /\ passed + 1 = 1
      BY <2>1, <2>3
    <3> QED BY <2>1, <3>1 DEF HopFileInv
  <2> QED BY <1>7, <2>2, <2>3 DEF ReadDrained
<1>8. CASE ReadFails
  <2>1. /\ ~HopUnderWay(f) /\ ToRead # <<>> /\ UNCHANGED <<hcred, hlisted>> /\ hphase # "idle"
        /\ htried' = Marked(Head(ToRead))
        /\ hlisted => hkeys' = Tail(ToRead)
    BY <1>8 DEF ReadFails, HopUnderWay, Asked
  <2>2. hlisted => <<1, f>> \in htried \/ f \in HopLeft' \/ f = Head(ToRead)
    BY <1>8, <1>h, <2>1, HopLeftAfterTake DEF HopFileInv, HopStep
  <2> QED BY <1>8, <1>m, <2>1, <2>2 DEF HopFileInv, HopStep
<1>9. CASE HopAskPassphrase
  BY <1>9, <1>l DEF HopAskPassphrase, HopFileInv, HopUnderWay, Asked, files
<1>10. CASE HopNext \/ HopCancelPassword
  <2>1. ~HopUnderWay(f) /\ hphase # "idle" /\ UNCHANGED <<hcred, hlisted, hkeys, htried>>
    BY <1>10 DEF HopNext, HopCancelPassword, AgentAlone, HopUnderWay, Asked, files
  <2> QED BY <2>1, <1>l DEF HopFileInv
<1>11. CASE HopAskPassword \/ HopAnswerPassword
  <2>1. ~HopUnderWay(f) /\ hphase # "idle" /\ UNCHANGED <<hlisted, hkeys, htried>>
    BY <1>11 DEF HopAskPassword, AsksHopPassword, HopAnswerPassword, HopUnderWay, Asked, files
  <2> QED BY <1>11, <2>1, <1>l, KeepsDrained DEF HopFileInv
<1>12. CASE HopAnswerPassphrase
  <2>1. /\ hphase = "passphrase" /\ hphase' = "forward" /\ skips' = TRUE
        /\ UNCHANGED <<hlisted, htried>>
        /\ hkeys' = IF hlisted THEN <<hcred.key>> \o hkeys ELSE hkeys
    BY <1>12 DEF HopAnswerPassphrase, Reconnect
  <2>2. hcred'.key = hcred.key /\ hcred'.drained = hcred.drained
    BY <1>12, KeepsDrained
  <2>3. hlisted => HopLeft \subseteq HopLeft'
    BY <2>1, HopLeftAfterAgain DEF HopDataInv, Asked
  <2>4. HopUnderWay(f) => HopUnderWay(f)'
    BY <2>1, <2>2 DEF HopUnderWay
  <2> QED BY <2>1, <2>2, <2>3, <2>4 DEF HopFileInv
<1>13. CASE HopEmptyPassphrase
  BY <1>13, <1>l DEF HopEmptyPassphrase, Reconnect, HopFileInv, HopUnderWay, files
<1>14. CASE UNCHANGED hvars
  BY <1>14, <1>l DEF hvars, hop, HopFileInv, HopUnderWay, Asked
<1> QED
  BY <1>1, <1>2, <1>3, <1>4, <1>5, <1>6, <1>7, <1>8, <1>9, <1>10, <1>11, <1>12, <1>13, <1>14
     DEF RouteNext, HopStep

\* The inductive invariant of a route.
HopInv ==
  /\ PlaceInv /\ HopDataInv /\ DrainInv
  /\ Len(route) = 1 => \A f \in DOMAIN route[1].files : HopFileInv(f)

LEMMA HopInvStep == HopInv /\ [RouteNext]_hvars => HopInv'
<1> SUFFICES ASSUME HopInv, [RouteNext]_hvars PROVE HopInv'
  OBVIOUS
<1>1. PlaceInv' /\ HopDataInv' /\ DrainInv'
  BY PlaceStep, HopDataStep, DrainStep DEF HopInv
<1>2. route' = route
  BY HopIsElsewhere DEF HopInv, RouteNext, SessionStep, JumpFailed, hvars, hop
<1>3. ASSUME Len(route) = 1, NEW f \in DOMAIN route[1].files PROVE HopFileInv(f)'
  BY <1>3, HopFileStep DEF HopInv
<1> QED
  BY <1>1, <1>2, <1>3 DEF HopInv

LEMMA HopInvInit == RouteInit => HopInv
  BY PlaceInit, HopDataInit DEF RouteInit, HopInv, DrainInv, HopFileInv

\* Every state of a route is well-formed, and with one hop its password is asked for
\* when no key file is left (retryJump), for any route and any mishaps.
THEOREM RouteInvariant == RouteSpec => []RouteInv
<1>1. HopInv => RouteTypeOK
  BY DEF HopInv, PlaceInv, HopDataInv, RouteTypeOK, HopPhases, HopErrors, HopCreds, Arrived
<1>2. HopInv => HopPasswordLast
  BY DEF HopInv, PlaceInv, DrainInv, HopFileInv, HopPasswordLast
<1>3. HopInv => RouteInv
  BY <1>1, <1>2 DEF RouteInv
<1> QED
  BY <1>3, HopInvInit, HopInvStep, PTL DEF RouteSpec
-----------------------------------------------------------------------------
(* A route that can be made is made.  While nothing goes wrong (Calm), the *)
(* login and the present hop have still ahead of them a credential that is *)
(* taken: a saved one is shown in every attempt, a known file is left or   *)
(* under way, and no password is wrong.                                    *)
Calm ==
  /\ Sufficient /\ mishaps = MaxMishaps
  /\ \A i \in DOMAIN route : Opens(route[i]) /\ (i < Len(route) => Saved(route[i]))

\* The name is right when the server sees it.
Named ==
  /\ cred.username \in {"", "right"}
  /\ cred.username = "" => phase \in {"connect", "username"} /\ world.password = "none"

\* The server accepted, or is about to.
Welcome == phase \in {"code", "ready", "open", "done", "killed"}

SavedKeyAhead ==
  world.saved # NoKey /\ world.saved.known =>
    /\ cred.key = 0 /\ ~listed
    /\ phase \notin {"code", "password"} /\ (phase = "error" => err = "passphrase")

FileAhead(f) ==
  world.saved = NoKey /\ world.password = "none" /\ KeyOf(f).known =>
    /\ phase # "password" /\ cred.password = "none"
    /\ listed => f \in Left \/ (cred.key = f /\ UnderWay) \/ Welcome
    /\ ~listed => (phase \in {"connect", "username"} /\ cred.key = None) \/ Welcome

PasswordAhead ==
  world.server # "keys" /\ world.password # "wrong" =>
    /\ cred.password # "wrong"
    /\ phase = "error" /\ err = "refused" => cred.password = "none"

\* A refusal leads to another attempt.
GoesOn ==
  /\ phase # "failed"
  /\ phase = "error" => err \in {"2fa", "passphrase", "refused"}
  /\ phase = "error" /\ err = "refused" /\ ~listed => cred.password = "none"

LoginCalm ==
  /\ Named /\ GoesOn /\ SavedKeyAhead /\ PasswordAhead
  /\ \A f \in Files : FileAhead(f)

\* Nothing of an earlier hop is in the way of the next.
Clear ==
  /\ hphase \notin {"failed", "cut"}
  /\ hphase = "idle" /\ ~Arrived => ~hlisted
  /\ phase \notin {"ready", "open", "done", "killed"} => passed = 0

\* What the bookmark holds for a hop opens it.
AtHand(h) ==
  \/ h.agent = "taken"
  \/ h.saved # NoKey /\ h.saved.known
  \/ h.server = "password" /\ h.password = "right"

\* It is shown in every attempt, and no file is looked for.
ShownAtOnce ==
  /\ ~hlisted /\ hcred.password = Target.password
  /\ hcred.key = IF Target.saved = NoKey THEN None ELSE 0
  /\ hphase # "password" /\ (hphase = "error" => herr = "passphrase")
  /\ Target.saved = NoKey /\ Target.password = "none"
       => hphase = "auth" \/ (hphase = "forward" /\ skips)

\* The file is left or under way until the list is used up; then the password is
\* typed.
Good(f) == Target.files[f].known /\ Target.files[f].kind # "missing"

Listing ==
  /\ hlisted =>
       /\ ~hcred.drained /\ hcred.password = "none" /\ hphase # "password"
       /\ \A f \in DOMAIN Target.files : Good(f) => f \in HopLeft \/ HopUnderWay(f)
  /\ ~hlisted =>
       /\ hcred.key = None /\ hphase # "passphrase" /\ (hphase = "error" => herr = "refused")
  /\ ~hlisted /\ ~hcred.drained => hcred.password = "none" /\ hphase # "password"
  /\ ~hlisted /\ hcred.drained =>
       /\ Target.server = "password" /\ world.password = "none"
       /\ hcred.password \in {"none", "right"} /\ hphase # "read"
       /\ hphase \in {"error", "password"} => hcred.password = "none"
       /\ hphase = "forward" => skips
  /\ hphase = "error" => herr # "lost"

HopCalm ==
  /\ Clear
  /\ hphase # "idle" => IF AtHand(Target) THEN ShownAtOnce ELSE Listing

CalmInv == Calm => LoginCalm /\ HopCalm

\* Mistakes are counted down, so a calm session was calm before.
LEMMA MishapsFall == [Next]_vars => mishaps' = mishaps \/ Mishap
<1> SUFFICES ASSUME [Next]_vars PROVE mishaps' = mishaps \/ Mishap
  OBVIOUS
<1>1. CASE AskUsername \/ Connect \/ ConnectWithFile \/ ConnectDrained \/ Mismatch \/ Accept
  BY <1>1 DEF AskUsername, Connect, ConnectWithFile, ConnectDrained, Mismatch, Accept
<1>2. CASE AnswerUsername \/ CancelUsername \/ AskCode \/ Refuse \/ AnswerCode \/ CancelCode \/ LoseLine
  BY <1>2 DEF AnswerUsername, CancelUsername, AskCode, Refuse, AnswerCode, CancelCode, LoseLine, NoMishap
<1>3. CASE AfterException \/ After2FA \/ AskPassphrase \/ AskPassword \/ AfterError
  BY <1>3 DEF AfterException, After2FA, AskPassphrase, AskPassword, AfterError
<1>4. CASE AnswerPassphrase \/ CancelPassphrase \/ AnswerPassword \/ CancelPassword
  BY <1>4 DEF AnswerPassphrase, CancelPassphrase, AnswerPassword, CancelPassword, NoMishap
<1>5. CASE TestDone \/ Register \/ ShellRefused \/ Kill
  BY <1>5 DEF TestDone, Register, ShellRefused, Kill
<1>6. CASE HopTrouble \/ UNCHANGED vars
  BY <1>6 DEF HopTrouble, vars
<1>7. ASSUME NEW cut \in BOOLEAN, NEW behind \in BOOLEAN, HopsFail(cut, behind)
      PROVE  mishaps' = mishaps
  BY <1>7, HopsFailEnds
<1> QED
  BY <1>1, <1>2, <1>3, <1>4, <1>5, <1>6, <1>7 DEF Next, Direct

LEMMA RouteKept == PlaceInv /\ [RouteNext]_hvars => route' = route
  BY HopIsElsewhere DEF RouteNext, SessionStep, JumpFailed, hvars, hop

LEMMA CalmBefore ==
  ASSUME PlaceInv, ControlInv, [RouteNext]_hvars, Calm'
  PROVE  Calm /\ ~Mishap
<1>1. world' = world /\ route' = route /\ (mishaps' = mishaps \/ Mishap)
  BY StepIsSession, SameWorld, MishapsFall, RouteKept
<1>2. mishaps' = MaxMishaps
  BY DEF Calm
<1>3. mishaps = MaxMishaps /\ ~Mishap
  <2>1. mishaps \in 0 .. MaxMishaps /\ MaxMishaps \in Nat
    BY SshAssumption DEF ControlInv
  <2> QED BY <1>1, <1>2, <2>1 DEF Mishap
<1>4. Sufficient
  BY <1>1 DEF Calm, Sufficient, Files, KeyOf
<1>5. \A i \in DOMAIN route : Opens(route[i]) /\ (i < Len(route) => Saved(route[i]))
  BY <1>1 DEF Calm, Opens, Saved
<1> QED
  BY <1>3, <1>4, <1>5 DEF Calm

\* A new attempt changes the key alone, and its passphrase.
LEMMA Dialling ==
  ASSUME cred \in CredType, Connect \/ ConnectWithFile \/ ConnectDrained
  PROVE  cred'.username = cred.username /\ cred'.password = cred.password
<1>1. \/ cred' = cred \/ \E k : cred' = [cred EXCEPT !.key = k]
      \/ cred' = [cred EXCEPT !.key = None, !.passphrase = None]
  BY DEF Connect, ConnectWithFile, ConnectDrained
<1>2. CASE cred' = cred
  BY <1>2
<1>3. CASE \E k : cred' = [cred EXCEPT !.key = k]
  BY <1>3, CredFields
<1>4. CASE cred' = [cred EXCEPT !.key = None, !.passphrase = None]
  BY <1>4, CredFields
<1> QED
  BY <1>1, <1>2, <1>3, <1>4

\* The server never sees a wrong name.
LEMMA NamedStep ==
  ASSUME DataInv, Named, Direct, ~Mishap
  PROVE  Named'
<1>s. world' = world
  BY SameWorld DEF Next
<1>b. cred \in CredType
  BY DEF DataInv
<1>1. CASE AskUsername
  <2>1. cred.username = "" /\ world.password = "none"
    BY <1>1 DEF AskUsername, Named
  <2> QED BY <1>1, <1>s, <2>1 DEF AskUsername, Named
<1>2. CASE AnswerUsername
  <2>1. cred'.username = "right"
    BY <1>2, <1>b, CredFields DEF AnswerUsername
  <2> QED BY <2>1 DEF Named
<1>3. CASE Connect \/ ConnectWithFile \/ ConnectDrained
  <2>1. cred.username = "right"
    BY <1>3 DEF Connect, ConnectWithFile, ConnectDrained, Named
  <2>2. cred'.username = "right"
    BY <1>3, <1>b, <2>1, Dialling
  <2> QED BY <2>2 DEF Named
<1>4. CASE After2FA \/ AskPassword \/ AnswerPassword \/ AnswerPassphrase
  <2>1. phase \in {"error", "password", "passphrase"}
    BY <1>4 DEF After2FA, AskPassword, AnswerPassword, AnswerPassphrase
  <2> QED BY <1>4, <1>b, <2>1, Asking DEF Named
<1>5. CASE \/ Mismatch \/ Accept \/ AskCode \/ Refuse \/ AnswerCode
           \/ AfterException \/ AskPassphrase \/ AfterError \/ TestDone \/ Register \/ Kill
  <2>1. cred' = cred /\ phase \notin {"connect", "username"}
    BY <1>5 DEF Mismatch, Accept, AskCode, Refuse, AnswerCode, AfterException, AskPassphrase,
       AfterError, TestDone, Register, Kill
  <2> QED BY <2>1 DEF Named
<1>6. ~(CancelUsername \/ CancelCode \/ LoseLine \/ CancelPassphrase \/ CancelPassword \/ ShellRefused)
  BY DEF CancelUsername, CancelCode, LoseLine, CancelPassphrase, CancelPassword, ShellRefused
<1> QED
  BY <1>1, <1>2, <1>3, <1>4, <1>5, <1>6 DEF Direct
\* What a calm session never meets.
LEMMA NoTrouble ==
  ASSUME Sufficient, GoesOn, ~Mishap
  PROVE  /\ ~(CancelUsername \/ CancelCode \/ LoseLine \/ CancelPassphrase \/ CancelPassword)
         /\ ~(ShellRefused \/ Mismatch \/ AfterException)
  BY DEF Sufficient, GoesOn, CancelUsername, CancelCode, LoseLine, CancelPassphrase,
     CancelPassword, ShellRefused, Mismatch, AfterException

\* A saved key that is known is shown in every attempt.
LEMMA SavedKeyStep ==
  ASSUME DataInv, Sufficient, Named, GoesOn, SavedKeyAhead, Direct, ~Mishap
  PROVE  SavedKeyAhead'
<1> SUFFICES ASSUME world.saved # NoKey, world.saved.known PROVE SavedKeyAhead'
  BY SameWorld DEF Next, SavedKeyAhead
<1>b. /\ cred \in CredType /\ cred.key = 0 /\ ~listed /\ None # 0
      /\ phase \notin {"code", "password"} /\ (phase = "error" => err = "passphrase")
  BY DEF DataInv, SavedKeyAhead, None
<1>k. cred'.key = 0 /\ ~listed' /\ phase' \notin {"code", "password"}
        /\ (phase' = "error" => err' = "passphrase") => SavedKeyAhead'
  BY DEF SavedKeyAhead
<1> HIDE DEF SavedKeyAhead
<1>1. CASE AskUsername \/ AnswerUsername
  <2>1. cred'.key = cred.key
    BY <1>1, <1>b, Asking
  <2>2. UNCHANGED listed /\ phase' \in {"connect", "username"}
    BY <1>1 DEF AskUsername, AnswerUsername, keys
  <2> QED BY <1>b, <1>k, <2>1, <2>2
<1>2. CASE Connect \/ ConnectWithFile \/ ConnectDrained
  <2>1. Connect
    BY <1>2, <1>b DEF ConnectWithFile, ConnectDrained, WantsFile
  <2>2. UNCHANGED <<cred, listed>> /\ (phase' = "auth" \/ (phase' = "error" /\ err' = "passphrase"))
    BY <2>1 DEF Connect, Dial, Fail, keys
  <2> QED BY <1>b, <1>k, <2>2
<1>3. CASE Accept \/ AskCode \/ Refuse
  <2>1. Accepted
    <3>1. phase = "auth"
      BY <1>3 DEF Accept, AskCode, Refuse
    <3>2. cred.username = "right"
      BY <3>1 DEF Named
    <3> QED BY <1>b, <3>2 DEF Accepted, KeyOf
  <2>2. Accept
    BY <1>3, <2>1 DEF AskCode, Refuse
  <2> QED BY <1>b, <1>k, <2>2 DEF Accept, keys
<1>4. CASE AskPassphrase \/ AnswerPassphrase
  <2>1. cred'.key = cred.key
    BY <1>4, <1>b, Asking DEF AskPassphrase
  <2>2. UNCHANGED listed /\ phase' \in {"passphrase", "connect"}
    BY <1>4 DEF AskPassphrase, AnswerPassphrase, Retry, keys
  <2> QED BY <1>b, <1>k, <2>1, <2>2
<1>5. CASE TestDone \/ Register \/ Kill
  BY <1>5, <1>b, <1>k DEF TestDone, Register, Kill, keys
<1>6. ~(AnswerCode \/ After2FA \/ AskPassword \/ AfterError \/ AnswerPassword)
  BY <1>b DEF AnswerCode, After2FA, AskPassword, AsksPassword, AfterError, AnswerPassword
<1> QED
  BY <1>1, <1>2, <1>3, <1>4, <1>5, <1>6, NoTrouble DEF Direct

\* No password is wrong, and one that was sent along is taken, or asks for a code.
LEMMA PasswordStep ==
  ASSUME DataInv, Sufficient, Named, GoesOn, PasswordAhead, Direct, ~Mishap
  PROVE  PasswordAhead'
<1> SUFFICES ASSUME world.server # "keys", world.password # "wrong" PROVE PasswordAhead'
  BY SameWorld DEF Next, PasswordAhead
<1>b. /\ cred \in CredType /\ cred.password \in {"none", "right"}
      /\ phase = "error" /\ err = "refused" => cred.password = "none"
  BY DEF DataInv, PasswordAhead, CredType
<1>w. world.password \in {"none", "right"} /\ world.server \in {"password", "code", "both"}
  BY WorldType DEF DataInv, World
<1>k. cred'.password # "wrong" /\ (phase' = "error" /\ err' = "refused" => cred'.password = "none")
        => PasswordAhead'
  BY DEF PasswordAhead
<1> HIDE DEF PasswordAhead
<1>1. CASE AskUsername \/ AnswerUsername
  <2>1. cred'.password = cred.password /\ phase' \in {"connect", "username"}
    BY <1>1, <1>b, Asking DEF AskUsername, AnswerUsername
  <2> QED BY <1>b, <1>k, <2>1
<1>2. CASE Connect \/ ConnectWithFile \/ ConnectDrained
  <2>1. cred'.password = cred.password
    BY <1>2, <1>b, Dialling
  <2>2. phase' = "auth" \/ (phase' = "error" /\ err' \in {"unreadable", "passphrase"})
    BY <1>2 DEF Connect, ConnectWithFile, ConnectDrained, Dial, Fail
  <2> QED BY <1>b, <1>k, <2>1, <2>2
<1>3. CASE Accept \/ AskCode
  BY <1>3, <1>b, <1>k DEF Accept, AskCode, Fail
<1>4. CASE Refuse
  <2>1. cred.username = "right"
    BY <1>4 DEF Refuse, Named
  <2>2. cred.password = "none"
    BY <1>4, <1>b, <1>w, <2>1 DEF Refuse, Accepted, AsksCode
  <2> QED BY <1>4, <1>k, <2>2 DEF Refuse
<1>5. CASE AnswerCode
  <2>1. cred.username = "right" /\ RoundPassword # "wrong"
    BY <1>5, <1>b, <1>w DEF AnswerCode, Named, RoundPassword
  <2> QED BY <1>5, <1>b, <1>k, <2>1 DEF AnswerCode
<1>6. CASE After2FA \/ AskPassword \/ AnswerPassword
  <2>1. cred' = cred \/ \E w \in {"none", "right"} : cred' = [cred EXCEPT !.password = w]
    BY <1>6, <1>w DEF After2FA, AskPassword, AnswerPassword
  <2>2. cred'.password \in {"none", "right"}
    <3>1. CASE cred' = cred
      BY <1>b, <3>1
    <3>2. ASSUME NEW w \in {"none", "right"}, cred' = [cred EXCEPT !.password = w]
          PROVE  cred'.password \in {"none", "right"}
      BY <1>b, <3>2, CredFields
    <3> QED BY <2>1, <3>1, <3>2
  <2>3. phase' \in {"connect", "password"}
    BY <1>6 DEF After2FA, AskPassword, AnswerPassword
  <2> QED BY <1>k, <2>2, <2>3
<1>7. CASE AskPassphrase \/ AfterError \/ AnswerPassphrase
  <2>1. cred'.password = cred.password
    BY <1>7, <1>b, Asking DEF AskPassphrase, AfterError
  <2>2. phase' # "error"
    BY <1>7 DEF AskPassphrase, AfterError, NextTry, AnswerPassphrase, Retry, GiveUp
  <2> QED BY <1>b, <1>k, <2>1, <2>2
<1>8. CASE TestDone \/ Register \/ Kill
  BY <1>8, <1>b, <1>k DEF TestDone, Register, Kill
<1> QED
  BY <1>1, <1>2, <1>3, <1>4, <1>5, <1>6, <1>7, <1>8, NoTrouble DEF Direct

\* A known file is left, or under way, until the server has seen it.
LEMMA FileAheadStep ==
  ASSUME DataInv, Sufficient, Named, GoesOn, NEW f \in Files, FileAhead(f), Direct, ~Mishap
  PROVE  FileAhead(f)'
<1>s. world' = world
  BY SameWorld DEF Next
<1> SUFFICES ASSUME world.saved = NoKey, world.password = "none", KeyOf(f).known
             PROVE  FileAhead(f)'
  BY <1>s DEF FileAhead, KeyOf
<1>b. /\ cred \in CredType /\ cred.password = "none" /\ phase # "password"
      /\ listed => f \in Left \/ (cred.key = f /\ UnderWay) \/ Welcome
      /\ ~listed => (phase \in {"connect", "username"} /\ cred.key = None) \/ Welcome
      /\ listed \in BOOLEAN /\ (listed => cred.key \in Files) /\ f # None
  BY WorldType DEF DataInv, FileAhead, None
<1>k. /\ phase' # "password" /\ cred'.password = "none"
      /\ listed' => f \in Left' \/ (cred'.key = f /\ UnderWay') \/ Welcome'
      /\ ~listed' => (phase' \in {"connect", "username"} /\ cred'.key = None) \/ Welcome'
      => FileAhead(f)'
  BY <1>s DEF FileAhead, KeyOf
<1>l. UNCHANGED sshKeys => Left' = Left
  BY DEF Left
<1>1. CASE AskUsername \/ AnswerUsername
  <2>1. cred'.password = cred.password /\ cred'.key = cred.key
    BY <1>1, <1>b, Asking
  <2>2. phase \in {"connect", "username"} /\ phase' \in {"connect", "username"} /\ UNCHANGED keys
    BY <1>1 DEF AskUsername, AnswerUsername
  <2>3. ~Welcome /\ ~UnderWay
    BY <2>2 DEF Welcome, UnderWay
  <2> QED BY <1>b, <1>k, <1>l, <2>1, <2>2, <2>3 DEF keys
<1>2. CASE Connect
  <2>1. phase = "connect" /\ ~listed
    BY <1>2 DEF Connect, WantsFile
  <2>2. WantsFile
    BY <1>b, <2>1 DEF WantsFile, Welcome
  <2>3. Queue = <<>>
    BY <1>2, <2>2 DEF Connect
  <2>4. DOMAIN Queue = Files
    BY <2>1 DEF Queue
  <2> QED BY <2>3, <2>4, EmptyDomain
<1>3. CASE ConnectWithFile
  <2> DEFINE k == Head(Queue)
  <2>1. phase = "connect" /\ Queue # <<>>
    BY <1>3 DEF ConnectWithFile
  <2>2. k \in Files
    BY <2>1, QueueType DEF DataInv
  <2>3. KeyOf(k).kind # "missing"
    BY <2>2 DEF Sufficient
  <2>4. /\ cred' = [cred EXCEPT !.key = k] /\ listed' = TRUE /\ sshKeys' = Tail(Queue)
        /\ phase' = "auth" \/ (phase' = "error" /\ err' = "passphrase")
    BY <1>3, <2>3 DEF ConnectWithFile, Dial, Fail
  <2>5. cred'.key = k /\ cred'.password = "none"
    BY <1>b, <2>4, CredFields
  <2>6. f \in Left' \/ f = k
    <3>1. listed => f \in Left
      BY <1>b, <2>1 DEF UnderWay, Welcome
    <3> QED BY <1>b, <2>1, <2>4, <3>1, LeftAfterTake DEF DataInv
  <2>7. UnderWay'
    BY <2>4 DEF UnderWay
  <2> HIDE DEF k
  <2> QED BY <1>k, <2>4, <2>5, <2>6, <2>7
<1>4. CASE ConnectDrained
  <2>1. phase = "connect" /\ listed /\ sshKeys = <<>>
    BY <1>4 DEF ConnectDrained
  <2>2. f \notin Left
    BY <2>1, EmptyDomain DEF Left
  <2> QED BY <1>b, <2>1, <2>2 DEF UnderWay, Welcome
<1>5. CASE Accept \/ AskCode \/ AnswerCode \/ TestDone \/ Register \/ Kill
  <2>1. UNCHANGED cred /\ phase' \in {"ready", "code", "done", "open", "killed"}
    <3>1. CASE AskCode
      BY <3>1, <1>b DEF AskCode, Retries2FA
    <3>2. CASE AnswerCode
      <4>1. cred.username = "right" /\ RoundPassword # "wrong"
        BY <3>2, <1>b DEF AnswerCode, Named, RoundPassword
      <4> QED BY <3>2, <4>1 DEF AnswerCode
    <3>3. CASE Accept \/ TestDone \/ Register \/ Kill
      BY <3>3 DEF Accept, TestDone, Register, Kill
    <3> QED BY <1>5, <3>1, <3>2, <3>3
  <2> QED BY <1>b, <1>k, <2>1 DEF Welcome
<1>6. CASE Refuse
  <2>1. phase = "auth" /\ cred.username = "right"
    BY <1>6 DEF Refuse, Named
  <2>2. listed /\ f \in Left
    <3>1. cred.key # f
      BY <1>6, <1>b, <2>1 DEF Refuse, Accepted
    <3> QED BY <1>b, <2>1, <3>1 DEF Welcome
  <2> QED BY <1>6, <1>b, <1>k, <1>l, <2>2 DEF Refuse, Fail, keys
<1>7. CASE AskPassphrase
  <2>1. phase = "error" /\ err = "passphrase" /\ phase' = "passphrase" /\ UNCHANGED <<cred, keys>>
    BY <1>7 DEF AskPassphrase
  <2>2. ~Welcome /\ UnderWay'
    BY <2>1 DEF Welcome, UnderWay
  <2> QED BY <1>b, <1>k, <1>l, <2>1, <2>2 DEF keys
<1>8. CASE AfterError
  <2>1. phase = "error" /\ err = "refused" /\ listed /\ f \in Left
    BY <1>8, <1>b DEF AfterError, GoesOn, Welcome, UnderWay
  <2>2. phase' = "connect" /\ UNCHANGED <<cred, keys>>
    BY <1>8, <2>1 DEF AfterError, NextTry, Retry
  <2> QED BY <1>b, <1>k, <1>l, <2>1, <2>2 DEF keys
<1>9. CASE AnswerPassphrase
  <2>1. phase = "passphrase" /\ phase' = "connect" /\ sshKeys' = KeyAgain /\ UNCHANGED listed
    BY <1>9 DEF AnswerPassphrase, Retry
  <2>2. listed /\ (f \in Left \/ f = cred.key)
    BY <1>b, <2>1 DEF Welcome
  <2>3. f \in Left'
    BY <1>b, <2>1, <2>2, LeftAfterAgain DEF DataInv
  <2>4. cred'.password = "none"
    BY <1>9, <1>b, Asking
  <2> QED BY <1>k, <2>1, <2>2, <2>3, <2>4
<1>10. CASE After2FA
  <2>1. phase = "error" /\ err = "2fa" /\ phase' = "connect" /\ UNCHANGED keys
    BY <1>10 DEF After2FA
  <2>2. listed /\ f \in Left
    BY <1>b, <2>1 DEF Welcome, UnderWay
  <2>3. cred'.password = "none"
    BY <1>10, <1>b, CredFields DEF After2FA
  <2> QED BY <1>k, <1>l, <2>1, <2>2, <2>3 DEF keys
<1>11. ~(AskPassword \/ AnswerPassword)
  BY <1>b DEF AskPassword, AsksPassword, AnswerPassword, Welcome
<1> QED
  BY <1>1, <1>2, <1>3, <1>4, <1>5, <1>6, <1>7, <1>8, <1>9, <1>10, <1>11, NoTrouble DEF Direct
\* No attempt is the last while the credential is ahead: the three ways to have one.
LEMMA GoesOnStep ==
  ASSUME DataInv, Sufficient, LoginCalm, Direct, ~Mishap
  PROVE  GoesOn'
<1>b. /\ cred \in CredType /\ listed \in BOOLEAN
      /\ Named /\ GoesOn /\ SavedKeyAhead /\ PasswordAhead /\ \A f \in Files : FileAhead(f)
      /\ world.password \in {"none", "right", "wrong"}
      /\ world.server \in {"keys", "password", "code", "both"}
  BY WorldType DEF DataInv, LoginCalm, World
<1>c. \/ world.saved # NoKey /\ world.saved.known
      \/ world.saved = NoKey /\ world.password = "none" /\ \E f \in Files : KeyOf(f).known
      \/ world.server # "keys" /\ world.password # "wrong"
  BY DEF Sufficient
<1>1. CASE AskUsername \/ AnswerUsername
  <2>1. phase' \in {"connect", "username"}
    BY <1>1 DEF AskUsername, AnswerUsername
  <2> QED BY <2>1 DEF GoesOn
<1>2. CASE Connect \/ ConnectDrained
  BY <1>2 DEF Connect, ConnectDrained, Dial, Fail, GoesOn
<1>3. CASE ConnectWithFile
  <2>1. Head(Queue) \in Files
    BY <1>3, QueueType DEF ConnectWithFile, DataInv
  <2>2. KeyOf(Head(Queue)).kind # "missing"
    BY <2>1 DEF Sufficient
  <2> QED BY <1>3, <2>2 DEF ConnectWithFile, Dial, Fail, GoesOn
<1>4. CASE Accept \/ AskCode
  BY <1>4 DEF Accept, AskCode, Fail, GoesOn
<1>5. CASE Refuse
  <2>1. phase = "auth" /\ cred.username = "right" /\ ~Accepted /\ ~AsksCode
    BY <1>5, <1>b DEF Refuse, Named
  <2>2. ~listed => cred.password = "none"
    <3>1. CASE world.saved # NoKey /\ world.saved.known
      BY <1>b, <2>1, <3>1 DEF SavedKeyAhead, Accepted, KeyOf, None
    <3>2. CASE world.saved = NoKey /\ world.password = "none" /\ \E f \in Files : KeyOf(f).known
      BY <1>b, <3>2 DEF FileAhead
    <3>3. CASE world.server # "keys" /\ world.password # "wrong"
      BY <1>b, <2>1, <3>3 DEF PasswordAhead, Accepted, AsksCode, CredType
    <3> QED BY <1>c, <3>1, <3>2, <3>3
  <2> QED BY <1>5, <2>2 DEF Refuse, Fail, GoesOn, keys
<1>6. CASE AnswerCode
  <2>1. phase = "code" /\ cred.username = "right"
    BY <1>6, <1>b DEF AnswerCode, Named
  <2>2. RoundPassword # "wrong"
    <3>1. CASE world.saved # NoKey /\ world.saved.known
      BY <1>b, <2>1, <3>1 DEF SavedKeyAhead
    <3>2. CASE world.saved = NoKey /\ world.password = "none" /\ \E f \in Files : KeyOf(f).known
      BY <1>b, <3>2 DEF FileAhead, RoundPassword
    <3>3. CASE world.server # "keys" /\ world.password # "wrong"
      BY <1>b, <3>3 DEF PasswordAhead, RoundPassword
    <3> QED BY <1>c, <3>1, <3>2, <3>3
  <2> QED BY <1>6, <2>1, <2>2 DEF AnswerCode, GoesOn
<1>7. CASE After2FA \/ AskPassphrase \/ AskPassword \/ AnswerPassphrase \/ AnswerPassword
  BY <1>7 DEF After2FA, AskPassphrase, AskPassword, AnswerPassphrase, AnswerPassword, Retry, GoesOn
<1>8. CASE AfterError
  <2>1. listed
    BY <1>8, <1>b DEF AfterError, AsksPassword, GoesOn
  <2> QED BY <1>8, <2>1 DEF AfterError, NextTry, Retry, GoesOn
<1>9. CASE TestDone \/ Register \/ Kill
  BY <1>9 DEF TestDone, Register, Kill, GoesOn
<1> QED
  BY <1>1, <1>2, <1>3, <1>4, <1>5, <1>6, <1>7, <1>8, <1>9, <1>b, NoTrouble DEF Direct

LEMMA LoginCalmStep ==
  ASSUME DataInv, Sufficient, LoginCalm, Direct, ~Mishap
  PROVE  LoginCalm'
<1>1. Files' = Files
  BY SameWorld DEF Next
<1>2. Named' /\ SavedKeyAhead' /\ PasswordAhead'
  BY NamedStep, SavedKeyStep, PasswordStep DEF LoginCalm
<1>3. ASSUME NEW f \in Files PROVE FileAhead(f)'
  BY <1>3, FileAheadStep DEF LoginCalm
<1> QED
  BY <1>1, <1>2, <1>3, GoesOnStep DEF LoginCalm
\* Either the bookmark has what opens the next hop, or that hop is the last and its
\* files or its password are looked for.
LEMMA HowItOpens ==
  ASSUME PlaceInv, Calm, passed < Len(route)
  PROVE  /\ Target \in Hop
         /\ \A f \in DOMAIN Target.files : f \in Nat /\ f # 0 /\ f # None
         /\ ~AtHand(Target) =>
              /\ passed + 1 = Len(route)
              /\ Target.saved = NoKey /\ Target.password = "none"
              /\ \/ \E f \in DOMAIN Target.files : Good(f)
                 \/ Target.server = "password" /\ world.password = "none"
<1>1. /\ Target \in Hop
      /\ DOMAIN Target.files = 1 .. Len(Target.files) /\ Len(Target.files) \in Nat
  BY TargetType
<1>2. passed + 1 \in DOMAIN route
  BY DEF PlaceInv
<1>3. Opens(Target) /\ (passed + 1 < Len(route) => Saved(Target))
  BY <1>2 DEF Calm, Target
<1>4. passed + 1 <= Len(route) /\ passed + 1 \in Nat /\ Len(route) \in Nat
  BY DEF PlaceInv
<1>5. \A f \in DOMAIN Target.files : f \in Nat /\ f # 0 /\ f # None
  BY <1>1 DEF None
<1>6. ~AtHand(Target) => ~Saved(Target)
  BY <1>3 DEF Opens, Saved, AtHand
<1> QED
  BY <1>1, <1>3, <1>4, <1>5, <1>6 DEF Opens, Saved, AtHand, Good

\* The steps of a hop that a calm session does not take.
LEMMA NoHopTrouble ==
  ASSUME ~Mishap
  PROVE  ~(ForwardFails \/ ReadFails \/ HopLose \/ HopEmptyPassphrase \/ HopCancelPassphrase
           \/ HopCancelPassword)
  BY DEF ForwardFails, ReadFails, HopLose, HopEmptyPassphrase, HopCancelPassphrase,
     HopCancelPassword

\* With what the bookmark holds no attempt is refused.
LEMMA ShownStep ==
  ASSUME PlaceInv, HopDataInv, AtHand(Target), ShownAtOnce, hphase # "idle",
         HopStep, ~HopAccept, ~Mishap
  PROVE  ShownAtOnce' /\ UNCHANGED passed /\ hphase' \notin {"idle", "failed", "cut"}
<1>b. /\ hcred \in HopCreds /\ None # 0
      /\ ~hlisted /\ hcred.password = Target.password
      /\ hcred.key = IF Target.saved = NoKey THEN None ELSE 0
      /\ hphase # "password" /\ (hphase = "error" => herr = "passphrase")
      /\ Target.saved = NoKey /\ Target.password = "none"
           => hphase = "auth" \/ (hphase = "forward" /\ skips)
  BY DEF HopDataInv, ShownAtOnce, None
<1>k. /\ UNCHANGED <<route, passed, hlisted>>
      /\ hcred'.password = hcred.password /\ hcred'.key = hcred.key
      /\ hphase' # "password" /\ (hphase' = "error" => herr' = "passphrase")
      /\ Target.saved = NoKey /\ Target.password = "none"
           => hphase' = "auth" \/ (hphase' = "forward" /\ skips')
      => ShownAtOnce'
  BY <1>b DEF ShownAtOnce, Target
<1>d. ASSUME HopDial(hcred.key)
      PROVE  /\ hphase' = "auth" \/ (hphase' = "error" /\ herr' = "passphrase")
             /\ Target.saved = NoKey => hphase' = "auth"
  BY <1>b, <1>d DEF HopDial, HopError
<1>r. HopStep => UNCHANGED route
  BY HopIsElsewhere
<1> HIDE DEF ShownAtOnce
<1>1. CASE Forwarded
  <2>1. UNCHANGED <<passed, hcred, hlisted, skips>>
    BY <1>1 DEF Forwarded, way, files
  <2>2. HopDial(hcred.key) \/ (~skips /\ hphase' = "read")
    BY <1>1 DEF Forwarded
  <2>3. hphase = "forward"
    BY <1>1 DEF Forwarded
  <2> QED BY <1>b, <1>d, <1>k, <1>r, <2>1, <2>2, <2>3
<1>2. CASE ReadNothing
  <2>1. UNCHANGED <<passed, hcred, hlisted>> /\ hphase = "read" /\ HopDial(hcred.key)
    BY <1>2 DEF ReadNothing, way, files
  <2> QED BY <1>b, <1>d, <1>k, <1>r, <2>1
<1>3. ~(ReadKey \/ ReadDrained)
  BY <1>b DEF ReadKey, ReadDrained, Lists
<1>4. ~HopRefuse
  <2>1. ASSUME HopRefuse PROVE Takes
    BY <1>b DEF Takes, AtHand, HopKey
  <2> QED BY <2>1 DEF HopRefuse
<1>5. CASE HopAskPassphrase
  BY <1>5, <1>b, <1>k, <1>r DEF HopAskPassphrase, way, files
<1>6. ~(HopNext \/ HopAskPassword \/ HopAnswerPassword)
  BY <1>b DEF HopNext, AgentAlone, HopAskPassword, AsksHopPassword, HopAnswerPassword
<1>7. CASE HopAnswerPassphrase
  <2>1. hcred'.key = hcred.key /\ hcred'.password = hcred.password
    <3>1. \E p : hcred' = [hcred EXCEPT !.passphrase = p]
      BY <1>7 DEF HopAnswerPassphrase
    <3> QED BY <1>b, <3>1, HopCredFields
  <2>2. UNCHANGED <<passed, hlisted>> /\ hphase' = "forward" /\ skips' = TRUE
    BY <1>7 DEF HopAnswerPassphrase, Reconnect, way
  <2> QED BY <1>b, <1>k, <1>r, <2>1, <2>2
<1>8. ~Jump
  BY DEF Jump
<1> QED
  BY <1>1, <1>2, <1>3, <1>4, <1>5, <1>6, <1>7, <1>8, NoHopTrouble DEF HopStep
\* Where files are looked for, no known one is lost, and when the list is used up
\* the password is asked for, once.
LEMMA ListingStep ==
  ASSUME PlaceInv, HopDataInv, Calm, ~AtHand(Target), Listing, hphase # "idle",
         HopStep, ~HopAccept, ~Mishap
  PROVE  Listing' /\ UNCHANGED passed /\ hphase' \notin {"idle", "failed", "cut"}
<1>a. /\ UNCHANGED <<route, world>> /\ passed < Len(route)
  BY HopIsElsewhere DEF login, flags, fixed
<1>b. /\ hcred \in HopCreds /\ hlisted \in BOOLEAN /\ hcred.drained \in BOOLEAN
      /\ hcred.password \in {"none", "right", "wrong"}
  BY HopCredFields DEF HopDataInv, PlaceInv, HopCreds
<1>o. /\ \A f \in DOMAIN Target.files : f \in Nat /\ f # 0 /\ f # None
      /\ \/ \E f \in DOMAIN Target.files : Good(f)
         \/ Target.server = "password" /\ world.password = "none"
  BY <1>a, HowItOpens
<1>t. UNCHANGED passed => Target' = Target /\ \A f : Good(f)' = Good(f)
  BY <1>a DEF Target, Good
<1>l. UNCHANGED hkeys => HopLeft' = HopLeft
  BY DEF HopLeft
<1>n. None \notin Nat
  BY DEF None
<1> DEFINE Listed == /\ ~hcred.drained /\ hcred.password = "none" /\ hphase # "password"
                     /\ \A f \in DOMAIN Target.files : Good(f) => f \in HopLeft \/ HopUnderWay(f)
           Unlisted == /\ hcred.key = None /\ hphase # "passphrase"
                       /\ hphase = "error" => herr = "refused"
                       /\ ~hcred.drained => hcred.password = "none" /\ hphase # "password"
                       /\ hcred.drained =>
                            /\ Target.server = "password" /\ world.password = "none"
                            /\ hcred.password \in {"none", "right"} /\ hphase # "read"
                            /\ hphase \in {"error", "password"} => hcred.password = "none"
                            /\ hphase = "forward" => skips
<1>p. (hlisted => Listed) /\ (~hlisted => Unlisted) /\ (hphase = "error" => herr # "lost")
  BY DEF Listing
<1>q. (hlisted' => Listed') /\ (~hlisted' => Unlisted') /\ (hphase' = "error" => herr' # "lost")
        => Listing'
  BY DEF Listing
<1> HIDE DEF Listing
<1>1. CASE Forwarded
  <2>1. /\ UNCHANGED <<passed, hcred, hlisted, hkeys, skips>> /\ hphase = "forward"
        /\ IF skips THEN HopDial(hcred.key) ELSE hphase' = "read" /\ UNCHANGED herr
    BY <1>1 DEF Forwarded, way, files
  <2>2. CASE skips
    <3>1. /\ hphase' = "auth" \/ (hphase' = "error" /\ herr' = "passphrase")
          /\ hcred.key = None => hphase' = "auth"
      BY <2>1, <2>2 DEF HopDial, HopError
    <3>2. \A f : HopUnderWay(f) => HopUnderWay(f)'
      BY <2>1, <3>1 DEF HopUnderWay, Asked
    <3> QED BY <1>l, <1>p, <1>q, <1>t, <1>a, <2>1, <3>1, <3>2
  <2>3. CASE ~skips
    <3>1. \A f : ~HopUnderWay(f)
      BY <2>1, <2>3 DEF HopUnderWay, Asked
    <3> QED BY <1>l, <1>p, <1>q, <1>t, <1>a, <2>1, <2>3, <3>1
  <2> QED BY <2>2, <2>3
<1>2. ~ReadNothing
  BY <1>p, <1>b DEF ReadNothing, Lists
<1>3. CASE ReadKey
  <2> DEFINE k   == Head(ToRead)
             key == IF HopKey(k).kind = "missing" THEN None ELSE k
  <2>1. /\ hphase = "read" /\ ToRead # <<>> /\ hkeys' = Tail(ToRead) /\ hlisted' = TRUE
        /\ hcred' = [hcred EXCEPT !.key = key] /\ HopDial(key) /\ UNCHANGED passed
    BY <1>3 DEF ReadKey, way
  <2>2. hcred'.key = key /\ hcred'.drained = hcred.drained /\ hcred'.password = hcred.password
    <3> HIDE DEF key
    <3> QED BY <1>b, <2>1, HopCredFields
  <2>3. ~hcred.drained /\ hcred.password = "none"
    BY <1>3, <1>p DEF ReadKey, Lists
  <2>4. hphase' = "auth" \/ (hphase' = "error" /\ herr' = "passphrase")
    BY <2>1 DEF HopDial, HopError
  <2>5. ASSUME NEW f \in DOMAIN Target.files, Good(f) PROVE f \in HopLeft' \/ HopUnderWay(f)'
    <3>1. f \in HopLeft' \/ f = k
      <4>1. ~HopUnderWay(f)
        BY <2>1 DEF HopUnderWay, Asked
      <4> QED BY <1>a, <1>p, <2>1, <2>5, <4>1, HopLeftAfterTake
    <3>2. ASSUME f = k PROVE HopUnderWay(f)'
      <4>1. HopKey(k).kind # "missing"
        BY <1>o, <2>5, <3>2 DEF HopKey, Good
      <4> QED BY <2>2, <2>4, <3>2, <4>1 DEF HopUnderWay, Asked
    <3> QED BY <3>1, <3>2
  <2> HIDE DEF key, k
  <2> QED BY <1>q, <1>t, <2>1, <2>2, <2>3, <2>4, <2>5
<1>4. CASE ReadDrained
  <2>1. /\ hphase = "read" /\ hcred' = Drained /\ hlisted' = FALSE /\ hphase' = "auth"
        /\ UNCHANGED passed /\ ToRead = <<>>
    BY <1>4 DEF ReadDrained, way
  <2>2. hcred.password = "none"
    BY <1>4, <1>p DEF ReadDrained, Lists
  <2>3. ASSUME NEW f \in DOMAIN Target.files, Good(f) PROVE FALSE
    <3>1. DOMAIN ToRead = {} /\ ~HopUnderWay(f)
      BY <2>1, EmptyDomain DEF HopUnderWay, Asked
    <3>2. hlisted
      BY <3>1 DEF ToRead
    <3>3. HopLeft = {}
      BY <3>1, <3>2 DEF ToRead, HopLeft
    <3> QED BY <1>p, <2>3, <3>1, <3>2, <3>3
  <2>4. hcred'.key = None /\ hcred'.drained = TRUE /\ hcred'.password = "none"
    BY <1>b, <2>1, <2>2, HopCredFields
  <2>5. Target.server = "password" /\ world.password = "none"
    BY <1>o, <2>3
  <2> QED BY <1>a, <1>q, <1>t, <2>1, <2>4, <2>5
<1>5. CASE HopRefuse
  <2>1. /\ hphase = "auth" /\ ~Takes /\ hphase' = "error" /\ herr' = "refused"
        /\ UNCHANGED <<passed, hcred, hlisted, hkeys>>
    BY <1>5 DEF HopRefuse, HopError, way, files
  <2>2. ASSUME NEW f \in DOMAIN Target.files, Good(f) PROVE ~HopUnderWay(f)
    BY <1>o, <2>1, <2>2 DEF Takes, HopUnderWay, HopKey, Good
  <2>3. Target.server = "password" => hcred.password # "right"
    BY <2>1 DEF Takes
  <2> QED BY <1>a, <1>l, <1>p, <1>q, <1>t, <2>1, <2>2, <2>3
<1>6. CASE HopAskPassphrase
  <2>1. /\ hphase = "error" /\ herr = "passphrase" /\ hphase' = "passphrase"
        /\ UNCHANGED <<passed, hcred, hlisted, hkeys>>
    BY <1>6 DEF HopAskPassphrase, way, files
  <2>2. \A f : HopUnderWay(f) => HopUnderWay(f)'
    BY <2>1 DEF HopUnderWay, Asked
  <2> QED BY <1>a, <1>l, <1>p, <1>q, <1>t, <2>1, <2>2
<1>7. CASE HopNext
  <2>1. hphase = "error" /\ herr # "passphrase" /\ UNCHANGED <<passed, hcred, hlisted, hkeys>>
    BY <1>7 DEF HopNext, AgentAlone, way, files
  <2>2. \A f : ~HopUnderWay(f)
    BY <2>1 DEF HopUnderWay, Asked
  <2>3. ~hlisted => AgentAlone
    <3>1. ASSUME ~hlisted, hcred.drained PROVE ~HopNext
      BY <1>p, <2>1, <3>1 DEF HopNext, AgentAlone, AsksHopPassword
    <3>2. ASSUME ~hlisted, ~hcred.drained PROVE AgentAlone
      BY <1>p, <2>1, <3>2 DEF AgentAlone
    <3> QED BY <1>7, <3>1, <3>2
  <2>4. hphase' = "forward"
    BY <1>7, <2>3 DEF HopNext, Reconnect
  <2>5. ~hlisted => ~hcred.drained
    BY <2>3 DEF AgentAlone
  <2> QED BY <1>a, <1>l, <1>p, <1>q, <1>t, <2>1, <2>2, <2>4, <2>5
<1>8. CASE HopAskPassword
  <2>1. hphase = "error" /\ hcred.drained /\ UNCHANGED <<passed, hlisted, hkeys>>
    BY <1>8 DEF HopAskPassword, AsksHopPassword, way, files
  <2>2. ~hlisted /\ world.password = "none"
    BY <1>p, <2>1
  <2>3. hphase' = "password" /\ UNCHANGED hcred
    BY <1>8, <2>2 DEF HopAskPassword
  <2> QED BY <1>a, <1>p, <1>q, <1>t, <2>1, <2>2, <2>3
<1>9. CASE HopAnswerPassphrase
  <2>1. /\ hphase = "passphrase" /\ hphase' = "forward" /\ skips' = TRUE
        /\ UNCHANGED <<passed, hlisted>> /\ hlisted
    BY <1>9, <1>p DEF HopAnswerPassphrase, Reconnect, way
  <2>2. hcred'.key = hcred.key /\ hcred'.drained = hcred.drained /\ hcred'.password = hcred.password
    <3>1. \E p : hcred' = [hcred EXCEPT !.passphrase = p]
      BY <1>9 DEF HopAnswerPassphrase
    <3> QED BY <1>b, <3>1, HopCredFields
  <2>3. HopLeft \subseteq HopLeft'
    <3>1. hkeys' = <<hcred.key>> \o hkeys
      BY <1>9, <2>1 DEF HopAnswerPassphrase
    <3> QED BY <2>1, <3>1, HopLeftAfterAgain DEF HopDataInv, Asked
  <2>4. \A f : HopUnderWay(f) => HopUnderWay(f)'
    BY <2>1, <2>2 DEF HopUnderWay
  <2> QED BY <1>p, <1>q, <1>t, <2>1, <2>2, <2>3, <2>4
<1>10. CASE HopAnswerPassword
  <2>1. /\ hphase = "password" /\ hphase' = "forward" /\ skips' = TRUE
        /\ UNCHANGED <<passed, hlisted>> /\ ~hlisted /\ hcred.drained
    BY <1>10, <1>p, <1>b DEF HopAnswerPassword, Reconnect, way, files
  <2>2. hcred' = [hcred EXCEPT !.password = "right"]
    BY <1>10 DEF HopAnswerPassword
  <2>3. hcred'.key = hcred.key /\ hcred'.drained = hcred.drained /\ hcred'.password = "right"
    BY <1>b, <2>2, HopCredFields
  <2> QED BY <1>a, <1>p, <1>q, <1>t, <2>1, <2>3
<1>11. ~Jump
  BY DEF Jump
<1> QED
  BY <1>1, <1>2, <1>3, <1>4, <1>5, <1>6, <1>7, <1>8, <1>9, <1>10, <1>11, NoHopTrouble DEF HopStep

\* A step of the session leaves the hops alone: none is begun while it is not ready.
LEMMA SessionClear ==
  ASSUME PlaceInv, Sufficient, GoesOn, Clear, SessionStep, ~Mishap
  PROVE  HopCalm'
<1> DEFINE Made == {"ready", "open", "done", "killed"}
<1>1. hphase = "idle" /\ UNCHANGED <<route, hphase, hlisted>>
  <2>1. hphase # "idle" => phase = "ready" /\ ~Arrived
    BY DEF PlaceInv, Arrived
  <2> QED BY <2>1 DEF SessionStep, files
<1>2. phase \in Made => phase' \in Made
  <2>1. CASE TestDone \/ Register \/ Kill
    BY <2>1 DEF TestDone, Register, Kill
  <2>2. ASSUME ~(TestDone \/ Register \/ Kill) PROVE phase \notin Made
    <3>1. CASE AskUsername \/ AnswerUsername \/ Connect \/ ConnectWithFile \/ ConnectDrained
      BY <3>1 DEF AskUsername, AnswerUsername, Connect, ConnectWithFile, ConnectDrained
    <3>2. CASE Accept \/ AskCode \/ Refuse \/ AnswerCode
      BY <3>2 DEF Accept, AskCode, Refuse, AnswerCode
    <3>3. CASE After2FA \/ AskPassphrase \/ AskPassword \/ AfterError \/ AnswerPassphrase \/ AnswerPassword
      BY <3>3 DEF After2FA, AskPassphrase, AskPassword, AfterError, AnswerPassphrase, AnswerPassword
    <3> QED BY <2>2, <3>1, <3>2, <3>3, NoTrouble DEF SessionStep, Direct
  <2> QED BY <2>1, <2>2
<1>3. passed' = passed
  <2>1. phase' = "connect" => passed = 0
    BY <1>2 DEF Clear
  <2> QED BY <2>1 DEF SessionStep
<1>4. Arrived' = Arrived
  BY <1>1, <1>3 DEF Arrived
<1> QED
  BY <1>1, <1>2, <1>3, <1>4 DEF HopCalm, Clear

\* A hop begins with what its bookmark holds.
LEMMA JumpCalm ==
  ASSUME PlaceInv, Calm, Clear, Jump
  PROVE  HopCalm'
<1>1. /\ UNCHANGED <<login, route, passed, hlisted>> /\ phase = "ready" /\ passed < Len(route)
  BY HopIsElsewhere DEF Jump, HopStep, way, files
<1>2. ~hlisted /\ phase' = "ready" /\ hphase' = "forward" /\ Target' = Target
  BY <1>1 DEF Jump, Clear, Reconnect, login, Target
<1>3. /\ hcred'.key = IF Target.saved = NoKey THEN None ELSE 0
      /\ hcred'.password = Target.password /\ hcred'.drained = FALSE
  BY DEF Jump, NoCred
<1>4. skips' = (Target.agent # "none" /\ Target.saved = NoKey /\ Target.password = "none")
  BY DEF Jump, Reconnect
<1>5. CASE AtHand(Target)
  <2>1. Target.saved = NoKey /\ Target.password = "none" => Target.agent = "taken"
    BY <1>1, <1>5, HowItOpens DEF AtHand
  <2>2. ShownAtOnce'
    BY <1>1, <1>2, <1>3, <1>4, <2>1 DEF ShownAtOnce
  <2> QED BY <1>1, <1>2, <1>5, <2>2 DEF HopCalm, Clear, AtHand
<1>6. CASE ~AtHand(Target)
  <2>1. Target.saved = NoKey /\ Target.password = "none"
    BY <1>1, <1>6, HowItOpens
  <2>2. Listing'
    BY <1>1, <1>2, <1>3, <2>1 DEF Listing
  <2> QED BY <1>1, <1>2, <1>6, <2>2 DEF HopCalm, Clear, AtHand
<1> QED
  BY <1>5, <1>6

LEMMA HopCalmStep ==
  ASSUME PlaceInv, HopDataInv, Calm, GoesOn, HopCalm, [RouteNext]_hvars, ~Mishap
  PROVE  HopCalm'
<1>1. CASE SessionStep
  BY <1>1, SessionClear DEF HopCalm, Calm
<1>2. CASE Jump
  BY <1>2, JumpCalm DEF HopCalm
<1>3. CASE HopAccept
  <2>1. /\ phase' = "ready" /\ hphase = "auth" /\ hphase' = "idle" /\ passed < Len(route)
        /\ passed' = passed + 1 /\ UNCHANGED <<route, hlisted>>
    BY <1>3, HopIsElsewhere DEF HopAccept, HopStep, login, files
  <2>2. hlisted => Arrived'
    <3>1. CASE AtHand(Target)
      BY <2>1, <3>1 DEF HopCalm, ShownAtOnce
    <3>2. CASE ~AtHand(Target)
      BY <2>1, <3>2, HowItOpens DEF Arrived
    <3> QED BY <3>1, <3>2
  <2> QED BY <2>1, <2>2 DEF HopCalm, Clear
<1>4. CASE HopStep /\ ~Jump /\ ~HopAccept
  <2>1. phase' = "ready" /\ UNCHANGED route /\ hphase # "idle"
    <3>1. phase' = "ready" /\ UNCHANGED route
      BY <1>4, HopIsElsewhere DEF login
    <3>2. hphase # "idle"
      BY <1>4 DEF HopStep, Forwarded, ForwardFails, ReadNothing, ReadKey, ReadDrained, ReadFails,
         HopRefuse, HopLose, HopAskPassphrase, HopNext, HopAskPassword, HopAnswerPassphrase,
         HopEmptyPassphrase, HopCancelPassphrase, HopAnswerPassword, HopCancelPassword
    <3> QED BY <3>1, <3>2
  <2>2. CASE AtHand(Target)
    <3>1. ShownAtOnce' /\ UNCHANGED passed /\ hphase' \notin {"idle", "failed", "cut"}
      BY <1>4, <2>1, <2>2, ShownStep DEF HopCalm
    <3>2. AtHand(Target)'
      BY <2>1, <2>2, <3>1 DEF AtHand, Target
    <3> QED BY <2>1, <3>1, <3>2 DEF HopCalm, Clear
  <2>3. CASE ~AtHand(Target)
    <3>1. Listing' /\ UNCHANGED passed /\ hphase' \notin {"idle", "failed", "cut"}
      BY <1>4, <2>1, <2>3, ListingStep DEF HopCalm
    <3>2. ~AtHand(Target)'
      BY <2>1, <2>3, <3>1 DEF AtHand, Target
    <3> QED BY <2>1, <3>1, <3>2 DEF HopCalm, Clear
  <2> QED BY <2>2, <2>3
<1>5. ~JumpFailed
  BY DEF JumpFailed, HopCalm, Clear
<1>6. CASE UNCHANGED hvars
  <2>1. UNCHANGED <<phase, world, route, passed, hphase, skips, hcred, hlisted, hkeys, herr>>
    BY <1>6 DEF hvars, vars, hop
  <2> QED BY <2>1 DEF HopCalm, Clear, Arrived, AtHand, Target, ShownAtOnce, Listing, Good, HopLeft,
               HopUnderWay, Asked
<1> QED
  BY <1>1, <1>2, <1>3, <1>4, <1>5, <1>6 DEF RouteNext

\* The login and the hops together.
LEMMA CalmStep ==
  ASSUME DataInv, ControlInv, HopInv, CalmInv, [RouteNext]_hvars
  PROVE  CalmInv'
<1> SUFFICES ASSUME Calm' PROVE LoginCalm' /\ HopCalm'
  BY DEF CalmInv
<1>1. Calm /\ ~Mishap /\ PlaceInv /\ HopDataInv
  BY CalmBefore DEF HopInv
<1>2. LoginCalm /\ HopCalm /\ Sufficient /\ GoesOn
  BY <1>1 DEF CalmInv, Calm, LoginCalm
<1>3. HopCalm'
  BY <1>1, <1>2, HopCalmStep
<1>4. CASE SessionStep
  BY <1>1, <1>2, <1>3, <1>4, LoginCalmStep DEF SessionStep
<1>5. ASSUME UNCHANGED login PROVE LoginCalm'
  <2>1. UNCHANGED <<world, cred, phase, err, listed, sshKeys>>
    BY <1>5 DEF login, flags, fixed, keys
  <2> QED BY <1>2, <2>1 DEF LoginCalm, Named, GoesOn, SavedKeyAhead, PasswordAhead, FileAhead, KeyOf,
               Files, Left, UnderWay, Welcome
<1>6. ~JumpFailed
  BY <1>2 DEF JumpFailed, HopCalm, Clear
<1>7. HopStep \/ UNCHANGED hvars => UNCHANGED login
  BY <1>1, HopIsElsewhere DEF hvars, vars, login, flags, fixed, keys, outcome
<1> QED
  BY <1>3, <1>4, <1>5, <1>6, <1>7 DEF RouteNext

LEMMA CalmInit == RouteInit => CalmInv
<1> SUFFICES ASSUME RouteInit, Calm PROVE LoginCalm /\ HopCalm
  BY DEF CalmInv
<1>1. world \in World /\ (world.username \/ world.password = "none")
  BY SshAssumption DEF RouteInit, Init, Calm, Sufficient
<1>2. /\ cred.username = IF world.username THEN "right" ELSE ""
      /\ cred.password = IF world.mfa THEN "none" ELSE world.password
      /\ cred.key = IF world.saved = NoKey THEN None ELSE 0
      /\ ~listed /\ phase = "connect"
  BY DEF RouteInit, Init
<1>3. LoginCalm
  BY <1>1, <1>2 DEF LoginCalm, Named, GoesOn, SavedKeyAhead, PasswordAhead, FileAhead, World
<1>4. HopCalm
  BY <1>2 DEF RouteInit, HopCalm, Clear
<1> QED
  BY <1>3, <1>4

\* A session whose last server can be reached reaches it: whatever is refused on the
\* way, the retries of sshConnect and retryJump come to the credential that is taken,
\* for any worlds, any files and routes of any length.
THEOREM RouteCompleteHolds == RouteSpec => []RouteComplete
<1> DEFINE IInv == DataInv /\ ControlInv /\ HopInv /\ CalmInv
<1>1. RouteInit => IInv
  BY InitInv, HopInvInit, CalmInit DEF RouteInit
<1>2. IInv /\ [RouteNext]_hvars => IInv'
  <2> SUFFICES ASSUME IInv, [RouteNext]_hvars PROVE IInv'
    OBVIOUS
  <2>1. [Next]_vars
    BY StepIsSession DEF HopInv
  <2> QED BY <2>1, DataStep, ControlStep, HopInvStep, CalmStep
<1>3. IInv => RouteComplete
  BY DEF CalmInv, Calm, LoginCalm, GoesOn, RouteComplete
<1> QED
  BY <1>1, <1>2, <1>3, PTL DEF RouteSpec
=============================================================================
