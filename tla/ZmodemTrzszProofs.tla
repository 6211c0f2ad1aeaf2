------------------------- MODULE ZmodemTrzszProofs --------------------------
(***************************************************************************)
(* Proofs about Zmodem and Trzsz, the two protocols that are found in the  *)
(* output of a terminal.                                                   *)
(*                                                                         *)
(* Zmodem: for any output, any number of files and any noise window, a     *)
(* session is watched exactly while it is active, releases what it opened, *)
(* and shows ordinary output in order and at most once.  The invariant has *)
(* two parts that meet in tail only: the session (its state, its timer and *)
(* its files) and the screen (what of the wire has been shown).            *)
(*                                                                         *)
(* Trzsz: however many coroutines share the fields of one session, and     *)
(* whatever is cancelled, fails or times out between their awaits, the     *)
(* fields agree (TrzszInv) and a send stays with its own transfer          *)
(* (SendsOwn).  What makes it work is that a session whose transfer is     *)
(* there is either in progress or has a completion that waits (Busy): a    *)
(* trigger finds no transfer, so that no run is waiting for files and no   *)
(* file is open.  A send that returns after the end of its session may     *)
(* break that (stolen), and only that.                                     *)
(***************************************************************************)
EXTENDS Zmodem, Trzsz, SequenceTheorems, FiniteSetTheorems, WellFoundedInduction, TLAPS

-----------------------------------------------------------------------------
(* Zmodem.                                                                 *)

(* The inductive invariant.                                                *)

RunType ==
    /\ zmodemState \in ZmodemActive \cup {"idle", "none"}
    /\ watchdog \in {"off", "USER_ACTION", "TRANSFER", "HANDSHAKE"}
    /\ carry \in 0 .. MaxCarry /\ window \in 0 .. Window
    /\ files \in 0 .. MaxFiles /\ chunks \in 0 .. MaxChunks

\* A session that is over carries and uploads nothing.
Stopped == fd \in BOOLEAN /\ (zmodemState \notin ZmodemActive => fd = FALSE /\ carry = 0 /\ files = 0)

\* What a session has running: its timer, what it carries, the file it uploads.
Running == RunType /\ Watched /\ Stopped

\* The files it downloads: they are numbered as they begin, the one being written is
\* not one of those that were ended, and there is none outside a session.
Numbered ==
    /\ stream \in 0 .. made /\ made \in 0 .. MaxFiles
    /\ open \subseteq 1 .. made /\ ending \subseteq open /\ stream \notin ending
    /\ stream \in open \cup {0}
    /\ zmodemState \notin ZmodemActive => stream = 0

\* The open files are the one being written and those being flushed.
Held == late \in BOOLEAN /\ (late \/ open = ending \cup ({stream} \ {0}))

SessionOK == Running /\ Numbered /\ Held

ScreenType ==
    /\ wire \in Wires /\ pos \in 0 .. Len(wire) /\ tail \in 0 .. 4
    /\ shown \in Seq(1 .. Len(wire))

\* Nothing is shown that has not arrived, and the tail that is kept for the next scan
\* has arrived, too.
Arrived == tail <= pos /\ \A i \in 1 .. Len(shown) : shown[i] <= pos

ScreenOK == ScreenType /\ Arrived /\ ShownInOrder

-----------------------------------------------------------------------------
(* The session.                                                            *)

LEMMA Bounds ==
    MaxChunks \in Nat /\ MaxCarry \in Nat \ {0} /\ MaxFiles \in Nat /\ Window \in Nat \ {0}
BY ZmodemAssumption

\* Every end of a session stops what is running, however the file being written ends.
LEMMA EndStops ==
    ASSUME Running, NEW clean \in BOOLEAN, NEW lost, EndWith(clean, lost), chunks' \in 0 .. MaxChunks
    PROVE  Running' /\ zmodemState' \notin ZmodemActive /\ stream' = 0 /\ open' = open \ {lost}
<1>1. /\ zmodemState' = "idle" /\ watchdog' = "off" /\ carry' = 0 /\ files' = 0 /\ fd' = FALSE
      /\ stream' = 0 /\ open' = open \ {lost} /\ window' \in 0 .. Window
  BY Bounds DEF Running, RunType, EndWith, EndedFd
<1>2. zmodemState' \notin ZmodemActive
  BY <1>1 DEF ZmodemActive
<1>3. RunType'
  BY <1>1, Bounds DEF Running, RunType
<1>. QED
  BY <1>1, <1>2, <1>3 DEF Running, Watched, Stopped

\* It closes the stream that was being written.
LEMMA EndZmodemKeeps ==
    ASSUME SessionOK, NEW clean \in BOOLEAN, EndZmodem(clean),
           made' \in made .. MaxFiles, chunks' \in 0 .. MaxChunks, late' = late
    PROVE  SessionOK'
<1>1. Running' /\ zmodemState' \notin ZmodemActive /\ stream' = 0 /\ open' = open \ {stream} /\ ending' = ending
  BY EndStops DEF SessionOK, EndZmodem
<1>2. stream \in Nat /\ made \in Nat /\ open \subseteq 1 .. made /\ ending \subseteq open /\ stream \notin ending
  BY Bounds DEF SessionOK, Numbered
<1>3. Numbered'
  BY <1>1, <1>2, Bounds DEF Numbered
<1>4. late \/ open \ {stream} = ending
  <2>1. late \/ open = ending \cup ({stream} \ {0})
    BY DEF SessionOK, Held
  <2>. QED BY <2>1, <1>2
<1>5. Held'
  BY <1>1, <1>4 DEF SessionOK, Held
<1>. QED BY <1>1, <1>3, <1>5 DEF SessionOK

\* A stream that fails ends the session, and is gone; if it had been ended before, the
\* reference to the one being written is lost.
LEMMA FailKeeps ==
    ASSUME SessionOK, NEW i \in 1 .. MaxFiles, StreamFails(i)
    PROVE  SessionOK'
<1>1. Running' /\ zmodemState' \notin ZmodemActive /\ stream' = 0 /\ open' = open \ {i}
  BY EndStops DEF SessionOK, Running, RunType, StreamFails
<1>2. made' = made /\ ending' = ending \ {i} /\ late' = (late \/ i # stream)
  BY DEF StreamFails
<1>3. made \in 0 .. MaxFiles /\ open \subseteq 1 .. made /\ ending \subseteq open /\ stream \notin ending
  BY DEF SessionOK, Numbered
<1>4. Numbered'
  BY <1>1, <1>2, <1>3, Bounds DEF Numbered
<1>5. late' \/ open' = ending'
  <2>1. CASE i # stream
    BY <2>1, <1>2
  <2>2. CASE i = stream
    BY <2>2, <1>1, <1>2, <1>3 DEF SessionOK, Held
  <2>. QED BY <2>1, <2>2
<1>6. late' \in BOOLEAN
  BY <1>2 DEF SessionOK, Held
<1>7. Held'
  BY <1>1, <1>5, <1>6 DEF Held
<1>. QED BY <1>1, <1>4, <1>7 DEF SessionOK

\* The files are as they were unless a step of theirs is taken.
LEMMA FilesKept ==
    ASSUME Numbered, Held, UNCHANGED <<stream, ending, open, late>>,
           made' \in made .. MaxFiles, zmodemState' \in ZmodemActive \/ UNCHANGED zmodemState
    PROVE  Numbered' /\ Held'
<1>1. made \in Nat /\ MaxFiles \in Nat /\ made' \in Nat /\ made <= made' /\ made' <= MaxFiles
  BY Bounds DEF Numbered
<1>2. Numbered'
  BY <1>1 DEF Numbered
<1>. QED BY <1>2 DEF Held

LEMMA SessionInit == ZmodemInit => SessionOK
<1>. SUFFICES ASSUME ZmodemInit PROVE SessionOK
  OBVIOUS
<1>1. RunType /\ Watched
  BY Bounds DEF ZmodemInit, RunType, Watched, ZmodemActive
<1>2. Stopped
  BY DEF ZmodemInit, Stopped
<1>3. stream = 0 /\ ending = {} /\ open = {} /\ made = 0 /\ late = FALSE
  BY DEF ZmodemInit
<1>4. Numbered
  BY <1>3, Bounds DEF Numbered
<1>5. Held
  BY <1>3 DEF Held
<1>. QED BY <1>1, <1>2, <1>4, <1>5 DEF SessionOK, Running

LEMMA SessionStep == SessionOK /\ [ZmodemNext]_zmodemVars => SessionOK'
<1>. SUFFICES ASSUME SessionOK, [ZmodemNext]_zmodemVars PROVE SessionOK'
  OBVIOUS
<1>. USE Bounds DEF SessionOK, fileVars
<1>1. ASSUME NEW n \in 1 .. Len(wire), IdleChunk(n) PROVE SessionOK'
  <2>1. RunType' /\ Watched'
    BY <1>1 DEF Running, RunType, Watched, ZmodemActive, IdleChunk, Start, StartReceiver, StartSender, Carried
  <2>2. Stopped'
    BY <1>1 DEF Running, RunType, Stopped, ZmodemActive, IdleChunk, Start, StartReceiver, StartSender, Carried
  <2>3. /\ UNCHANGED <<stream, ending, open, late>> /\ made' \in made .. MaxFiles
        /\ (zmodemState' \in ZmodemActive \/ UNCHANGED zmodemState)
    BY <1>1 DEF Numbered, ZmodemActive, fileVars, IdleChunk, Start, StartReceiver, StartSender, Carried
  <2>. QED BY <2>1, <2>2, <2>3, FilesKept DEF Running
<1>2. ASSUME NEW n \in 1 .. Len(wire), NoisyChunk(n) PROVE SessionOK'
  <2>1. RunType' /\ Watched'
    BY <1>2 DEF Running, RunType, Watched, ZmodemActive, NoisyChunk, Swallowed
  <2>2. Stopped'
    BY <1>2 DEF Running, RunType, Stopped, ZmodemActive, NoisyChunk
  <2>3. /\ UNCHANGED <<stream, ending, open, late>> /\ made' \in made .. MaxFiles
        /\ (zmodemState' \in ZmodemActive \/ UNCHANGED zmodemState)
    BY <1>2 DEF Numbered, ZmodemActive, fileVars, NoisyChunk
  <2>. QED BY <2>1, <2>2, <2>3, FilesKept DEF Running
<1>3. CASE Debris \/ Tick
  <2>1. RunType' /\ Watched'
    BY <1>3 DEF Running, RunType, Watched, ZmodemActive, Debris, Swallowed, Tick
  <2>2. Stopped'
    BY <1>3 DEF Running, RunType, Stopped, ZmodemActive, Debris, Tick
  <2>3. /\ UNCHANGED <<stream, ending, open, late>> /\ made' \in made .. MaxFiles
        /\ (zmodemState' \in ZmodemActive \/ UNCHANGED zmodemState)
    BY <1>3 DEF Numbered, ZmodemActive, fileVars, Debris, Tick
  <2>. QED BY <2>1, <2>2, <2>3, FilesKept DEF Running
<1>4. CASE BufferPending
  <2>1. CASE carry = MaxCarry
    <3>1. EndZmodem(FALSE) /\ late' = late
      BY <1>4, <2>1 DEF Abort, BufferPending, Chunk
    <3>2. made' \in made .. MaxFiles
      BY <1>4, <2>1 DEF Numbered, BufferPending, Chunk
    <3>3. chunks' \in 0 .. MaxChunks
      BY <1>4, <2>1 DEF Running, RunType, BufferPending, Chunk
    <3>. QED BY <3>1, <3>2, <3>3, EndZmodemKeeps
  <2>2. CASE ~(carry = MaxCarry)
    <3>1. RunType' /\ Watched'
      BY <1>4, <2>2 DEF Running, RunType, Watched, ZmodemActive, BufferPending, Chunk
    <3>2. Stopped'
      BY <1>4, <2>2 DEF Running, RunType, Stopped, ZmodemActive, BufferPending, Chunk
    <3>3. /\ UNCHANGED <<stream, ending, open, late>> /\ made' \in made .. MaxFiles
          /\ (zmodemState' \in ZmodemActive \/ UNCHANGED zmodemState)
      BY <1>4, <2>2 DEF Numbered, ZmodemActive, fileVars, BufferPending, Chunk
    <3>. QED BY <3>1, <3>2, <3>3, FilesKept DEF Running
  <2>. QED BY <2>1, <2>2
<1>5. CASE SetSavePath
  <2>1. RunType' /\ Watched'
    BY <1>5 DEF Running, RunType, Watched, ZmodemActive, SetSavePath
  <2>2. Stopped'
    BY <1>5 DEF Running, RunType, Stopped, ZmodemActive, SetSavePath
  <2>3. /\ UNCHANGED <<stream, ending, open, late>> /\ made' \in made .. MaxFiles
        /\ (zmodemState' \in ZmodemActive \/ UNCHANGED zmodemState)
    BY <1>5 DEF Numbered, ZmodemActive, fileVars, SetSavePath
  <2>. QED BY <2>1, <2>2, <2>3, FilesKept DEF Running
<1>6. ASSUME NEW n \in 0 .. MaxFiles, SetSendFiles(n) PROVE SessionOK'
  <2>1. CASE Abort /\ UNCHANGED made
    <3>1. EndZmodem(FALSE) /\ late' = late
      BY <1>6, <2>1 DEF Abort, SetSendFiles
    <3>2. made' \in made .. MaxFiles
      BY <1>6, <2>1 DEF Numbered, SetSendFiles
    <3>3. chunks' \in 0 .. MaxChunks
      BY <1>6, <2>1 DEF Running, RunType, SetSendFiles
    <3>. QED BY <3>1, <3>2, <3>3, EndZmodemKeeps
  <2>2. CASE ~(Abort /\ UNCHANGED made)
    <3>1. RunType' /\ Watched'
      BY <1>6, <2>2 DEF Running, RunType, Watched, ZmodemActive, SetSendFiles
    <3>2. Stopped'
      BY <1>6, <2>2 DEF Running, RunType, Stopped, ZmodemActive, SetSendFiles
    <3>3. /\ UNCHANGED <<stream, ending, open, late>> /\ made' \in made .. MaxFiles
          /\ (zmodemState' \in ZmodemActive \/ UNCHANGED zmodemState)
      BY <1>6, <2>2 DEF Numbered, ZmodemActive, fileVars, SetSendFiles
    <3>. QED BY <3>1, <3>2, <3>3, FilesKept DEF Running
  <2>. QED BY <2>1, <2>2
<1>7. CASE Data
  <2>1. RunType' /\ Watched'
    BY <1>7 DEF Running, RunType, Watched, ZmodemActive, Data, Chunk, Rearmed
  <2>2. Stopped'
    BY <1>7 DEF Running, RunType, Stopped, ZmodemActive, Data, Chunk, Rearmed
  <2>3. /\ UNCHANGED <<stream, ending, open, late>> /\ made' \in made .. MaxFiles
        /\ (zmodemState' \in ZmodemActive \/ UNCHANGED zmodemState)
    BY <1>7 DEF Numbered, ZmodemActive, fileVars, Data, Chunk, Rearmed
  <2>. QED BY <2>1, <2>2, <2>3, FilesKept DEF Running
<1>8. CASE ReceiveFileStart
  <2>1. CASE Abort
    <3>1. EndZmodem(FALSE) /\ late' = late
      BY <1>8, <2>1 DEF Abort, ReceiveFileStart, Chunk
    <3>2. made' \in made .. MaxFiles
      BY <1>8 DEF Numbered, ReceiveFileStart
    <3>3. chunks' \in 0 .. MaxChunks
      BY <1>8 DEF Running, RunType, ReceiveFileStart, Chunk
    <3>. QED BY <3>1, <3>2, <3>3, EndZmodemKeeps
  <2>2. CASE ~Abort
    <3>1. /\ stream = 0 /\ made < MaxFiles /\ made' = made + 1 /\ stream' = made + 1
          /\ open' = open \cup {made + 1} /\ UNCHANGED <<ending, late, zmodemState>>
      BY <1>8, <2>2 DEF ReceiveFileStart, Chunk
    <3>2. Running'
      BY <1>8, <2>2 DEF ReceiveFileStart, Chunk, Rearmed, Running, RunType, Stopped, Watched, ZmodemActive
    <3>3. made + 1 \notin ending /\ zmodemState \in ZmodemActive
      BY <1>8 DEF Numbered, ReceiveFileStart, ZmodemActive
    <3>4. Numbered'
      BY <3>1, <3>3 DEF Numbered
    <3>5. Held'
      BY <3>1, <3>3 DEF Numbered, Held
    <3>. QED BY <3>2, <3>4, <3>5
  <2>. QED BY <2>1, <2>2
<1>9. CASE ReceiveFileComplete
  <2>1. /\ stream # 0 /\ stream' = 0 /\ ending' = ending \cup {stream}
        /\ UNCHANGED <<open, made, late, zmodemState>>
    BY <1>9 DEF ReceiveFileComplete, Chunk
  <2>2. Running'
    BY <1>9 DEF ReceiveFileComplete, Chunk, Rearmed, Running, RunType, Stopped, Watched, ZmodemActive
  <2>3. Held'
    BY <2>1 DEF Held
  <2>4. stream \in open \/ late
    BY <2>1 DEF Held
  <2>. QED BY <2>1, <2>2, <2>3, <2>4 DEF Numbered
<1>10. CASE SendData
  <2>1. CASE Abort
    <3>1. EndZmodem(FALSE) /\ late' = late
      BY <1>10, <2>1 DEF Abort, SendData, Chunk
    <3>2. made' \in made .. MaxFiles
      BY <1>10, <2>1 DEF Numbered, SendData, Chunk
    <3>3. chunks' \in 0 .. MaxChunks
      BY <1>10, <2>1 DEF Running, RunType, SendData, Chunk
    <3>. QED BY <3>1, <3>2, <3>3, EndZmodemKeeps
  <2>2. CASE ~(Abort)
    <3>1. RunType' /\ Watched'
      BY <1>10, <2>2 DEF Running, RunType, Watched, ZmodemActive, SendData, Chunk, Rearmed
    <3>2. Stopped'
      BY <1>10, <2>2 DEF Running, RunType, Stopped, ZmodemActive, SendData, Chunk, Rearmed
    <3>3. /\ UNCHANGED <<stream, ending, open, late>> /\ made' \in made .. MaxFiles
          /\ (zmodemState' \in ZmodemActive \/ UNCHANGED zmodemState)
      BY <1>10, <2>2 DEF Numbered, ZmodemActive, fileVars, SendData, Chunk, Rearmed
    <3>. QED BY <3>1, <3>2, <3>3, FilesKept DEF Running
  <2>. QED BY <2>1, <2>2
<1>11. CASE SendFileComplete
  <2>1. CASE Abort
    <3>1. EndZmodem(FALSE) /\ late' = late
      BY <1>11, <2>1 DEF Abort, SendFileComplete, SendNext, Chunk
    <3>2. made' \in made .. MaxFiles
      BY <1>11, <2>1 DEF Numbered, SendFileComplete, SendNext, Chunk
    <3>3. chunks' \in 0 .. MaxChunks
      BY <1>11, <2>1 DEF Running, RunType, SendFileComplete, SendNext, Chunk
    <3>. QED BY <3>1, <3>2, <3>3, EndZmodemKeeps
  <2>2. CASE ~(Abort)
    <3>1. RunType' /\ Watched'
      BY <1>11, <2>2 DEF Running, RunType, Watched, ZmodemActive, SendFileComplete, SendNext, Chunk
    <3>2. Stopped'
      BY <1>11, <2>2 DEF Running, RunType, Stopped, ZmodemActive, SendFileComplete, SendNext, Chunk
    <3>3. /\ UNCHANGED <<stream, ending, open, late>> /\ made' \in made .. MaxFiles
          /\ (zmodemState' \in ZmodemActive \/ UNCHANGED zmodemState)
      BY <1>11, <2>2 DEF Numbered, ZmodemActive, fileVars, SendFileComplete, SendNext, Chunk
    <3>. QED BY <3>1, <3>2, <3>3, FilesKept DEF Running
  <2>. QED BY <2>1, <2>2
<1>12. CASE SessionComplete \/ PeerCancels \/ PeerAborts
  <2>1. PICK clean \in BOOLEAN : EndZmodem(clean) /\ late' = late /\ made' = made
    BY <1>12 DEF SessionComplete, PeerCancels, PeerAborts, Abort, Chunk
  <2>2. chunks < MaxChunks /\ chunks' = chunks + 1
    BY <1>12 DEF SessionComplete, PeerCancels, PeerAborts, Chunk
  <2>3. made' \in made .. MaxFiles
    BY <2>1 DEF Numbered
  <2>4. chunks' \in 0 .. MaxChunks
    BY <2>2 DEF Running, RunType
  <2>. QED BY <2>1, <2>3, <2>4, EndZmodemKeeps
<1>13. CASE WatchdogFires \/ CancelZmodem \/ UserInterrupts
  <2>1. EndZmodem(FALSE) /\ late' = late /\ made' = made /\ chunks' = chunks
    BY <1>13 DEF WatchdogFires, CancelZmodem, UserInterrupts, Abort
  <2>2. made' \in made .. MaxFiles /\ chunks' \in 0 .. MaxChunks
    BY <2>1 DEF Numbered, Running, RunType
  <2>. QED BY <2>1, <2>2, EndZmodemKeeps
<1>14. CASE DestroyZmodem
  <2>1. /\ stream' = 0 /\ open' = open \ {stream} /\ zmodemState' = "none"
        /\ UNCHANGED <<ending, made, late>>
    BY <1>14 DEF DestroyZmodem
  <2>2. Running'
    <3>1. /\ zmodemState' = "none" /\ watchdog' = "off" /\ carry' = 0 /\ files' = 0 /\ fd' = FALSE
          /\ window' = 0 /\ chunks' = chunks
      BY <1>14 DEF DestroyZmodem, EndedFd
    <3>2. RunType' /\ Watched'
      BY <3>1 DEF Running, RunType, Watched, ZmodemActive
    <3>. QED BY <3>1, <3>2 DEF Running, Stopped
  <2>3. Numbered'
    BY <2>1 DEF Numbered, ZmodemActive
  <2>4. Held'
    BY <2>1 DEF Held, Numbered
  <2>. QED BY <2>2, <2>3, <2>4
<1>15. ASSUME NEW i \in 1 .. MaxFiles, StreamFinishes(i) PROVE SessionOK'
  <2>1. /\ i \in ending /\ ending' = ending \ {i} /\ open' = open \ {i}
        /\ UNCHANGED <<stream, made, late, zmodemState>>
    BY <1>15 DEF StreamFinishes
  <2>2. Running'
    BY <1>15 DEF StreamFinishes, Running, RunType, Stopped, Watched, ZmodemActive
  <2>3. Numbered'
    BY <2>1 DEF Numbered
  <2>4. Held'
    BY <2>1 DEF Held, Numbered
  <2>. QED BY <2>2, <2>3, <2>4
<1>16. ASSUME NEW i \in 1 .. MaxFiles, StreamFails(i) PROVE SessionOK'
  BY <1>16, FailKeeps
<1>17. CASE UNCHANGED zmodemVars
  <2>1. RunType' /\ Watched'
    BY <1>17 DEF Running, RunType, Watched, ZmodemActive, zmodemVars
  <2>2. Stopped'
    BY <1>17 DEF Running, RunType, Stopped, ZmodemActive, zmodemVars
  <2>3. /\ UNCHANGED <<stream, ending, open, late>> /\ made' \in made .. MaxFiles
        /\ (zmodemState' \in ZmodemActive \/ UNCHANGED zmodemState)
    BY <1>17 DEF Numbered, ZmodemActive, fileVars, zmodemVars
  <2>. QED BY <2>1, <2>2, <2>3, FilesKept DEF Running
<1>. QED
  BY <1>1, <1>2, <1>3, <1>4, <1>5, <1>6, <1>7, <1>8, <1>9, <1>10, <1>11, <1>12, <1>13, <1>14,
     <1>15, <1>16, <1>17 DEF ZmodemNext
-----------------------------------------------------------------------------
(* The screen.                                                             *)

\* A set of natural numbers that is not empty has a least element: among the initial
\* segments below its elements there is one that contains no other.
LEMMA LeastElement ==
    ASSUME NEW S \in SUBSET Nat, S # {}
    PROVE  \E m \in S : \A k \in S : m <= k
<1>. PICK n \in S : TRUE
  OBVIOUS
<1>. DEFINE T == {0 .. k : k \in {j \in S : j <= n}}
<1>1. T \subseteq FiniteSubsetsOf(0 .. n)
  <2>. SUFFICES ASSUME NEW k \in S, k <= n PROVE 0 .. k \in FiniteSubsetsOf(0 .. n)
    OBVIOUS
  <2>1. IsFiniteSet(0 .. k)
    BY FS_Interval
  <2>. QED BY <2>1 DEF FiniteSubsetsOf
<1>2. T # {}
  <2>1. 0 .. n \in T
    OBVIOUS
  <2>. QED BY <2>1
<1>3. PICK A \in T : \A B \in T : <<B, A>> \notin StrictSubsetOrdering(0 .. n)
  <2>. HIDE DEF T
  <2>. QED BY <1>1, <1>2, FS_StrictSubsetOrderingWellFounded, WFMin, Zenon
<1>4. PICK m \in S : m <= n /\ A = 0 .. m
  OBVIOUS
<1>5. ASSUME NEW k \in S, k < m PROVE FALSE
  <2>1. 0 .. k \in T
    BY <1>4, <1>5
  <2>2. 0 .. k \subseteq 0 .. m /\ 0 .. k # 0 .. m
    BY <1>5, m \in 0 .. m, m \notin 0 .. k
  <2>3. 0 .. k \in SUBSET (0 .. n) /\ 0 .. m \in SUBSET (0 .. n)
    BY <1>4, <1>5
  <2>4. <<0 .. k, A>> \in StrictSubsetOrdering(0 .. n)
    BY <2>2, <2>3, <1>4 DEF StrictSubsetOrdering
  <2>. QED BY <2>1, <2>4, <1>3
<1>. QED BY <1>5

\* The header that is found first is one of those that are there.
LEMMA FirstIsHit ==
    ASSUME NEW from \in Nat, NEW to \in Nat, Hits(from, to) # {}
    PROVE  First(Hits(from, to)) \in Hits(from, to)
<1>. DEFINE hits == Hits(from, to)
<1>1. hits \in SUBSET Nat /\ hits # {}
  BY DEF Hits
<1>. HIDE DEF hits
<1>2. \E i \in hits : \A j \in hits : i <= j
  BY <1>1, LeastElement
<1>3. First(hits) \in hits
  BY <1>2 DEF First
<1>. QED BY <1>3 DEF hits

\* What is kept of a chunk is part of it, and shorter than a header.
LEMMA PartialIsShort ==
    ASSUME NEW from \in Int, NEW to \in Int, from <= to + 1
    PROVE  Partial(from, to) \in 0 .. 4 /\ Partial(from, to) <= to - from + 1
<1>. DEFINE fits == {k \in 1 .. 5 : /\ k <= to - from + 1 /\ k <= Len(Header)
                                    /\ \A j \in 1 .. k : wire[to - k + j] = Header[j]}
<1>1. Len(Header) = 4
  BY DEF Header
<1>2. \A k \in fits : k \in {1, 2, 3, 4} /\ k <= to - from + 1
  BY <1>1
<1>3. Partial(from, to) = CHOOSE k \in fits \cup {0} : \A l \in fits : l <= k
  BY DEF Partial
<1>. HIDE DEF fits
<1>4. \E k \in fits \cup {0} : \A l \in fits : l <= k
  <2>1. CASE 4 \in fits
    BY <2>1, <1>2
  <2>2. CASE 4 \notin fits /\ 3 \in fits
    BY <2>2, <1>2
  <2>3. CASE 4 \notin fits /\ 3 \notin fits /\ 2 \in fits
    BY <2>3, <1>2
  <2>4. CASE 4 \notin fits /\ 3 \notin fits /\ 2 \notin fits /\ 1 \in fits
    BY <2>4, <1>2
  <2>5. CASE 4 \notin fits /\ 3 \notin fits /\ 2 \notin fits /\ 1 \notin fits
    BY <2>5, <1>2
  <2>. QED BY <2>1, <2>2, <2>3, <2>4, <2>5
<1>5. Partial(from, to) \in fits \cup {0}
  BY <1>3, <1>4
<1>. QED BY <1>5, <1>2

LEMMA PositionsRise ==
    ASSUME NEW from \in Nat \ {0}, NEW to \in Int, NEW N \in Nat, to <= N
    PROVE  /\ Positions(from, to) \in Seq(1 .. N)
           /\ \A i \in 1 .. Len(Positions(from, to)) :
                 Positions(from, to)[i] = from + i - 1 /\ Positions(from, to)[i] <= to
<1>. DEFINE n == IF to < from THEN 0 ELSE to - from + 1
            s == [i \in 1 .. n |-> from + i - 1]
<1>1. n \in Nat /\ \A i \in 1 .. n : from + i - 1 \in 1 .. N /\ from + i - 1 <= to
  OBVIOUS
<1>2. s = Positions(from, to)
  BY DEF Positions
<1>. HIDE DEF n
<1>3. s \in [1 .. n -> 1 .. N] /\ \A i \in 1 .. n : s[i] = from + i - 1
  BY <1>1
<1>. HIDE DEF s
<1>4. s \in Seq(1 .. N)
  BY <1>1, <1>3, SeqDef
<1>5. Len(s) = n
  BY <1>1, <1>3, <1>4, LenProperties
<1>. QED BY <1>1, <1>2, <1>3, <1>4, <1>5

\* Two sequences that rise, the second from where the first ends, rise together.
LEMMA RiseOn ==
    ASSUME NEW N \in Nat, NEW s \in Seq(1 .. N), NEW t \in Seq(1 .. N), NEW p \in Nat, NEW q \in Nat,
           p <= q,
           \A i \in 1 .. Len(s) : s[i] <= p, \A i, j \in 1 .. Len(s) : i < j => s[i] < s[j],
           \A i \in 1 .. Len(t) : t[i] = p + i /\ t[i] <= q
    PROVE  /\ s \o t \in Seq(1 .. N)
           /\ \A i \in 1 .. Len(s \o t) : (s \o t)[i] <= q
           /\ \A i, j \in 1 .. Len(s \o t) : i < j => (s \o t)[i] < (s \o t)[j]
<1>. DEFINE m == Len(s)
            n == Len(t)
            u == s \o t
<1>1. m \in Nat /\ n \in Nat
  BY LenProperties
<1>2. u \in Seq(1 .. N) /\ Len(u) = m + n
  BY ConcatProperties
<1>3. \A i \in 1 .. m + n : u[i] = IF i <= m THEN s[i] ELSE t[i - m]
  BY ConcatProperties
<1>4. \A i \in 1 .. m : s[i] \in Nat /\ s[i] <= p
  BY ElementOfSeq
<1>5. \A i, j \in 1 .. m : i < j => s[i] < s[j]
  OBVIOUS
<1>6. \A i \in 1 .. n : t[i] = p + i /\ t[i] <= q
  OBVIOUS
<1>. HIDE DEF m, n, u
<1>7. \A i \in 1 .. m : u[i] = s[i]
  BY <1>1, <1>3
<1>8. \A i \in 1 .. m + n : i > m => u[i] = p + (i - m) /\ u[i] <= q
  <2>. SUFFICES ASSUME NEW i \in 1 .. m + n, i > m
                PROVE  u[i] = p + (i - m) /\ u[i] <= q
    OBVIOUS
  <2>1. i - m \in 1 .. n
    BY <1>1
  <2>2. u[i] = t[i - m]
    BY <1>1, <1>3
  <2>. QED BY <2>1, <2>2, <1>6
<1>9. \A i \in 1 .. m + n : u[i] <= q
  <2>. SUFFICES ASSUME NEW i \in 1 .. m + n PROVE u[i] <= q
    OBVIOUS
  <2>1. CASE i <= m
    BY <2>1, <1>1, <1>4, <1>7
  <2>2. CASE i > m
    BY <2>2, <1>8
  <2>. QED BY <2>1, <2>2, <1>1
<1>10. \A i, j \in 1 .. m + n : i < j => u[i] < u[j]
  <2>. SUFFICES ASSUME NEW i \in 1 .. m + n, NEW j \in 1 .. m + n, i < j
                PROVE  u[i] < u[j]
    OBVIOUS
  <2>1. CASE j <= m
    <3>1. i \in 1 .. m /\ j \in 1 .. m
      BY <2>1, <1>1
    <3>. QED BY <3>1, <1>5, <1>7
  <2>2. CASE i <= m /\ j > m
    <3>1. i \in 1 .. m
      BY <2>2, <1>1
    <3>2. u[i] \in Nat /\ u[i] <= p
      BY <3>1, <1>4, <1>7
    <3>3. u[j] = p + (j - m)
      BY <2>2, <1>8
    <3>. QED BY <2>2, <3>2, <3>3, <1>1
  <2>3. CASE i > m
    <3>1. u[i] = p + (i - m)
      BY <2>3, <1>8
    <3>2. u[j] = p + (j - m)
      BY <2>3, <1>1, <1>8
    <3>. QED BY <3>1, <3>2, <1>1
  <2>. QED BY <2>1, <2>2, <2>3, <1>1
<1>. QED BY <1>2, <1>9, <1>10 DEF u

\* Whatever part of the bytes that arrived is shown behind what has been shown, the
\* screen stays in order.
LEMMA ShownGrows ==
    ASSUME ScreenOK, NEW to \in Int, to <= pos', pos' \in pos .. Len(wire), wire' = wire,
           shown' = shown \o Positions(pos + 1, to)
    PROVE  /\ shown' \in Seq(1 .. Len(wire'))
           /\ \A i \in 1 .. Len(shown') : shown'[i] <= pos'
           /\ ShownInOrder'
<1>. DEFINE N == Len(wire)
            more == Positions(pos + 1, to)
<1>1. N \in Nat
  <2>1. wire \in Seq({"t", "*", "Z", "B", "0", "1", "5"})
    BY ZmodemAssumption DEF ScreenOK, ScreenType
  <2>. QED BY <2>1, LenProperties
<1>2. pos \in Nat /\ pos' \in Nat /\ pos <= pos' /\ pos' <= N /\ to <= N /\ pos + 1 \in Nat \ {0}
  <2>1. pos \in 0 .. N
    BY DEF ScreenOK, ScreenType
  <2>. HIDE DEF N
  <2>2. pos' \in pos .. N
    BY DEF N
  <2>. QED BY <2>1, <2>2, <1>1
<1>3. shown \in Seq(1 .. N)
  BY DEF ScreenOK, ScreenType
<1>. HIDE DEF N, more
<1>4. /\ more \in Seq(1 .. N)
      /\ \A i \in 1 .. Len(more) : more[i] = pos + 1 + i - 1 /\ more[i] <= to
  BY <1>1, <1>2, PositionsRise DEF more
<1>5. Len(more) \in Nat
  BY <1>4, LenProperties
<1>6. \A i \in 1 .. Len(more) : more[i] = pos + i /\ more[i] <= pos'
  BY <1>2, <1>4, <1>5
<1>7. \A i \in 1 .. Len(shown) : shown[i] <= pos
  BY DEF ScreenOK, Arrived
<1>8. \A i, j \in 1 .. Len(shown) : i < j => shown[i] < shown[j]
  BY DEF ScreenOK, ShownInOrder
<1>9. shown' = shown \o more
  BY DEF more
<1>10. /\ shown \o more \in Seq(1 .. N)
       /\ \A i \in 1 .. Len(shown \o more) : (shown \o more)[i] <= pos'
       /\ \A i, j \in 1 .. Len(shown \o more) : i < j => (shown \o more)[i] < (shown \o more)[j]
  BY <1>1, <1>2, <1>3, <1>4, <1>6, <1>7, <1>8, RiseOn
<1>. QED BY <1>9, <1>10 DEF ShownInOrder, N

LEMMA WireLen == ASSUME ScreenOK PROVE Len(wire) \in Nat
<1>1. wire \in Seq({"t", "*", "Z", "B", "0", "1", "5"})
  BY ZmodemAssumption DEF ScreenOK, ScreenType
<1>. QED BY <1>1, LenProperties

LEMMA ScreenInit == ZmodemInit => ScreenOK
<1>. SUFFICES ASSUME ZmodemInit PROVE ScreenOK
  OBVIOUS
<1>1. wire \in Seq({"t", "*", "Z", "B", "0", "1", "5"})
  BY ZmodemAssumption DEF ZmodemInit
<1>2. Len(wire) \in Nat
  BY <1>1, LenProperties
<1>3. pos = 0 /\ tail = 0 /\ shown = <<>> /\ wire \in Wires
  BY DEF ZmodemInit
<1>4. Len(shown) = 0 /\ shown \in Seq(1 .. Len(wire))
  BY <1>3, EmptySeq
<1>. QED BY <1>2, <1>3, <1>4 DEF ScreenOK, ScreenType, Arrived, ShownInOrder

\* Steps that show nothing keep the tail or forget it.
LEMMA ScreenKept ==
    ASSUME ScreenOK, UNCHANGED <<wire, pos, shown>>, tail' = tail \/ tail' = 0
    PROVE  ScreenOK'
<1>1. wire' = wire /\ pos' = pos /\ shown' = shown
  OBVIOUS
<1>2. pos \in 0 .. Len(wire) /\ tail \in 0 .. 4 /\ tail <= pos
  BY DEF ScreenOK, ScreenType, Arrived
<1>3. tail' \in 0 .. 4 /\ tail' <= pos
  <2>. HIDE DEF ScreenOK
  <2>1. pos \in Nat
    BY <1>2, WireLen
  <2>. QED BY <1>2, <2>1
<1>. QED BY <1>1, <1>2, <1>3 DEF ScreenOK, ScreenType, Arrived, ShownInOrder

\* What arrives without being shown moves the position only.
LEMMA Dropped ==
    ASSUME ScreenOK, UNCHANGED <<wire, shown>>, pos' \in pos .. Len(wire), tail' = tail \/ tail' = 0
    PROVE  ScreenOK'
<1>1. wire' = wire /\ shown' = shown /\ Len(wire) \in Nat
  BY WireLen
<1>2. pos \in 0 .. Len(wire) /\ tail \in 0 .. 4 /\ tail <= pos
  BY DEF ScreenOK, ScreenType, Arrived
<1>3. tail' \in 0 .. 4 /\ tail' <= pos' /\ pos' \in 0 .. Len(wire) /\ pos <= pos' /\ pos \in Nat /\ pos' \in Nat
  BY <1>1, <1>2
<1>4. shown \in Seq(1 .. Len(wire)) /\ \A i \in 1 .. Len(shown) : shown[i] <= pos
  BY DEF ScreenOK, ScreenType, Arrived
<1>5. \A i \in 1 .. Len(shown) : shown[i] \in Nat
  BY <1>1, <1>4, ElementOfSeq
<1>6. \A i \in 1 .. Len(shown) : shown[i] <= pos'
  BY <1>3, <1>4, <1>5
<1>. QED BY <1>1, <1>3, <1>6 DEF ScreenOK, ScreenType, Arrived, ShownInOrder

\* A chunk that is shown, wholly or up to a header.
LEMMA Displayed ==
    ASSUME ScreenOK, UNCHANGED wire, pos' \in pos .. Len(wire), NEW to \in Int, to <= pos',
           shown' = shown \o Positions(pos + 1, to), tail' \in 0 .. 4, tail' <= pos'
    PROVE  ScreenOK'
<1>1. Len(wire) \in Nat /\ pos \in 0 .. Len(wire)
  BY WireLen DEF ScreenOK, ScreenType
<1>2. pos' \in 0 .. Len(wire')
  BY <1>1
<1>3. shown' \in Seq(1 .. Len(wire')) /\ ShownInOrder' /\ \A i \in 1 .. Len(shown') : shown'[i] <= pos'
  BY ShownGrows
<1>. QED BY <1>2, <1>3 DEF ScreenOK, ScreenType, Arrived

LEMMA IdleChunkShows ==
    ASSUME ScreenOK, NEW n \in 1 .. Len(wire), IdleChunk(n)
    PROVE  ScreenOK'
<1>. DEFINE from == pos - tail + 1
            hits == Hits(from, pos + n)
<1>1. /\ Len(wire) \in Nat /\ pos \in Nat /\ tail \in Nat /\ n \in Nat \ {0}
      /\ tail <= pos
  BY WireLen DEF ScreenOK, ScreenType, Arrived
<1>2. pos' = pos + n /\ pos + n <= Len(wire) /\ UNCHANGED wire
  BY DEF IdleChunk
<1>3. pos' \in pos .. Len(wire) /\ pos + n \in Nat /\ from \in Nat /\ from <= pos + n + 1
  BY <1>1, <1>2
<1>4. CASE hits = {}
  <2>. DEFINE to == pos + n
  <2>1. shown' = shown \o Positions(pos + 1, to) /\ tail' = Partial(from, to)
    BY <1>4 DEF IdleChunk
  <2>2. from \in Int /\ to \in Int /\ from <= to + 1 /\ to <= pos' /\ to - from + 1 <= pos'
    BY <1>1, <1>2, <1>3
  <2>. HIDE DEF from, to
  <2>3. Partial(from, to) \in 0 .. 4 /\ Partial(from, to) <= to - from + 1
    BY <2>2, PartialIsShort
  <2>4. pos' \in Nat
    BY <1>1, <1>2
  <2>5. tail' \in 0 .. 4 /\ tail' <= pos'
    BY <2>1, <2>2, <2>3, <2>4
  <2>. QED BY <2>1, <2>2, <2>5, <1>2, <1>3, Displayed
<1>5. CASE hits # {}
  <2>. DEFINE i == First(hits)
  <2>1. i \in hits
    BY <1>3, <1>5, FirstIsHit
  <2>2. i \in Nat /\ i <= pos + n
    BY <2>1, <1>3 DEF Hits
  <2>3. CASE wire[i + 5] = "5"
    <3>1. tail' = 0 /\ UNCHANGED shown
      BY <1>5, <2>3 DEF IdleChunk
    <3>. QED BY <3>1, <1>2, <1>3, Dropped
  <2>4. CASE wire[i + 5] # "5"
    <3>1. shown' = shown \o Positions(pos + 1, i - 1) /\ Start(wire[i + 5])
      BY <1>5, <2>4 DEF IdleChunk, FromNew
    <3>2. tail' = 0
      BY <3>1 DEF Start, StartReceiver, StartSender, Carried
    <3>. HIDE DEF i
    <3>3. i - 1 \in Int /\ i - 1 <= pos' /\ tail' \in 0 .. 4 /\ tail' <= pos'
      BY <2>2, <3>2, <1>1, <1>2
    <3>. QED BY <3>1, <3>3, <1>2, <1>3, Displayed
  <2>. QED BY <2>3, <2>4
<1>. QED BY <1>4, <1>5

LEMMA NoisyChunkShows ==
    ASSUME ScreenOK, NEW n \in 1 .. Len(wire), NoisyChunk(n)
    PROVE  ScreenOK'
<1>1. /\ Len(wire) \in Nat /\ pos \in Nat /\ n \in Nat \ {0}
      /\ tail \in 0 .. 4 /\ tail <= pos
  BY WireLen DEF ScreenOK, ScreenType, Arrived
<1>2. pos' = pos + n /\ pos + n <= Len(wire) /\ UNCHANGED wire /\ tail' = tail
  BY DEF NoisyChunk
<1>3. pos' \in pos .. Len(wire) /\ pos + n \in Int /\ pos + n <= pos' /\ tail' \in 0 .. 4 /\ tail' <= pos'
  BY <1>1, <1>2
<1>4. UNCHANGED shown \/ shown' = shown \o Positions(pos + 1, pos + n)
  BY DEF NoisyChunk
<1>5. CASE UNCHANGED shown
  BY <1>2, <1>3, <1>5, Dropped
<1>6. CASE shown' = shown \o Positions(pos + 1, pos + n)
  BY <1>2, <1>3, <1>6, Displayed
<1>. QED BY <1>4, <1>5, <1>6

LEMMA ScreenStep == ScreenOK /\ [ZmodemNext]_zmodemVars => ScreenOK'
<1>. SUFFICES ASSUME ScreenOK, [ZmodemNext]_zmodemVars PROVE ScreenOK'
  OBVIOUS
<1>1. CASE \E n \in 1 .. Len(wire) : IdleChunk(n) \/ NoisyChunk(n)
  BY <1>1, IdleChunkShows, NoisyChunkShows
<1>2. ASSUME NEW clean \in BOOLEAN, EndZmodem(clean)
      PROVE  tail' = 0
  BY <1>2 DEF EndZmodem, EndWith
<1>3. CASE Debris \/ Tick \/ SetSavePath \/ UNCHANGED zmodemVars
  <2>1. UNCHANGED <<wire, pos, tail, shown>>
    BY <1>3 DEF Debris, Tick, SetSavePath, zmodemVars, wireVars
  <2>. QED BY <2>1, ScreenKept
<1>4. CASE \/ BufferPending \/ Data \/ ReceiveFileStart \/ ReceiveFileComplete
           \/ SendData \/ SendFileComplete \/ SessionComplete \/ PeerCancels \/ PeerAborts
  <2>1. UNCHANGED <<wire, pos, shown>>
    BY <1>4 DEF BufferPending, Data, ReceiveFileStart, ReceiveFileComplete, SendData,
                SendFileComplete, SessionComplete, PeerCancels, PeerAborts, Chunk
  <2>2. tail' = tail \/ tail' = 0
    BY <1>2, <1>4 DEF BufferPending, Data, ReceiveFileStart, ReceiveFileComplete, SendData, SendNext,
                      SendFileComplete, SessionComplete, PeerCancels, PeerAborts, Abort
  <2>. QED BY <2>1, <2>2, ScreenKept
<1>5. CASE \E n \in 0 .. MaxFiles : SetSendFiles(n)
  <2>1. UNCHANGED <<wire, pos, shown>> /\ (tail' = tail \/ tail' = 0)
    BY <1>2, <1>5 DEF SetSendFiles, Abort
  <2>. QED BY <2>1, ScreenKept
<1>6. CASE WatchdogFires \/ CancelZmodem \/ UserInterrupts \/ DestroyZmodem
  <2>1. UNCHANGED <<wire, pos, shown>> /\ tail' = 0
    BY <1>2, <1>6 DEF WatchdogFires, CancelZmodem, UserInterrupts, DestroyZmodem, Abort
  <2>. QED BY <2>1, ScreenKept
<1>7. CASE \E i \in 1 .. MaxFiles : StreamFinishes(i) \/ StreamFails(i)
  <2>1. UNCHANGED <<wire, pos, shown>> /\ (tail' = tail \/ tail' = 0)
    BY <1>7 DEF StreamFinishes, StreamFails, EndWith, wireVars
  <2>. QED BY <2>1, ScreenKept
<1>. QED BY <1>1, <1>3, <1>4, <1>5, <1>6, <1>7 DEF ZmodemNext

-----------------------------------------------------------------------------
(* The theorems.                                                           *)

LEMMA ZmodemInvariant == ZmodemSpec => [](SessionOK /\ ScreenOK)
<1>1. ZmodemInit => SessionOK /\ ScreenOK
  BY SessionInit, ScreenInit
<1>2. SessionOK /\ ScreenOK /\ [ZmodemNext]_zmodemVars => (SessionOK /\ ScreenOK)'
  BY SessionStep, ScreenStep
<1>. QED BY <1>1, <1>2, PTL DEF ZmodemSpec

LEMMA InvariantSuffices == SessionOK /\ ScreenOK => ZmodemInv
<1>. SUFFICES ASSUME SessionOK, ScreenOK PROVE ZmodemInv
  OBVIOUS
<1>1. stream \in 0 .. MaxFiles /\ made \in 0 .. MaxFiles /\ open \subseteq 1 .. MaxFiles /\ ending \subseteq open
  BY Bounds DEF SessionOK, Numbered
<1>2. ZmodemTypeOK
  <2>1. wire \in Wires /\ pos \in 0 .. Len(wire) /\ tail \in 0 .. 4 /\ shown \in Seq(1 .. Len(wire))
    BY DEF ScreenOK, ScreenType
  <2>2. RunType /\ fd \in BOOLEAN /\ late \in BOOLEAN
    BY DEF SessionOK, Running, Stopped, Held
  <2>. QED BY <1>1, <2>1, <2>2 DEF ZmodemTypeOK, RunType
<1>3. Watched
  BY DEF SessionOK, Running
<1>4. Released
  <2>. SUFFICES ASSUME zmodemState \notin ZmodemActive
                PROVE  ~fd /\ stream = 0 /\ carry = 0 /\ files = 0 /\ (late \/ open = ending)
    BY DEF Released
  <2>1. stream = 0
    BY DEF SessionOK, Numbered
  <2>2. fd = FALSE /\ carry = 0 /\ files = 0
    BY DEF SessionOK, Running, Stopped
  <2>3. late \/ open = ending
    BY <2>1 DEF SessionOK, Held
  <2>. QED BY <2>1, <2>2, <2>3
<1>. QED BY <1>2, <1>3, <1>4 DEF ZmodemInv

\* Whatever the peer sends and the user does, a timer is armed exactly while a session
\* is active, and a session that is over has released what it opened.
THEOREM ZmodemInvHolds == ZmodemSpec => []ZmodemInv
BY ZmodemInvariant, InvariantSuffices, PTL

\* For any output, cut into any chunks, the browser is shown it in order, and no byte
\* of it twice: not the tail that is kept to find a header that is split.
THEOREM ShownInOrderHolds == ZmodemSpec => []ShownInOrder
<1>1. SessionOK /\ ScreenOK => ShownInOrder
  BY DEF ScreenOK
<1>. QED BY <1>1, ZmodemInvariant, PTL

-----------------------------------------------------------------------------
(* Trzsz.                                                                  *)

(* The inductive invariant.                                                *)

Ats == {"none", "config", "wait", "open", "copy", "close", "exit", "shut", "done"}
Files == {"none", "opening", "open", "late", "closed"}
RunRecord == [kind : Kinds \cup {"none"}, at : Ats, on : Runs \cup {0}, file : Files, told : 0 .. 1]

\* A run that has not begun has nothing; one that has not chosen files has none.
Fresh ==
    \A r \in Runs :
        /\ run[r].kind = "none" => run[r].at = "none" /\ run[r].told = 0
        /\ run[r].at \in {"none", "config", "wait"} => run[r].file = "none"

\* A completion waits for a run that has copied, which has not been told.
Told ==
    /\ pending # 0 => run[pending].at \in {"exit", "shut", "done"}
    /\ \A r \in Runs : run[r].told = 1 => run[r].at \in {"exit", "shut", "done"} /\ pending # r

\* The promises belong to runs that wait for them.
Waiting == \A k \in Kinds : waiter[k] # 0 => run[waiter[k]].kind = k /\ run[waiter[k]].at = "wait"

\* Transfers belong to runs that have begun.
Begun ==
    /\ transfer # 0 => run[transfer].kind # "none"
    /\ \A r \in Runs : run[r].on # 0 => run[run[r].on].kind # "none"

\* A session with a transfer is in progress, or its completion waits.
Busy ==
    /\ transfer # 0 => trzszState # "idle" \/ pending # 0
    /\ \A r \in Runs : run[r].kind = "send" /\ run[r].at \in {"exit", "shut"} /\ run[r].on = transfer
                       => transfer = 0 \/ pending # 0

\* The run that waits for files, and the one whose readers are listed, are of the
\* session there is; other files are not being opened.
Own ==
    /\ waiter["send"] # 0 => transfer = waiter["send"]
    /\ readers # 0 => transfer = readers
    /\ \A r \in Runs : /\ run[r].file \in {"opening", "open"} => readers = r
                       /\ run[r].kind = "send" /\ run[r].at \in {"config", "copy"}
                          => run[r].on = r \/ run[r].file = "late"

Orderly == Fresh /\ Told /\ Waiting /\ Begun
Shared == stolen \/ (Busy /\ Own)

TrzszIInv == TrzszTypeOK /\ HasTransfer /\ (transfer = 0 => readers = 0) /\ Orderly /\ Shared

-----------------------------------------------------------------------------
(* The end of a session.                                                   *)

\* What of a state TrzszTypeOK says, by field.
SessionType ==
    /\ trzszState \in {"idle", "sending", "receiving"}
    /\ transfer \in Runs \cup {0} /\ pending \in Runs \cup {0} /\ readers \in Runs \cup {0}
    /\ timer \in BOOLEAN
    /\ waiter \in [Kinds -> Runs \cup {0}] /\ chosen \in [Kinds -> BOOLEAN]
FlagType ==
    /\ cancelling \in BOOLEAN /\ gone \in BOOLEAN /\ stolen \in BOOLEAN
    /\ stopping \in {"no", "active", "idle"} /\ suppress \in {"off", "timed", "left"}

LEMMA Types == TrzszTypeOK <=> SessionType /\ FlagType /\ run \in [Runs -> RunRecord]
BY DEF TrzszTypeOK, SessionType, FlagType, RunRecord, Ats, Files

LEMMA RunsArePositive == 0 \notin Runs
BY TrzszAssumption DEF Runs

\* The runs after the end of a session, by field.
LEMMA EndedRuns ==
    ASSUME TrzszTypeOK
    PROVE  /\ Ended \in [Runs -> RunRecord]
           /\ \A q \in Runs :
                /\ Ended[q].kind = run[q].kind /\ Ended[q].on = run[q].on /\ Ended[q].told = run[q].told
                /\ Ended[q].at = (IF q = waiter["send"] THEN "done" ELSE run[q].at)
                /\ Ended[q].file = (IF q = readers THEN FileClosed(q) ELSE run[q].file)
<1>1. run \in [Runs -> RunRecord]
  BY Types
<1>2. \A q \in Runs : FileClosed(q) \in Files /\ FileClosed(q) \notin {"opening", "open"}
  BY <1>1 DEF FileClosed, Files, RunRecord
<1>3. \A q \in Runs : Ended[q] = RunEnded(q)
  BY DEF Ended
<1>4. \A q \in Runs :
         /\ RunEnded(q) \in RunRecord
         /\ RunEnded(q).kind = run[q].kind /\ RunEnded(q).on = run[q].on /\ RunEnded(q).told = run[q].told
         /\ RunEnded(q).at = (IF q = waiter["send"] THEN "done" ELSE run[q].at)
         /\ RunEnded(q).file = (IF q = readers THEN FileClosed(q) ELSE run[q].file)
  BY <1>1, <1>2, ZenonT(60) DEF RunEnded, RunRecord, Ats
<1>5. Ended \in [Runs -> RunRecord]
  BY <1>4 DEF Ended
<1>. QED BY <1>3, <1>4, <1>5

\* However a session ends, the fields agree again: nothing of it is left.
LEMMA EndTrzszKeeps ==
    ASSUME TrzszIInv, EndTrzsz, FlagType', stolen' = stolen,
           run' \in [Runs -> RunRecord],
           \A q \in Runs : run'[q].kind = run[q].kind /\ run'[q].on = run[q].on,
           \A q \in Runs : \/ run'[q].at = run[q].at /\ q # waiter["send"]
                           \/ run'[q].at = "done" /\ (q = waiter["send"] \/ run[q].at \notin {"none", "wait"}),
           \A q \in Runs : run'[q].told = run[q].told \/ q = pending,
           \A q \in Runs : run'[q].file = (IF q = readers THEN FileClosed(q) ELSE run[q].file)
    PROVE  TrzszIInv'
<1>. USE DEF TrzszIInv
<1>1. /\ trzszState' = "idle" /\ transfer' = 0 /\ pending' = 0 /\ timer' = FALSE /\ readers' = 0
      /\ waiter' = [waiter EXCEPT !["send"] = 0] /\ chosen' = [k \in Kinds |-> FALSE]
  BY DEF EndTrzsz, WaiterWoken
<1>2. SessionType /\ run \in [Runs -> RunRecord]
  BY Types
<1>3. waiter' \in [Kinds -> Runs \cup {0}] /\ waiter'["send"] = 0
      /\ waiter'["receive"] = waiter["receive"]
  BY <1>1, <1>2 DEF SessionType, Kinds
<1>4. TrzszTypeOK'
  <2>1. SessionType'
    BY <1>1, <1>3 DEF SessionType
  <2>. QED BY <2>1 DEF TrzszTypeOK, SessionType, FlagType, RunRecord, Ats, Files
<1>5. Fresh'
  <2>1. \A q \in Runs : run'[q].kind = "none" => run'[q].at = "none" /\ run'[q].told = 0
    <3>. SUFFICES ASSUME NEW q \in Runs, run'[q].kind = "none"
                  PROVE  run'[q].at = "none" /\ run'[q].told = 0
      OBVIOUS
    <3>1. run[q].kind = "none" /\ run[q].at = "none" /\ run[q].told = 0
      BY DEF Orderly, Fresh
    <3>2. q # pending
      BY <3>1, RunsArePositive DEF Orderly, Told
    <3>3. q # waiter["send"]
      BY <3>1, RunsArePositive DEF Orderly, Waiting, Kinds
    <3>. QED BY <3>1, <3>2, <3>3
  <2>2. \A q \in Runs : run'[q].at \in {"none", "config", "wait"} => run'[q].file = "none"
    BY DEF Orderly, Fresh, FileClosed
  <2>. QED BY <2>1, <2>2 DEF Fresh
<1>6. Told'
  <2>. SUFFICES ASSUME NEW q \in Runs, run'[q].told = 1
                PROVE  run'[q].at \in {"exit", "shut", "done"} /\ pending' # q
    BY <1>1 DEF Told
  <2>1. run[q].at \in {"exit", "shut", "done"}
    BY RunsArePositive DEF Orderly, Told
  <2>. QED BY <2>1, <1>1, RunsArePositive
<1>7. Waiting'
  <2>. SUFFICES ASSUME waiter["receive"] # 0
                PROVE  run'[waiter["receive"]].kind = "receive" /\ run'[waiter["receive"]].at = "wait"
    BY <1>3 DEF Waiting, Kinds
  <2>. DEFINE q == waiter["receive"]
  <2>1. q \in Runs /\ run[q].kind = "receive" /\ run[q].at = "wait"
    BY <1>2 DEF SessionType, Orderly, Waiting, Kinds
  <2>2. q # waiter["send"]
    BY <2>1, RunsArePositive DEF Orderly, Waiting, Kinds
  <2>3. run'[q].at = run[q].at
    BY <2>1, <2>2
  <2>. QED BY <2>1, <2>3
<1>8. Begun'
  BY <1>1, <1>2 DEF Orderly, Begun, RunRecord
<1>9. Shared'
  <2>. SUFFICES ASSUME ~stolen PROVE Busy' /\ Own'
    BY DEF Shared
  <2>1. Own
    BY DEF Shared
  <2>2. \A r \in Runs : run'[r].file \notin {"opening", "open"}
    BY <1>2, <2>1 DEF Own, FileClosed, RunRecord, Files
  <2>3. \A r \in Runs : run'[r].kind = "send" /\ run'[r].at \in {"config", "copy"}
                        => run'[r].on = r \/ run'[r].file = "late"
    BY <2>1 DEF Own, FileClosed
  <2>. QED BY <1>1, <1>3, <2>2, <2>3 DEF Busy, Own
<1>. QED BY <1>1, <1>4, <1>5, <1>6, <1>7, <1>8, <1>9 DEF HasTransfer, Orderly

\* A run that begins anew at the end of another session keeps what the end leaves.
LEMMA EndWithRun ==
    ASSUME TrzszIInv, EndTrzsz, FlagType', stolen' = stolen, NEW r \in Runs,
           run[r].at \notin {"none", "wait"}, run' = [Ended EXCEPT ![r].at = "done"]
    PROVE  TrzszIInv'
<1>1. TrzszTypeOK
  BY DEF TrzszIInv
<1>2. run' \in [Runs -> RunRecord]
  BY <1>1, EndedRuns DEF RunRecord, Ats
<1>3. \A q \in Runs : /\ run'[q].kind = Ended[q].kind /\ run'[q].on = Ended[q].on
                      /\ run'[q].told = Ended[q].told /\ run'[q].file = Ended[q].file
                      /\ run'[q].at = IF q = r THEN "done" ELSE Ended[q].at
  BY <1>1, EndedRuns DEF RunRecord
<1>. QED BY <1>1, <1>2, <1>3, EndedRuns, EndTrzszKeeps

\* The end of a session whose completion is told.
LEMMA EndTells ==
    ASSUME TrzszIInv, EndTrzsz, FlagType', stolen' = stolen, pending # 0, NEW silent \in BOOLEAN,
           run' = [Ended EXCEPT ![pending].told = IF silent THEN @ ELSE @ + 1]
    PROVE  TrzszIInv'
<1>1. TrzszTypeOK /\ pending \in Runs
  BY Types DEF TrzszIInv, SessionType
<1>2. Ended[pending].told = 0
  <2>1. run[pending].told # 1
    BY <1>1 DEF TrzszIInv, Orderly, Told
  <2>. QED BY <1>1, <2>1, EndedRuns DEF RunRecord
<1>3. run' \in [Runs -> RunRecord]
  BY <1>1, <1>2, EndedRuns DEF RunRecord
<1>4. \A q \in Runs : /\ run'[q].kind = Ended[q].kind /\ run'[q].on = Ended[q].on
                      /\ run'[q].at = Ended[q].at /\ run'[q].file = Ended[q].file
                      /\ run'[q].told = Ended[q].told \/ q = pending
  BY <1>1, EndedRuns DEF RunRecord
<1>5. \A q \in Runs : run'[q].kind = run[q].kind /\ run'[q].on = run[q].on
  BY <1>1, <1>4, EndedRuns
<1>6. \A q \in Runs : \/ run'[q].at = run[q].at /\ q # waiter["send"]
                      \/ run'[q].at = "done" /\ (q = waiter["send"] \/ run[q].at \notin {"none", "wait"})
  BY <1>1, <1>4, EndedRuns
<1>7. \A q \in Runs : run'[q].told = run[q].told \/ q = pending
  BY <1>1, <1>4, EndedRuns
<1>8. \A q \in Runs : run'[q].file = (IF q = readers THEN FileClosed(q) ELSE run[q].file)
  BY <1>1, <1>4, EndedRuns
<1>. QED BY <1>3, <1>5, <1>6, <1>7, <1>8, EndTrzszKeeps

\* Without a run to mention.
LEMMA EndAlone ==
    ASSUME TrzszIInv, EndTrzsz, FlagType', stolen' = stolen, run' = Ended
    PROVE  TrzszIInv'
<1>1. TrzszTypeOK
  BY DEF TrzszIInv
<1>. QED BY <1>1, EndedRuns, EndTrzszKeeps

\* Steps that leave the session and its runs alone.
LEMMA Quiet ==
    ASSUME TrzszIInv, FlagType',
           UNCHANGED <<trzszState, transfer, pending, timer, waiter, chosen, readers, stolen, run>>
    PROVE  TrzszIInv'
<1>1. TrzszTypeOK'
  BY DEF TrzszIInv, TrzszTypeOK, FlagType
<1>2. (HasTransfer /\ (transfer = 0 => readers = 0) /\ Orderly /\ Shared)'
  BY DEF TrzszIInv, HasTransfer, Orderly, Fresh, Told, Waiting, Begun, Shared, Busy, Own
<1>. QED BY <1>1, <1>2 DEF TrzszIInv

LEMMA SuppressType == suppress \in {"off", "timed", "left"} => SuppressLeft \in {"off", "timed", "left"}
BY DEF SuppressLeft

\* The steps that end a session.
LEMMA EndingSteps ==
    ASSUME TrzszIInv,
           TimerFires \/ Success \/ Saved \/ CancelTrzsz \/ CancelEnds \/ CancelIdle \/ SuppressEnds \/ DestroyTrzsz
    PROVE  TrzszIInv'
<1>1. FlagType
  BY Types DEF TrzszIInv
<1>. USE SuppressType
<1>2. CASE TimerFires
  <2>1. FlagType' /\ stolen' = stolen
    BY <1>1, <1>2 DEF TimerFires, EndTold, FlagType
  <2>2. CASE pending # 0
    <3>1. EndTrzsz /\ run' = [Ended EXCEPT ![pending].told = IF gone THEN @ ELSE @ + 1]
      BY <1>2, <2>2 DEF TimerFires, EndTold, Overdue
    <3>2. gone \in BOOLEAN
      BY <1>1 DEF FlagType
    <3>. QED BY <2>1, <2>2, <3>1, <3>2, EndTells
  <2>3. CASE pending = 0
    <3>1. UNCHANGED <<trzszState, transfer, pending, waiter, chosen, readers, run>> /\ timer' = FALSE
      BY <1>2, <2>3 DEF TimerFires, Overdue
    <3>2. TrzszTypeOK'
      BY <2>1, <3>1 DEF TrzszIInv, TrzszTypeOK, FlagType
    <3>3. (HasTransfer /\ (transfer = 0 => readers = 0) /\ Orderly /\ Shared)'
      BY <2>1, <3>1 DEF TrzszIInv, HasTransfer, Orderly, Fresh, Told, Waiting, Begun, Shared, Busy, Own
    <3>. QED BY <3>2, <3>3 DEF TrzszIInv
  <2>. QED BY <2>2, <2>3
<1>3. CASE Success
  <2>1. EndTrzsz /\ run' = [Ended EXCEPT ![pending].told = @ + 1] /\ pending # 0
    BY <1>3 DEF Success
  <2>2. FlagType' /\ stolen' = stolen
    BY <1>1, <1>3 DEF Success, FlagType
  <2>. QED BY <2>1, <2>2, EndTells, FALSE \in BOOLEAN
<1>4. CASE Saved \/ CancelEnds \/ CancelIdle \/ DestroyTrzsz
  <2>1. EndTrzsz /\ run' = Ended
    BY <1>4 DEF Saved, CancelEnds, CancelIdle, DestroyTrzsz
  <2>2. FlagType' /\ stolen' = stolen
    BY <1>1, <1>4 DEF Saved, CancelEnds, CancelIdle, DestroyTrzsz, FlagType
  <2>. QED BY <2>1, <2>2, EndAlone
<1>5. CASE CancelTrzsz \/ SuppressEnds
  BY <1>1, <1>5, Quiet DEF CancelTrzsz, SuppressEnds, FlagType, session
<1>. QED BY <1>2, <1>3, <1>4, <1>5

-----------------------------------------------------------------------------
(* The coroutines.                                                         *)

\* A run goes on by itself; what it becomes must be its session's if none was stolen.
LEMMA RunMoves ==
    ASSUME TrzszIInv, FlagType', UNCHANGED <<trzszState, transfer, pending, timer, waiter, chosen, readers, stolen>>,
           NEW r \in Runs, run[r].at \notin {"none", "wait"},
           run' \in [Runs -> RunRecord], \A q \in Runs \ {r} : run'[q] = run[q],
           run'[r].kind = run[r].kind, run'[r].told = run[r].told,
           run'[r].at \in {"open", "copy", "close", "exit", "shut", "done"},
           run[r].at \in {"exit", "shut", "done"} => run'[r].at \in {"exit", "shut", "done"},
           run'[r].on \in {run[r].on, transfer},
           ~stolen => /\ run'[r].file \in {"opening", "open"} => readers = r
                      /\ run'[r].kind = "send" /\ run'[r].at = "copy" => run'[r].on = r \/ run'[r].file = "late"
                      /\ run'[r].kind = "send" /\ run'[r].at \in {"exit", "shut"} /\ run'[r].on = transfer
                         => transfer = 0 \/ pending # 0
    PROVE  TrzszIInv'
<1>. USE DEF TrzszIInv
<1>1. SessionType /\ run \in [Runs -> RunRecord]
  BY Types
<1>2. TrzszTypeOK'
  <2>1. SessionType'
    BY <1>1 DEF SessionType
  <2>. QED BY <2>1 DEF TrzszTypeOK, SessionType, FlagType, RunRecord, Ats, Files
<1>3. \A q \in Runs : run'[q].kind = run[q].kind /\ run'[q].told = run[q].told
  OBVIOUS
<1>4. Fresh'
  BY <1>3 DEF Orderly, Fresh
<1>5. Told'
  BY <1>1, <1>3, RunsArePositive DEF Orderly, Told, SessionType
<1>6. Waiting'
  BY <1>1, <1>3, RunsArePositive DEF Orderly, Waiting, SessionType, Kinds
<1>7. Begun'
  <2>1. transfer # 0 => run'[transfer].kind # "none"
    BY <1>1, <1>3 DEF Orderly, Begun, SessionType
  <2>2. ASSUME NEW q \in Runs, run'[q].on # 0
        PROVE  run'[run'[q].on].kind # "none"
    <3>1. run'[q].on = run[q].on \/ run'[q].on = transfer
      BY <2>2
    <3>2. run'[q].on \in Runs
      BY <2>2, RunsArePositive DEF RunRecord
    <3>. QED BY <2>1, <2>2, <3>1, <3>2, <1>3 DEF Orderly, Begun
  <2>. QED BY <2>1, <2>2 DEF Begun
<1>8. Shared'
  <2>. SUFFICES ASSUME ~stolen PROVE Busy' /\ Own'
    BY DEF Shared
  <2>1. Busy /\ Own
    BY DEF Shared
  <2>2. Busy'
    <3>. SUFFICES ASSUME NEW q \in Runs, run'[q].kind = "send", run'[q].at \in {"exit", "shut"}, run'[q].on = transfer
                  PROVE  transfer = 0 \/ pending # 0
      BY <2>1 DEF Busy
    <3>1. CASE q = r
      BY <3>1
    <3>2. CASE q # r
      BY <3>2, <2>1 DEF Busy
    <3>. QED BY <3>1, <3>2
  <2>3. Own'
    <3>. SUFFICES ASSUME NEW q \in Runs
                  PROVE  /\ run'[q].file \in {"opening", "open"} => readers = q
                         /\ run'[q].kind = "send" /\ run'[q].at \in {"config", "copy"}
                            => run'[q].on = q \/ run'[q].file = "late"
      BY <2>1 DEF Own
    <3>1. CASE q = r
      BY <3>1
    <3>2. CASE q # r
      BY <3>2, <2>1 DEF Own
    <3>. QED BY <3>1, <3>2
  <2>. QED BY <2>2, <2>3
<1>. QED BY <1>2, <1>4, <1>5, <1>6, <1>7, <1>8 DEF HasTransfer, Orderly

LEMMA Failing ==
    ASSUME TrzszIInv, NEW r \in Runs, Fails(r)
    PROVE  TrzszIInv'
<1>1. FlagType /\ run \in [Runs -> RunRecord]
  BY Types DEF TrzszIInv
<1>2. FlagType' /\ stolen' = stolen
  BY <1>1, SuppressType DEF Fails, Catch, FlagType
<1>3. run[r].at \in {"config", "open", "copy", "close", "exit", "shut"}
  BY DEF Fails
<1>4. CASE EndTrzsz /\ run' = [Ended EXCEPT ![r].at = "done"]
  BY <1>2, <1>3, <1>4, EndWithRun
<1>5. CASE run' = [run EXCEPT ![r].at = "done"] /\ UNCHANGED session
  <2>1. run' \in [Runs -> RunRecord] /\ \A q \in Runs \ {r} : run'[q] = run[q]
    BY <1>1, <1>5 DEF RunRecord, Ats
  <2>2. /\ run'[r].kind = run[r].kind /\ run'[r].told = run[r].told /\ run'[r].on = run[r].on
        /\ run'[r].at = "done" /\ run'[r].file = run[r].file
    BY <1>1, <1>5 DEF RunRecord
  <2>3. ~stolen /\ run[r].file \in {"opening", "open"} => readers = r
    BY DEF TrzszIInv, Shared, Own
  <2>4. UNCHANGED <<trzszState, transfer, pending, timer, waiter, chosen, readers>>
    BY <1>5 DEF session
  <2>. QED BY <1>2, <1>3, <2>1, <2>2, <2>3, <2>4, RunMoves
<1>. QED BY <1>4, <1>5 DEF Fails, Catch

LEMMA Opening ==
    ASSUME TrzszIInv, NEW r \in Runs, Opened(r)
    PROVE  TrzszIInv'
<1>1. FlagType /\ run \in [Runs -> RunRecord] /\ transfer \in Runs \cup {0}
  BY Types DEF TrzszIInv, SessionType
<1>2. FlagType' /\ UNCHANGED <<trzszState, transfer, pending, timer, waiter, chosen, readers, stolen>>
  BY <1>1 DEF Opened, FlagType, session
<1>3. run[r].at = "open" /\ run[r].file \in {"opening", "late"} /\ transfer # 0
  BY DEF Opened
<1>4. /\ run' \in [Runs -> RunRecord] /\ \A q \in Runs \ {r} : run'[q] = run[q]
      /\ run'[r].kind = run[r].kind /\ run'[r].told = run[r].told
      /\ run'[r].at = "copy" /\ run'[r].on = transfer
      /\ run'[r].file = (IF run[r].file = "opening" THEN "open" ELSE run[r].file)
  BY <1>1, ZenonT(60) DEF Opened, RunRecord, Ats, Files
<1>5. CASE run[r].file = "late"
  <2>1. run'[r].file = "late"
    BY <1>4, <1>5
  <2>. QED BY <1>2, <1>3, <1>4, <2>1, RunMoves
<1>6. CASE run[r].file = "opening"
  <2>1. ~stolen => readers = r /\ transfer = r
    BY <1>6, RunsArePositive DEF TrzszIInv, Shared, Own
  <2>. QED BY <1>2, <1>3, <1>4, <2>1, RunMoves
<1>. QED BY <1>3, <1>5, <1>6

LEMMA Receiving ==
    ASSUME TrzszIInv, NEW r \in Runs, Received(r) \/ ReceiveReturns(r)
    PROVE  TrzszIInv'
<1>1. FlagType /\ run \in [Runs -> RunRecord]
  BY Types DEF TrzszIInv
<1>2. FlagType' /\ UNCHANGED <<trzszState, transfer, pending, timer, waiter, chosen, readers, stolen>>
  BY <1>1 DEF Received, ReceiveReturns, FlagType, session
<1>3. run[r].at \in {"copy", "exit"} /\ run[r].kind = "receive"
  BY DEF Received, ReceiveReturns
<1>4. /\ run' \in [Runs -> RunRecord] /\ \A q \in Runs \ {r} : run'[q] = run[q]
      /\ run'[r].kind = run[r].kind /\ run'[r].told = run[r].told /\ run'[r].on = run[r].on
      /\ run'[r].file = run[r].file
      /\ run'[r].at = IF run[r].at = "copy" THEN "close" ELSE "done"
  BY <1>1 DEF Received, ReceiveReturns, RunRecord, Ats
<1>5. ~stolen /\ run[r].file \in {"opening", "open"} => readers = r
  BY DEF TrzszIInv, Shared, Own
<1>. QED BY <1>2, <1>3, <1>4, <1>5, RunMoves

\* A copy is done, and its completion waits.
LEMMA Completing ==
    ASSUME TrzszIInv, FlagType', UNCHANGED <<transfer, waiter, chosen, readers, stolen>>,
           NEW r \in Runs, pending' = r, timer' = TRUE, trzszState' \in {trzszState, "idle"},
           run[r].at \in {"copy", "close"}, NEW a \in {"exit", "done"}, run' = [run EXCEPT ![r].at = a]
    PROVE  TrzszIInv'
<1>. USE DEF TrzszIInv
<1>1. SessionType /\ run \in [Runs -> RunRecord] /\ r # 0
  BY Types, RunsArePositive
<1>2. /\ run' \in [Runs -> RunRecord]
      /\ \A q \in Runs : /\ run'[q].kind = run[q].kind /\ run'[q].told = run[q].told
                         /\ run'[q].on = run[q].on /\ run'[q].file = run[q].file
                         /\ run'[q].at = IF q = r THEN a ELSE run[q].at
  BY <1>1 DEF RunRecord, Ats
<1>3. TrzszTypeOK'
  <2>1. SessionType'
    BY <1>1 DEF SessionType
  <2>. QED BY <1>2, <2>1 DEF TrzszTypeOK, SessionType, FlagType, RunRecord, Ats, Files
<1>4. HasTransfer'
  BY DEF HasTransfer
<1>5. Fresh'
  BY <1>2 DEF Orderly, Fresh
<1>6. Told'
  BY <1>1, <1>2 DEF Orderly, Told
<1>7. Waiting'
  BY <1>1, <1>2, RunsArePositive DEF Orderly, Waiting, SessionType, Kinds
<1>8. Begun'
  BY <1>1, <1>2, RunsArePositive DEF Orderly, Begun, SessionType, RunRecord
<1>9. Shared'
  <2>1. Busy'
    BY <1>1 DEF Busy
  <2>2. ~stolen => Own'
    BY <1>2 DEF Shared, Own
  <2>. QED BY <2>1, <2>2 DEF Shared
<1>. QED BY <1>3, <1>4, <1>5, <1>6, <1>7, <1>8, <1>9 DEF Orderly

LEMMA Completions ==
    ASSUME TrzszIInv, NEW r \in Runs, Sent(r) \/ Closed(r)
    PROVE  TrzszIInv'
<1>1. FlagType
  BY Types DEF TrzszIInv
<1>2. FlagType' /\ stolen' = stolen
  BY <1>1, SuppressType DEF Sent, Closed, FlagType
<1>3. run[r].at \in {"copy", "close"}
  BY DEF Sent, Closed
<1>4. CASE EndTrzsz /\ run' = [Ended EXCEPT ![r].at = "done"]
  BY <1>2, <1>3, <1>4, EndWithRun
<1>5. CASE /\ UNCHANGED <<transfer, waiter, chosen, readers>> /\ pending' = r /\ timer' = TRUE
           /\ trzszState' \in {trzszState, "idle"} /\ \E a \in {"exit", "done"} : run' = [run EXCEPT ![r].at = a]
  BY <1>2, <1>3, <1>5, Completing
<1>. QED
  <2>1. CASE Sent(r)
    BY <1>5, <2>1 DEF Sent
  <2>2. CASE Closed(r)
    BY <1>4, <1>5, <2>2 DEF Closed
  <2>. QED BY <2>1, <2>2

LEMMA Exiting ==
    ASSUME TrzszIInv, NEW r \in Runs, SendExits(r)
    PROVE  TrzszIInv'
<1>. USE DEF TrzszIInv
<1>1. SessionType /\ FlagType /\ run \in [Runs -> RunRecord]
  BY Types
<1>2. UNCHANGED <<trzszState, transfer, pending, timer, waiter, chosen, readers,
                  cancelling, stopping, suppress, gone, stolen>>
  BY DEF SendExits, session
<1>3. run[r].kind = "send" /\ run[r].at = "exit"
  BY DEF SendExits
<1>4. \A q \in Runs : FileClosed(q) \in Files /\ FileClosed(q) \notin {"opening", "open"}
                      /\ (run[q].file \in {"none", "late"} => FileClosed(q) = run[q].file)
  BY <1>1 DEF FileClosed, Files, RunRecord
<1>5. /\ run' \in [Runs -> RunRecord]
      /\ \A q \in Runs : /\ run'[q].kind = run[q].kind /\ run'[q].told = run[q].told /\ run'[q].on = run[q].on
                         /\ run'[q].file = (IF q = readers THEN FileClosed(q) ELSE run[q].file)
                         /\ run'[q].at = IF q = r THEN "shut" ELSE run[q].at
  <2>1. run' = [q \in Runs |-> [run[q] EXCEPT !.at = IF q = r THEN "shut" ELSE @,
                                             !.file = IF q = readers THEN FileClosed(q) ELSE @]]
    BY DEF SendExits
  <2>. QED BY <1>1, <1>4, <2>1, ZenonT(60) DEF RunRecord, Ats
<1>6. TrzszTypeOK'
  BY <1>1, <1>2, <1>5 DEF TrzszTypeOK, SessionType, FlagType, RunRecord, Ats, Files
<1>7. HasTransfer' /\ (transfer' = 0 => readers' = 0)
  BY <1>2 DEF HasTransfer
<1>8. Fresh'
  BY <1>3, <1>4, <1>5 DEF Orderly, Fresh
<1>9. Told'
  BY <1>1, <1>2, <1>3, <1>5, RunsArePositive DEF Orderly, Told, SessionType
<1>10. Waiting'
  BY <1>1, <1>2, <1>3, <1>5, RunsArePositive DEF Orderly, Waiting, SessionType, Kinds
<1>11. Begun'
  BY <1>1, <1>2, <1>5, RunsArePositive DEF Orderly, Begun, SessionType, RunRecord
<1>12. ~stolen => Busy'
  BY <1>2, <1>3, <1>5 DEF Shared, Busy
<1>13. ~stolen => Own'
  BY <1>2, <1>4, <1>5 DEF Shared, Own
<1>. QED BY <1>2, <1>6, <1>7, <1>8, <1>9, <1>10, <1>11, <1>12, <1>13 DEF Shared, Orderly

LEMMA Returning ==
    ASSUME TrzszIInv, NEW r \in Runs, SendReturns(r)
    PROVE  TrzszIInv'
<1>. USE DEF TrzszIInv
<1>1. SessionType /\ FlagType /\ run \in [Runs -> RunRecord]
  BY Types
<1>2. /\ UNCHANGED <<transfer, pending, timer, waiter, chosen, readers, cancelling, stopping, suppress, gone>>
      /\ trzszState' = "idle"
  BY DEF SendReturns
<1>3. run[r].kind = "send" /\ run[r].at = "shut"
  BY DEF SendReturns
<1>4. stolen' = (stolen \/ (trzszState # "idle" /\ transfer # run[r].on)) /\ stolen' \in BOOLEAN
  BY <1>1 DEF SendReturns, FlagType
<1>5. /\ run' \in [Runs -> RunRecord]
      /\ \A q \in Runs : /\ run'[q].kind = run[q].kind /\ run'[q].told = run[q].told
                         /\ run'[q].on = run[q].on /\ run'[q].file = run[q].file
                         /\ run'[q].at = IF q = r THEN "done" ELSE run[q].at
  BY <1>1 DEF SendReturns, RunRecord, Ats
<1>6. TrzszTypeOK'
  BY <1>1, <1>2, <1>4, <1>5 DEF TrzszTypeOK, SessionType, FlagType, RunRecord, Ats, Files
<1>7. HasTransfer' /\ (transfer' = 0 => readers' = 0)
  BY <1>2 DEF HasTransfer
<1>8. Fresh'
  BY <1>3, <1>5 DEF Orderly, Fresh
<1>9. Told'
  BY <1>1, <1>2, <1>3, <1>5, RunsArePositive DEF Orderly, Told, SessionType
<1>10. Waiting'
  BY <1>1, <1>2, <1>3, <1>5, RunsArePositive DEF Orderly, Waiting, SessionType, Kinds
<1>11. Begun'
  BY <1>1, <1>2, <1>5, RunsArePositive DEF Orderly, Begun, SessionType, RunRecord
<1>12. ASSUME ~stolen' PROVE Busy' /\ Own'
  <2>1. Busy /\ Own /\ (trzszState = "idle" \/ transfer = run[r].on)
    BY <1>4, <1>12 DEF Shared
  <2>2. transfer # 0 => pending # 0
    BY <2>1, <1>3 DEF Busy
  <2>. QED BY <2>1, <2>2, <1>2, <1>3, <1>5 DEF Busy, Own
<1>. QED BY <1>6, <1>7, <1>8, <1>9, <1>10, <1>11, <1>12 DEF Shared, Orderly

\* A trigger: unless a session was stolen, none is there.
LEMMA Triggering ==
    ASSUME TrzszIInv, NEW r \in Runs, NEW kind \in Kinds, Trigger(r, kind)
    PROVE  TrzszIInv'
<1>. USE DEF TrzszIInv
<1>1. SessionType /\ FlagType /\ run \in [Runs -> RunRecord] /\ r # 0
  BY Types, RunsArePositive
<1>2. /\ UNCHANGED <<pending, timer, waiter, chosen, readers, stopping, gone, stolen>>
      /\ trzszState' = TrzszActive(kind) /\ transfer' = r /\ cancelling' = FALSE /\ suppress' = "off"
  BY DEF Trigger
<1>3. run[r].kind = "none" /\ run[r].at = "none" /\ run[r].told = 0 /\ run[r].file = "none"
  BY DEF Trigger, Orderly, Fresh
<1>4. trzszState' \in {"sending", "receiving"} /\ kind # "none"
  BY <1>2 DEF TrzszActive, Kinds
<1>5. /\ run' \in [Runs -> RunRecord]
      /\ \A q \in Runs \ {r} : run'[q] = run[q]
      /\ run'[r].kind = kind /\ run'[r].at = "config" /\ run'[r].on = r
      /\ run'[r].told = run[r].told /\ run'[r].file = run[r].file
  BY <1>1 DEF Trigger, RunRecord, Ats
<1>6. TrzszTypeOK'
  BY <1>1, <1>2, <1>4, <1>5 DEF TrzszTypeOK, SessionType, FlagType, RunRecord, Ats, Files
<1>7. HasTransfer' /\ (transfer' = 0 => readers' = 0)
  BY <1>1, <1>2 DEF HasTransfer
<1>8. Fresh'
  BY <1>3, <1>4, <1>5 DEF Orderly, Fresh
<1>9. Told'
  <2>1. pending # r
    BY <1>1, <1>3 DEF Orderly, Told
  <2>. QED BY <2>1, <1>1, <1>2, <1>3, <1>5 DEF Orderly, Told, SessionType
<1>10. Waiting'
  <2>1. \A k \in Kinds : waiter[k] # r
    BY <1>1, <1>3 DEF Orderly, Waiting
  <2>. QED BY <2>1, <1>1, <1>2, <1>5 DEF Orderly, Waiting, SessionType
<1>11. \A q \in Runs \ {r} : run[q].on # r
  BY <1>1, <1>3 DEF Orderly, Begun
<1>12. Begun'
  <2>1. run'[transfer'].kind # "none"
    BY <1>2, <1>4, <1>5
  <2>2. ASSUME NEW q \in Runs, run'[q].on # 0
        PROVE  run'[run'[q].on].kind # "none"
    <3>1. CASE q = r
      BY <3>1, <1>4, <1>5
    <3>2. CASE q # r
      <4>1. run'[q].on = run[q].on /\ run[q].on \in Runs \ {r}
        BY <2>2, <3>2, <1>1, <1>5, <1>11 DEF RunRecord
      <4>. QED BY <2>2, <4>1, <1>5 DEF Orderly, Begun
    <3>. QED BY <3>1, <3>2
  <2>. QED BY <2>1, <2>2 DEF Begun
<1>13. ASSUME ~stolen PROVE Busy' /\ Own'
  <2>1. transfer = 0
    BY <1>13 DEF Trigger, Triggered, Shared, Busy
  <2>2. readers = 0 /\ waiter["send"] = 0
    BY <2>1, <1>13, <1>1 DEF Shared, Own
  <2>3. \A q \in Runs : run[q].file \notin {"opening", "open"}
    BY <2>2, <1>13, RunsArePositive DEF Shared, Own
  <2>4. Busy'
    BY <1>1, <1>2, <1>4, <1>5, <1>11 DEF Busy
  <2>5. \A q \in Runs : run'[q].file \notin {"opening", "open"}
    BY <2>3, <1>5
  <2>6. \A q \in Runs : run'[q].kind = "send" /\ run'[q].at \in {"config", "copy"}
                        => run'[q].on = q \/ run'[q].file = "late"
    BY <1>5, <1>13 DEF Shared, Own
  <2>. QED BY <2>2, <2>4, <2>5, <2>6, <1>2 DEF Own
<1>. QED BY <1>2, <1>6, <1>7, <1>8, <1>9, <1>10, <1>12, <1>13 DEF Shared, Orderly

\* A run that was configured or chosen for goes on: a send lists its readers.
LEMMA GoingOn ==
    ASSUME TrzszIInv, UNCHANGED <<trzszState, transfer, pending, timer, cancelling, stopping, suppress, gone, stolen>>,
           NEW q \in Runs, run[q].at \in {"config", "wait"}, ~stolen /\ run[q].kind = "send" => transfer = q,
           run' = GoOn(q, run), readers' = ReadersOf(q),
           waiter' \in [Kinds -> Runs \cup {0}], chosen' \in [Kinds -> BOOLEAN],
           \A k \in Kinds : waiter'[k] = 0 \/ (waiter'[k] = waiter[k] /\ waiter[k] # q)
    PROVE  TrzszIInv'
<1>. USE DEF TrzszIInv
<1>1. SessionType /\ FlagType /\ run \in [Runs -> RunRecord] /\ q # 0
  BY Types, RunsArePositive
<1>2. run[q].kind # "none" /\ run[q].told = 0 /\ run[q].file = "none" /\ pending # q
  <2>1. run[q].kind # "none" /\ run[q].file = "none" /\ pending # q
    BY <1>1 DEF Orderly, Fresh, Told
  <2>2. run[q].told # 1
    BY DEF Orderly, Told
  <2>. QED BY <2>1, <2>2, <1>1 DEF RunRecord
<1>3. /\ run' \in [Runs -> RunRecord]
      /\ \A p \in Runs \ {q} : run'[p] = run[p]
      /\ run'[q].kind = run[q].kind /\ run'[q].told = run[q].told
      /\ run'[q].at \in {"open", "copy", "done"}
      /\ run'[q].on \in {run[q].on, transfer}
      /\ run'[q].kind = "send" => run'[q].at # "copy"
      /\ run'[q].file # "none" => run'[q].file = "opening" /\ run[q].kind = "send" /\ trzszState = "sending"
  <2>. DEFINE done == run[q].kind = "none" \/ trzszState # TrzszActive(run[q].kind)
  <2>1. CASE done
    <3>1. run' = [run EXCEPT ![q].at = "done"]
      BY <2>1 DEF GoOn
    <3>. QED BY <1>1, <1>2, <3>1 DEF RunRecord, Ats
  <2>2. CASE ~done /\ run[q].kind = "send"
    <3>1. run' = [run EXCEPT ![q].at = "open", ![q].file = "opening"] /\ trzszState = "sending"
      BY <2>2 DEF GoOn, TrzszActive
    <3>2. run' \in [Runs -> RunRecord] /\ \A p \in Runs \ {q} : run'[p] = run[p]
      <4>1. [run[q] EXCEPT !.at = "open", !.file = "opening"] \in RunRecord
        BY <1>1, ZenonT(60) DEF RunRecord, Ats, Files
      <4>2. run' = [run EXCEPT ![q] = [run[q] EXCEPT !.at = "open", !.file = "opening"]]
        BY <1>1, <3>1
      <4>. QED BY <1>1, <4>1, <4>2
    <3>3. /\ run'[q].kind = run[q].kind /\ run'[q].told = run[q].told /\ run'[q].on = run[q].on
          /\ run'[q].at = "open" /\ run'[q].file = "opening"
      BY <1>1, <3>1 DEF RunRecord
    <3>. QED BY <2>2, <3>1, <3>2, <3>3
  <2>3. CASE ~done /\ run[q].kind # "send"
    <3>1. run' = [run EXCEPT ![q].at = "copy", ![q].on = transfer] /\ transfer \in Runs \cup {0}
      BY <2>3, <1>1 DEF GoOn, SessionType
    <3>2. run' \in [Runs -> RunRecord] /\ \A p \in Runs \ {q} : run'[p] = run[p]
      <4>1. [run[q] EXCEPT !.at = "copy", !.on = transfer] \in RunRecord
        BY <1>1, <3>1, ZenonT(60) DEF RunRecord, Ats
      <4>2. run' = [run EXCEPT ![q] = [run[q] EXCEPT !.at = "copy", !.on = transfer]]
        BY <1>1, <3>1
      <4>. QED BY <1>1, <4>1, <4>2
    <3>3. /\ run'[q].kind = run[q].kind /\ run'[q].told = run[q].told /\ run'[q].file = run[q].file
          /\ run'[q].at = "copy" /\ run'[q].on = transfer
      BY <1>1, <3>1 DEF RunRecord
    <3>. QED BY <1>2, <2>3, <3>2, <3>3
  <2>. QED BY <2>1, <2>2, <2>3
<1>4. readers' = (IF run[q].kind = "send" /\ trzszState = "sending" THEN q ELSE readers)
  BY DEF ReadersOf
<1>5. SessionType'
  BY <1>1, <1>4 DEF SessionType
<1>6. TrzszTypeOK'
  BY <1>1, <1>3, <1>5 DEF TrzszTypeOK, SessionType, FlagType, RunRecord, Ats, Files
<1>7. HasTransfer' /\ (transfer' = 0 => readers' = 0)
  BY <1>4 DEF HasTransfer
<1>8. Fresh'
  BY <1>2, <1>3 DEF Orderly, Fresh
<1>9. Told'
  BY <1>1, <1>2, <1>3 DEF Orderly, Told, SessionType
<1>10. Waiting'
  BY <1>1, <1>3 DEF Orderly, Waiting, SessionType
<1>11. Begun'
  <2>1. \A p \in Runs : run'[p].kind = run[p].kind
    BY <1>3
  <2>2. transfer # 0 => run'[transfer].kind # "none"
    BY <2>1, <1>1 DEF Orderly, Begun, SessionType
  <2>3. ASSUME NEW p \in Runs, run'[p].on # 0
        PROVE  run'[run'[p].on].kind # "none"
    <3>1. run'[p].on = run[p].on \/ run'[p].on = transfer
      BY <1>3
    <3>2. run'[p].on \in Runs
      BY <2>3, <1>3 DEF RunRecord
    <3>. QED BY <2>1, <2>2, <2>3, <3>1, <3>2 DEF Orderly, Begun
  <2>. QED BY <2>2, <2>3 DEF Begun
<1>12. ASSUME ~stolen PROVE Busy' /\ Own'
  <2>1. Busy /\ Own
    BY <1>12 DEF Shared
  <2>2. Busy'
    BY <2>1, <1>3 DEF Busy
  <2>3. waiter'["send"] # 0 => transfer = waiter'["send"]
    BY <2>1 DEF Own, Kinds
  <2>4. readers' # 0 => transfer = readers'
    BY <2>1, <1>4, <1>12 DEF Own
  <2>5. \A p \in Runs \ {q} : run[p].file \in {"opening", "open"} => readers = p /\ readers' = p
    <3>. SUFFICES ASSUME NEW p \in Runs \ {q}, run[p].file \in {"opening", "open"}
                  PROVE  readers = p /\ readers' = p
      OBVIOUS
    <3>1. readers = p /\ transfer = p
      BY <2>1, RunsArePositive DEF Own
    <3>2. ~(run[q].kind = "send" /\ trzszState = "sending")
      BY <3>1, <1>12
    <3>. QED BY <3>1, <3>2, <1>4
  <2>6. \A p \in Runs : run'[p].file \in {"opening", "open"} => readers' = p
    BY <2>5, <1>3, <1>4
  <2>7. \A p \in Runs : run'[p].kind = "send" /\ run'[p].at \in {"config", "copy"}
                        => run'[p].on = p \/ run'[p].file = "late"
    BY <2>1, <1>3 DEF Own
  <2>. QED BY <2>2, <2>3, <2>4, <2>6, <2>7 DEF Own
<1>. QED BY <1>6, <1>7, <1>8, <1>9, <1>10, <1>11, <1>12 DEF Shared, Orderly

\* recvConfig of a send resolves in its own session only.
LEMMA FedByOwn ==
    ASSUME TrzszIInv, NEW r \in Runs, run[r].at = "config", Fed(r), ~stolen, run[r].kind = "send"
    PROVE  transfer = r
BY DEF TrzszIInv, Orderly, Fresh, Shared, Own, Fed

LEMMA Configuring ==
    ASSUME TrzszIInv, NEW r \in Runs, Configured(r)
    PROVE  TrzszIInv'
<1>. USE DEF TrzszIInv
<1>1. SessionType /\ FlagType /\ run \in [Runs -> RunRecord] /\ r # 0
  BY Types, RunsArePositive
<1>2. /\ UNCHANGED <<trzszState, transfer, pending, timer, chosen, cancelling, stopping, suppress, gone, stolen>>
      /\ run[r].at = "config" /\ Fed(r)
  BY DEF Configured
<1>. DEFINE k == run[r].kind
<1>3. k \in Kinds
  BY <1>1, <1>2 DEF Orderly, Fresh, RunRecord, Kinds
<1>4. ~stolen /\ k = "send" => transfer = r
  BY <1>2, FedByOwn
<1>5. CASE run' = GoOn(r, run) /\ readers' = ReadersOf(r) /\ UNCHANGED waiter
  <2>1. \A j \in Kinds : waiter[j] # r
    BY <1>1, <1>2 DEF Orderly, Waiting
  <2>2. waiter' \in [Kinds -> Runs \cup {0}] /\ chosen' \in [Kinds -> BOOLEAN]
    BY <1>1, <1>2, <1>5 DEF SessionType
  <2>. QED BY <1>2, <1>4, <1>5, <2>1, <2>2, GoingOn
<1>6. CASE waiter' = [waiter EXCEPT ![k] = r] /\ run' = [run EXCEPT ![r].at = "wait"] /\ UNCHANGED readers
  <2>1. /\ run' \in [Runs -> RunRecord]
        /\ \A q \in Runs : /\ run'[q].kind = run[q].kind /\ run'[q].told = run[q].told
                           /\ run'[q].on = run[q].on /\ run'[q].file = run[q].file
                           /\ run'[q].at = IF q = r THEN "wait" ELSE run[q].at
    BY <1>1, <1>6 DEF RunRecord, Ats
  <2>2. waiter' \in [Kinds -> Runs \cup {0}] /\ \A j \in Kinds : waiter'[j] = IF j = k THEN r ELSE waiter[j]
    BY <1>1, <1>3, <1>6 DEF SessionType
  <2>3. TrzszTypeOK'
    BY <1>1, <1>2, <1>6, <2>1, <2>2 DEF TrzszTypeOK, SessionType, FlagType, RunRecord, Ats, Files
  <2>4. HasTransfer' /\ (transfer' = 0 => readers' = 0)
    BY <1>2, <1>6 DEF HasTransfer
  <2>5. Fresh'
    BY <1>2, <1>3, <2>1 DEF Orderly, Fresh, Kinds
  <2>6. Told'
    BY <1>1, <1>2, <2>1, RunsArePositive DEF Orderly, Told, SessionType
  <2>7. Waiting'
    BY <1>1, <1>2, <2>1, <2>2 DEF Orderly, Waiting, SessionType
  <2>8. Begun'
    BY <1>1, <1>2, <2>1, RunsArePositive DEF Orderly, Begun, SessionType, RunRecord
  <2>9. ASSUME ~stolen PROVE Busy' /\ Own'
    <3>1. Busy /\ Own
      BY <2>9 DEF Shared
    <3>2. Busy'
      BY <3>1, <1>2, <2>1 DEF Busy
    <3>3. waiter'["send"] # 0 => transfer = waiter'["send"]
      BY <3>1, <1>4, <2>2, <2>9 DEF Own, Kinds
    <3>. QED BY <3>1, <3>2, <3>3, <1>2, <1>6, <2>1 DEF Own
  <2>. QED BY <1>2, <2>3, <2>4, <2>5, <2>6, <2>7, <2>8, <2>9 DEF Shared, Orderly
<1>. QED BY <1>5, <1>6 DEF Configured

LEMMA Choosing ==
    ASSUME TrzszIInv, NEW k \in Kinds, Choose(k)
    PROVE  TrzszIInv'
<1>. USE DEF TrzszIInv
<1>1. SessionType /\ FlagType /\ run \in [Runs -> RunRecord]
  BY Types
<1>2. /\ UNCHANGED <<trzszState, transfer, pending, timer, cancelling, stopping, suppress, gone, stolen>>
      /\ chosen' \in [Kinds -> BOOLEAN]
  BY <1>1 DEF Choose, SessionType
<1>3. CASE waiter[k] = 0
  <2>1. UNCHANGED <<waiter, run, readers>>
    BY <1>3 DEF Choose
  <2>2. TrzszTypeOK'
    BY <1>2, <2>1 DEF TrzszTypeOK
  <2>3. (HasTransfer /\ (transfer = 0 => readers = 0) /\ Orderly /\ Shared)'
    BY <1>2, <2>1 DEF HasTransfer, Orderly, Fresh, Told, Waiting, Begun, Shared, Busy, Own
  <2>. QED BY <2>2, <2>3
<1>4. CASE waiter[k] # 0
  <2>. DEFINE q == waiter[k]
  <2>1. q \in Runs /\ run[q].kind = k /\ run[q].at = "wait"
    BY <1>1, <1>4 DEF SessionType, Orderly, Waiting
  <2>2. waiter' = [waiter EXCEPT ![k] = 0] /\ run' = GoOn(q, run) /\ readers' = ReadersOf(q)
    BY <1>4 DEF Choose
  <2>3. waiter' \in [Kinds -> Runs \cup {0}] /\ \A j \in Kinds : waiter'[j] = IF j = k THEN 0 ELSE waiter[j]
    BY <1>1, <2>2 DEF SessionType
  <2>4. \A j \in Kinds : waiter[j] = q => j = k
    BY <1>4, <2>1 DEF Orderly, Waiting
  <2>5. ~stolen /\ run[q].kind = "send" => transfer = q
    BY <1>4, <2>1 DEF Shared, Own
  <2>. HIDE DEF q
  <2>6. \A j \in Kinds : waiter'[j] = 0 \/ (waiter'[j] = waiter[j] /\ waiter[j] # q)
    BY <2>3, <2>4
  <2>. QED BY <1>2, <2>1, <2>2, <2>3, <2>5, <2>6, GoingOn
<1>. QED BY <1>3, <1>4

-----------------------------------------------------------------------------
(* The theorems.                                                           *)

LEMMA Initially == TrzszInit => TrzszIInv
<1>. SUFFICES ASSUME TrzszInit PROVE TrzszIInv
  OBVIOUS
<1>1. \A r \in Runs : run[r] = [kind |-> "none", at |-> "none", on |-> 0, file |-> "none", told |-> 0]
  BY DEF TrzszInit
<1>2. TrzszTypeOK
  <2>1. run \in [Runs -> RunRecord]
    <3>1. [kind |-> "none", at |-> "none", on |-> 0, file |-> "none", told |-> 0] \in RunRecord
      BY DEF RunRecord, Ats, Files
    <3>. QED BY <3>1 DEF TrzszInit
  <2>2. SessionType /\ FlagType
    BY DEF TrzszInit, SessionType, FlagType
  <2>. QED BY <2>1, <2>2, Types
<1>3. Orderly
  BY <1>1 DEF TrzszInit, Orderly, Fresh, Told, Waiting, Begun
<1>4. Shared
  BY <1>1 DEF TrzszInit, Shared, Busy, Own, Kinds
<1>. QED BY <1>2, <1>3, <1>4 DEF TrzszIInv, HasTransfer, TrzszInit

LEMMA EveryStep == TrzszIInv /\ [TrzszNext]_trzszVars => TrzszIInv'
<1>. SUFFICES ASSUME TrzszIInv, [TrzszNext]_trzszVars PROVE TrzszIInv'
  OBVIOUS
<1>1. CASE UNCHANGED trzszVars
  <2>1. FlagType
    BY Types DEF TrzszIInv
  <2>. QED BY <1>1, <2>1, Quiet DEF trzszVars, session, FlagType
<1>2. CASE TimerFires \/ Success \/ Saved \/ CancelTrzsz \/ CancelEnds \/ CancelIdle \/ SuppressEnds \/ DestroyTrzsz
  BY <1>2, EndingSteps
<1>3. ASSUME NEW r \in Runs, Step(r) PROVE TrzszIInv'
  BY <1>3, Configuring, Opening, Completions, Exiting, Returning, Receiving, Failing DEF Step
<1>4. ASSUME NEW r \in Runs, NEW k \in Kinds, Trigger(r, k) PROVE TrzszIInv'
  BY <1>4, Triggering
<1>5. ASSUME NEW k \in Kinds, Choose(k) PROVE TrzszIInv'
  BY <1>5, Choosing
<1>. QED BY <1>1, <1>2, <1>3, <1>4, <1>5 DEF TrzszNext

LEMMA TrzszInvariant == TrzszSpec => []TrzszIInv
<1>. QED BY Initially, EveryStep, PTL DEF TrzszSpec

\* Whatever is triggered, cancelled, chosen and timed out while the coroutines wait,
\* a session that ended lists no readers, an open file is one of those listed, and
\* output finds a transfer whenever the state says that there is one.
THEOREM TrzszInvHolds == TrzszSpec => []TrzszInv
<1>1. TrzszIInv => TrzszInv
  BY DEF TrzszIInv, TrzszInv, FilesOwned, Shared, Own
<1>. QED BY <1>1, TrzszInvariant, PTL

\* However many sessions came before and after, a send that waited for its files or
\* for the remote program is in the transfer it created, but for the two exceptions
\* that SendsOwn names.
THEOREM SendsOwnHolds == TrzszSpec => []SendsOwn
<1>1. TrzszIInv => SendsOwn
  BY DEF TrzszIInv, SendsOwn, Shared, Own
<1>. QED BY <1>1, TrzszInvariant, PTL
=============================================================================
