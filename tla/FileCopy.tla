------------------------------ MODULE FileCopy ------------------------------
(***************************************************************************)
(* What a transfer of the SFTP panel promises to the client that started   *)
(* it (class Transfer of src/app/server/transfer.js): one outcome at most, *)
(* success only when every byte was written, or taken for written after a  *)
(* short write, with its files closed, and silence once the client has     *)
(* given it up.  How the copy is made is not said here.                    *)
(***************************************************************************)
EXTENDS Naturals

CONSTANT Bytes   \* the offsets of the source, as its size was when it was opened

VARIABLES
    copied,     \* the offsets whose byte is in its place in the destination
    skipped,    \* the offsets that short writes to the destination left out
    held,       \* the source or the destination is open
    outcome,    \* what the client was told: "none", "end" or "err"
    watched     \* the client still listens

copyVars == <<copied, skipped, held, outcome, watched>>

Init ==
    /\ copied = {} /\ skipped = {} /\ held = FALSE
    /\ outcome = "none" /\ watched = TRUE

\* Bytes arrive in any order and are never taken back, some are left out; files are
\* opened and closed.
Advance ==
    /\ copied \subseteq copied' /\ skipped \subseteq skipped'
    /\ copied' \cup skipped' \subseteq Bytes
    /\ held' \in BOOLEAN

\* onData.  Operations that were in flight may still end after an error.
Copy == outcome # "end" /\ Advance /\ UNCHANGED <<outcome, watched>>

\* onEnd
Succeed ==
    /\ watched /\ outcome = "none"
    /\ Advance
    /\ copied' \cup skipped' = Bytes /\ ~held'
    /\ outcome' = "end"
    /\ UNCHANGED watched

\* onError
FailCopy ==
    /\ watched /\ outcome = "none"
    /\ Advance
    /\ outcome' = "err"
    /\ UNCHANGED watched

\* destroy
Abandon == watched' = FALSE /\ UNCHANGED <<copied, skipped, held, outcome>>

Next == Copy \/ Succeed \/ FailCopy \/ Abandon

Spec == Init /\ [][Next]_copyVars
=============================================================================
