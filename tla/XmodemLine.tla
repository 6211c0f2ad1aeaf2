----------------------------- MODULE XmodemLine -----------------------------
(* What sending and receiving by XMODEM share: the serial line between an  *)
(* XmodemSession (src/app/server/xmodem.js) and the program in the         *)
(* terminal, and what may happen to it.                                    *)
EXTENDS Integers, Sequences

CONSTANTS
  BlockMod,   (* block numbers on the line are taken modulo it (& 0xFF)    *)
  MaxRetries, (* MAX_RETRIES                                               *)
  FaultSets,  (* sets of what may happen in one behaviour: "corrupt",      *)
              (* "lose", "late" (a timer fires though an answer is under   *)
              (* way), "die" (of the program), "open" (the file to send    *)
              (* does not open), "cancel" (by the user)                    *)
  Budget      (* bound on how often, in all                                *)

ASSUME LineAssumption ==
  /\ BlockMod \in Nat \ {0, 1} /\ MaxRetries \in Nat /\ Budget \in Nat
  /\ FaultSets \subseteq SUBSET {"corrupt", "lose", "late", "die", "open", "cancel"}

VARIABLES
  toRemote,   (* under way to the program                                  *)
  toHost,     (* under way to the session                                  *)
  budget      (* [faults, left]: what may happen, and how often still      *)

Fault(f) ==
  f \in budget.faults /\ budget.left > 0 /\ budget' = [budget EXCEPT !.left = @ - 1]

\* No answer of this behaviour is later than the timers.
InTime == "late" \notin budget.faults

\* The retries are used up.  Mutant: one too early.
TooManySoon(n) == n >= MaxRetries
TooMany(n)     == n > MaxRetries

\* What is under way without its k-th token.
Without(s, k) == SubSeq(s, 1, k - 1) \o SubSeq(s, k + 1, Len(s))

\* The first of the places, or 0.
Earliest(places) ==
  IF places = {} THEN 0 ELSE CHOOSE k \in places : \A j \in places : k <= j
=============================================================================
