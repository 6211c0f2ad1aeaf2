---------------------------- MODULE MC_Registry ----------------------------
(* One terminal, one file session over two websockets, one transfer.        *)
EXTENDS Registry

MCTermOf == [f \in Files |-> CHOOSE t \in Terms : TRUE]
MCFileOf == [x \in Xfers |-> CHOOSE f \in Files : TRUE]
=============================================================================
