---------------------------- MODULE MC_XmodemSend ----------------------------
(* Constants of the models of XmodemSend.                                   *)
EXTENDS XmodemSend

AllSends == {{"corrupt"}, {"die", "cancel", "open"},
             {"corrupt", "lose", "late", "cancel", "open"}}
=============================================================================
