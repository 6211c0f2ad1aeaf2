-------------------------- MODULE MC_XmodemReceive --------------------------
(* Constants of the models of XmodemReceive.                                *)
EXTENDS XmodemReceive

AllReceives == {{"corrupt"}, {"corrupt", "lose", "die", "cancel"}, {"corrupt", "lose", "late"}}

\* A block without control bytes, one with a CAN, one with a SOH; the number of
\* block 4 is EOT.
Contents == <<"none", "can", "soh", "eot">>
=============================================================================
