---------------------------- MODULE MC_FastXfer ----------------------------
(* Constants of the models of FastXfer.                                    *)
EXTENDS FastXfer

AllKinds == {"file", "scp", "dir"}
=============================================================================
