------------------------------ MODULE MC_Trzsz ------------------------------
(* Two triggers, one after the other or one while the other is being ended.    *)
(* (Three are a million states; the theorems hold for any number.)             *)
EXTENDS Trzsz
=============================================================================
