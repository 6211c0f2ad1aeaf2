----------------------------- MODULE MC_Deploy -----------------------------
(* Three releases, one of them with a fragment that the web server refuses,  *)
(* and three runs of the script: install, change, change again.              *)
EXTENDS Deploy

CONSTANTS r1, r2, r3

MCRelease == {r1, r2, r3}
MCBad == {r3}
=============================================================================
