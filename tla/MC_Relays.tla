----------------------------- MODULE MC_Relays -----------------------------
(* Three channels of a SPICE session; an RDP or VNC session uses one of them.  *)
EXTENDS Relays

CONSTANTS c1, c2, c3

MCChan == {c1, c2, c3}
MCProtos == {"spice", "rdp", "vnc"}
=============================================================================
