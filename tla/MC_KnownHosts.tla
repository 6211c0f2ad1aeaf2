--------------------------- MODULE MC_KnownHosts ---------------------------
(* Two verifiers, three connections to two ports of one host and to another   *)
(* host, three keys of two types, and files with a shared line, a negated     *)
(* name, a revoked key and a pattern that throws.                             *)
EXTENDS KnownHosts

CONSTANTS v1, v2

A22 == [host |-> "a", port |-> 22]
A2222 == [host |-> "a", port |-> 2222]
B22 == [host |-> "b", port |-> 22]
K1 == [type |-> "ed25519", data |-> 1]
K2 == [type |-> "ed25519", data |-> 2]
K3 == [type |-> "rsa", data |-> 3]
Shared == [hosts |-> {<<"a", 0>>, <<"b", 0>>}, except |-> {}, marker |-> "none", key |-> K1]
NotB == [hosts |-> {<<"a", 0>>, <<"b", 0>>}, except |-> {<<"b", 22>>}, marker |-> "none", key |-> K3]
Revoked == [hosts |-> {<<"a", 0>>}, except |-> {}, marker |-> "@revoked", key |-> K2]
Pattern == [hosts |-> {}, except |-> {}, marker |-> "broken pattern", key |-> K1]

MCVerifier == {v1, v2}
MCTarget == {A22, A2222, B22}
MCKey == {K1, K2, K3}
MCInitialFiles == {<<>>, <<Shared>>, <<NotB, Revoked>>, <<Pattern>>}
=============================================================================
