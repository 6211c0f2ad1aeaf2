---------------------------- MODULE MC_TermOutput ----------------------------
(* Constants of the models of TermOutput.                                  *)
EXTENDS TermOutput

\* Text, a character in two pieces, and a chunk that counts as large.
Mixed      == {<<"a">>, <<"L3">>, <<"c", "c">>, <<"a", "a">>}
MixedLarge == {<<"a", "a">>}
=============================================================================
