----------------------------- MODULE MC_Zmodem -----------------------------
(* Outputs with a header after text or stars, a stray ZSKIP, and text behind. *)
EXTENDS Zmodem

MCWires == { <<"t", "*", "*", "*", "Z", "B", "0", "0", "t">>,
             <<"*", "t", "*", "*", "Z", "B", "0", "1", "t">>,
             <<"*", "*", "Z", "B", "0", "5", "t">> }
=============================================================================
