---------------------------- MODULE MC_McpServer ----------------------------
(* Two handlers at a time, three commands and a table of two tasks, one       *)
(* reconnection of the browser.                                              *)
EXTENDS McpServer

CONSTANTS o1, o2, t1, t2, t3

MCOp == {o1, o2}
MCTask == {t1, t2, t3}
=============================================================================
