------------------------------ MODULE MCSession ------------------------------
(* One window that connects twice.                                         *)
EXTENDS Session

CONSTANTS w1, c1, c2
==============================================================================
