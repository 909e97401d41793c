------------------------------ MODULE MCConsole ------------------------------
(* Instances of Console for TLC: tabs, people and requests are model values. *)
EXTENDS Console

CONSTANTS t1, e1, e2, a1
=============================================================================
