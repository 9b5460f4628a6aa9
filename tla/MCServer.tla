------------------------------ MODULE MCServer ------------------------------
(* Server for TLC: the configurations give two loops and two connections, one  *)
(* of which may send a request that is answered later.                         *)
EXTENDS Server

\* With a service for each loop, limit 1 is the one that two connections can pass.
MCLimits == [b \in BOOLEAN |-> IF b THEN {1} ELSE {1, 2}]
=============================================================================
