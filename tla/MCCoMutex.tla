----------------------------- MODULE MCCoMutex -----------------------------
(* CoMutex for TLC: two coroutines of one loop and two of another, so that a *)
(* hand-over happens within a loop and across loops with others in line.     *)
EXTENDS CoMutex

CONSTANTS c1, c2, c3, c4, here, there

MCCoros == {c1, c2, c3, c4}
MCLoops == {here, there}
MCLoopOf == [c \in MCCoros |-> IF c \in {c1, c2} THEN here ELSE there]
=============================================================================
