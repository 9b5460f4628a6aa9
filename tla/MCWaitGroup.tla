---------------------------- MODULE MCWaitGroup ----------------------------
(* WaitGroup for TLC: three workers, so that a first can bring the count to  *)
(* zero before the others are added and two can race for the last Done.      *)
EXTENDS WaitGroup

CONSTANTS w1, w2, w3

MCWorkers == {w1, w2, w3}
=============================================================================
