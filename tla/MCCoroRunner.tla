---------------------------- MODULE MCCoroRunner ----------------------------
(* CoroRunner for TLC: two tasks on up to three coroutines with one parked     *)
(* coroutine at most, so that coroutines are reused and destroyed.             *)
EXTENDS CoroRunner, FiniteSets

CONSTANTS t1, t2, c1, c2, c3

MCTasks == {t1, t2}
MCCoros == {c1, c2, c3}
=============================================================================
