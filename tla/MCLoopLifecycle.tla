-------------------------- MODULE MCLoopLifecycle --------------------------
(* LoopLifecycle for TLC: the owner and two more threads, so that one can be *)
(* in cv_.wait while another holds start_stop_lock_.                         *)
EXTENDS LoopLifecycle

CONSTANTS owner, t1, t2

MCThreads == {owner, t1, t2}
MCTwoThreads == {owner, t1}
MCOneThread == {owner}
=============================================================================
