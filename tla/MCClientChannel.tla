-------------------------- MODULE MCClientChannel --------------------------
(* ClientChannel for TLC: three requests and a heartbeat, so that requests and *)
(* a heartbeat wait in line behind one in flight.                              *)
EXTENDS ClientChannel

CONSTANTS r1, r2, r3, h1

MCRequests == {r1, r2, r3}
MCTwoRequests == {r1, r2}
MCHeartbeats == {h1}
=============================================================================
