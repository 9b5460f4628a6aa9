------------------------------ MODULE MCClient ------------------------------
(* Client for TLC: the configurations give its bounds, two connections required *)
(* and three descriptors, so that a connection can be dialled too often.        *)
EXTENDS Client
=============================================================================
