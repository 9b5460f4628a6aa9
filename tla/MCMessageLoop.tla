--------------------------- MODULE MCMessageLoop ---------------------------
(* MessageLoop for TLC: two producers, so that one can find notify_flag_     *)
(* set by the other.                                                         *)
EXTENDS MessageLoop, TLC

CONSTANTS p1, p2

MCProducers == {p1, p2}
=============================================================================
