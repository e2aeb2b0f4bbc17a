--------------------------- MODULE MC_ClientEngine ---------------------------
(* Model-checking instance of ClientEngine: two caller coroutines as model *)
(* values.  The cfg files give the Channel two connection slots and bound  *)
(* the calls per caller and the failures, so that a call can meet a        *)
(* connect failure, a close after a retry, and a round-robin pick of a     *)
(* slot that is reconnecting.                                              *)
EXTENDS ClientEngine

CONSTANTS c1, c2

MCCallers == {c1, c2}

=============================================================================
