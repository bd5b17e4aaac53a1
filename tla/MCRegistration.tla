--------------------------- MODULE MCRegistration ---------------------------
(* Two configured supernodes, and switches to a third address *)
EXTENDS Registration

CONSTANTS p, q

MCSupernodes == <<p, q>>
============================================================================
