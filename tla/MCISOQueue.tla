------------------------------ MODULE MCISOQueue ------------------------------
(* A small instance of ISOQueue for TLC. *)
EXTENDS ISOQueue

CONSTANT e1
=============================================================================
