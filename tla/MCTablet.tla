------------------------------ MODULE MCTablet ------------------------------
(* Tablet with values from the configurations.                              *)
EXTENDS Tablet
=============================================================================
