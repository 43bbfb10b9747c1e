-------------------------------- MODULE MCLog -------------------------------
(* Instances of Log for TLC: the constants are in the .cfg files. *)
EXTENDS Log

=============================================================================
