------------------------------- MODULE MCProc -------------------------------
(* Instances of Proc for TLC: the constants are in the .cfg files. *)
EXTENDS Proc

=============================================================================
