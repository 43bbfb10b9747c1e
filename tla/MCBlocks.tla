------------------------------ MODULE MCBlocks -------------------------------
(***************************************************************************)
(* One process and one file, with the block counts of param.h and fs.h: a  *)
(* unit of a file's contents is a whole block here.                        *)
(***************************************************************************)
EXTENDS Blocks

OneFile == {<<1>>}
=============================================================================
