------------------------------- MODULE MCBios --------------------------------
(* Bios for TLC: the constants are given in the .cfg files.                *)
EXTENDS Bios
=============================================================================
