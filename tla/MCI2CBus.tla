------------------------------- MODULE MCI2CBus ------------------------------
(* I2CBus for TLC: the constants are given in the .cfg files.              *)
EXTENDS I2CBus
=============================================================================
