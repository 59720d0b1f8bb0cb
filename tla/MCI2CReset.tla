----------------------------- MODULE MCI2CReset ------------------------------
(* I2CReset for TLC: the constants are given in MCI2CReset.cfg.            *)
EXTENDS I2CReset
=============================================================================
