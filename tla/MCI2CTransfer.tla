---------------------------- MODULE MCI2CTransfer ----------------------------
(* I2CTransfer and its calls for TLC.                                      *)
EXTENDS I2CCalls

\* As tx1 the second one is not sent, as any other argument it is 105.
MCWords == {0, -151}
=============================================================================
