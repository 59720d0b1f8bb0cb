---------------------------- MODULE MCFreqCounter ----------------------------
(* FreqCounter for TLC: Modulus is given in MCFreqCounter.cfg.  *)
EXTENDS FreqCounter
=============================================================================
