---------------------------- MODULE MCFreqHost ----------------------------
(* FreqHost for TLC: Modulus is given in MCFreqHost.cfg.  *)
EXTENDS FreqHost
=============================================================================
