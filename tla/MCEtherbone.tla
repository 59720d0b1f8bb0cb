----------------------------- MODULE MCEtherbone -----------------------------
(* Etherbone for TLC: the constants are given in MCEtherbone.cfg.          *)
EXTENDS Etherbone
=============================================================================
