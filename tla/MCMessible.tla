----------------------------- MODULE MCMessible ------------------------------
(* Messible for TLC: the constants are given in MCMessible.cfg.            *)
EXTENDS Messible
=============================================================================
