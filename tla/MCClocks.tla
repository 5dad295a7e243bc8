----------------------------- MODULE MCClocks -----------------------------
(* TLC instance of Clocks.                                                  *)
EXTENDS Clocks
=============================================================================
