------------------------------- MODULE MCModule -------------------------------
(* Instances of DsplogModule for TLC: a chip with one core.                  *)
EXTENDS DsplogModule
=============================================================================
