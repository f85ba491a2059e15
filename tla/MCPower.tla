------------------------------- MODULE MCPower -------------------------------
(* Instances of DsplogPower for TLC: a chip with one core and one with two.  *)
EXTENDS DsplogPower
=============================================================================
