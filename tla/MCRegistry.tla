------------------------------ MODULE MCRegistry ------------------------------
(* Instances of DsplogRegistry for TLC: a chip with two cores, so that one   *)
(* file may own several.  Where only safety is checked, files are            *)
(* interchangeable, and so are cores.                                        *)
EXTENDS DsplogRegistry, TLC

RegistrySymmetry == Permutations(Files) \union Permutations(Cores)
=============================================================================
