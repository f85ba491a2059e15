------------------------------- MODULE MCStream -------------------------------
(* Instances of DsplogStream for TLC.  Threads are interchangeable.          *)
EXTENDS DsplogStream, TLC

ThreadSymmetry == Permutations(Threads)
=============================================================================
