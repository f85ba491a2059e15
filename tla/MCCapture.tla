------------------------------ MODULE MCCapture ------------------------------
(* Instances of DsplogCapture for TLC.  Threads are interchangeable.        *)
EXTENDS DsplogCapture, TLC

ThreadSymmetry == Permutations(Threads)

\* What the next steps depend on: not the history of the full flag, which
\* neither fairness nor the liveness properties mention.
CaptureView == <<write_ptr, read_ptr, full, tpc, wakeVars, modeVars, callVars>>
=============================================================================
