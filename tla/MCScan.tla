-------------------------------- MODULE MCScan --------------------------------
(* Instances of DsplogScan for TLC.                                          *)
EXTENDS DsplogScan

CONSTANTS c0, c1

TwoCores == <<c0, c1>>
=============================================================================
