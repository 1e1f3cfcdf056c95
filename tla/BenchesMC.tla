------------------------------ MODULE BenchesMC ------------------------------
(* Instance of Benches for TLC.                                            *)
EXTENDS Benches

(* The Rev A configuration, a rate the 16 x 8 geometry also supports, one  *)
(* it does not, and the two that are refused.                              *)
BenchConfigs ==
    {[pclkHz |-> 1024000, fsyncHz |-> 8000], [pclkHz |-> 1536000, fsyncHz |-> 12000],
     [pclkHz |-> 2048000, fsyncHz |-> 8000],
     [pclkHz |-> 0, fsyncHz |-> 8000], [pclkHz |-> 1024000, fsyncHz |-> 0]}
(* The loop of main.cpp comes round late when it connects over TLS.        *)
Passes == [config |-> 3, ring |-> 1, detector |-> 1]
=============================================================================
