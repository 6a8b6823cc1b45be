---------------------------- MODULE MCBlockEpochs ----------------------------
(* A TLC instance of BlockEpochs: two keys on shards of their own, and two    *)
(* goroutines that overlap in batches.                                        *)
EXTENDS BlockEpochs, TLC

CONSTANTS k1, k2, p, q

Apart == k1 :> 1 @@ k2 :> 2
Uses == p :> {"get", "list", "putmany"} @@ q :> {"putmany", "delete"}
==============================================================================
