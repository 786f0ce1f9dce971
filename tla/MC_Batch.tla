------------------------------- MODULE MC_Batch -------------------------------
(* A batch of two assets, one or both at a time, called twice, and a batch   *)
(* of one of them at the same time: the budget can run out between two runs, *)
(* and an asset can be scanned for both batches at once.                     *)
EXTENDS Batch
CONSTANTS b1, b2, a1, a2, r1, r2, r3
MCBatches == {b1, b2}
MCAssets == {a1, a2}
MCAssetsOf == [b \in MCBatches |-> IF b = b1 THEN MCAssets ELSE {a1}]
MCRunners == {r1, r2, r3}
MCBatchOf == [r \in MCRunners |-> IF r = r3 THEN b2 ELSE b1]
MCMaxConcurrentRunsChoices == {1, 2}
MCMaxAiCallsChoices == {1}
=============================================================================
