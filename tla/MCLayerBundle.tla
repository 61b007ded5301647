---------------------------- MODULE MCLayerBundle ----------------------------
(* Two parts of the medallion for TLC: the reference bronze and silver, and   *)
(* silver, reconciliation and gold.  The Kurly silver that the reconciliation *)
(* and gold also read has the shape of the reference silver.                  *)
EXTENDS LayerBundle

CONSTANTS bronze, silver, reconciled, gold, records, evidence, manifest

MCOutputs == [l \in Layers |-> IF l = bronze THEN <<records, manifest>>
                                             ELSE <<records, evidence, manifest>>]
MCReads ==
  [l \in Layers |->
     CASE l = bronze     -> <<>>
       [] l = silver     -> IF bronze \in Layers
                            THEN <<<<bronze, manifest>>, <<bronze, records>>>> ELSE <<>>
       [] l = reconciled -> <<<<silver, manifest>>, <<silver, records>>>>
       [] l = gold       -> <<<<reconciled, manifest>>, <<reconciled, records>>,
                              <<silver, records>>, <<silver, evidence>>>>]
=============================================================================
