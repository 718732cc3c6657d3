----------------------------- MODULE MCShimPair -----------------------------
(* ShimPair instantiated with the models of ShimModels.                    *)
EXTENDS ShimPair, ShimModels

=============================================================================
