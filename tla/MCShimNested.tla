---------------------------- MODULE MCShimNested ----------------------------
(* ShimGen on the nested types of ShimModels, without the ASSUMEs of        *)
(* MCShimGen, so that a change to TypeName shows as a violated property    *)
(* rather than a failed assumption.                                        *)
EXTENDS ShimGen, ShimModels

=============================================================================
