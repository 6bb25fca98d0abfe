--------------------------- MODULE MCProduction ---------------------------
(* Instances of Production for TLC.                                        *)
EXTENDS ProductionRefinement
=============================================================================
