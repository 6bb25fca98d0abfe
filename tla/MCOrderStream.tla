---------------------------- MODULE MCOrderStream ---------------------------
(***************************************************************************)
(* The bounds are in the configuration.                                    *)
(***************************************************************************)
EXTENDS OrderStream, TLC
=============================================================================
