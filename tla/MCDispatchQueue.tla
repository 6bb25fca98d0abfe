--------------------------- MODULE MCDispatchQueue ---------------------------
(* Instances of DispatchQueue for TLC.                                     *)
EXTENDS DispatchQueue
=============================================================================
