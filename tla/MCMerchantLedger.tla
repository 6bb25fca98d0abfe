-------------------------- MODULE MCMerchantLedger --------------------------
(* Instance of MerchantLedger for TLC: the money of one order and the      *)
(* merchant's books.                                                       *)
EXTENDS MerchantLedger
=============================================================================
