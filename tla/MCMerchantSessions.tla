------------------------- MODULE MCMerchantSessions -------------------------
(***************************************************************************)
(* Two people and two organisations: u1 owns t1, u2 owns t2 and may be     *)
(* invited to t1 (membership 3).                                           *)
(***************************************************************************)
EXTENDS MerchantSessions, TLC

CONSTANTS u1, u2, t1, t2

MCUserOf == 1 :> u1 @@ 2 :> u2 @@ 3 :> u2
MCTenantOf == 1 :> t1 @@ 2 :> t2 @@ 3 :> t1
MCEdits == {[role |-> "OWNER", status |-> "SUSPENDED"],
            [role |-> "OPERATOR", status |-> "ACTIVE"]}
MCSymmetry == Permutations(Sessions) \cup Permutations(Invitations) \cup Permutations(Requests)
=============================================================================
