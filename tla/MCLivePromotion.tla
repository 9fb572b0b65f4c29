-------------------------- MODULE MCLivePromotion --------------------------
(***************************************************************************)
(* Instances of LivePromotion for TLC.                                     *)
(***************************************************************************)
EXTENDS LivePromotionProperties, TLC

Pushes == Permutations(Deployments)
=============================================================================
